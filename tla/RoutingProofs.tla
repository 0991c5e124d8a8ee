--------------------------- MODULE RoutingProofs ---------------------------
(***************************************************************************)
(* From a key to its node.  key_hash_slot hashes the tag of a key and      *)
(* nothing else, for keys of any length and bytes (HashesTag).  The slot   *)
(* map a worker loads is as LoadsOwners and LoadsSettled say, for any      *)
(* cluster, any seed lists and any order of the lines.                     *)
(*                                                                         *)
(* The two loops of key_hash_slot stop at the first brace they meet        *)
(* (FindFirst).  Each key is then in one of three cases: no opening brace, *)
(* no closing brace after it or one right after it, or a tag.              *)
(*                                                                         *)
(* The invariant of ClusterMap is small (Settled: every slot has a         *)
(* master).  The weight is in the algorithm: what the lines of CLUSTER     *)
(* NODES say of a slot (LineSlots), and what the loop over the lines       *)
(* leaves in the map (LoopSays), which is proved by taking the first line  *)
(* after which it would be wrong (LeastNumber).                            *)
(***************************************************************************)
EXTENDS ClusterMap, HashTag, FiniteSetTheorems, WellFoundedInduction, TLAPS

\* A set of natural numbers has a least one.
LEMMA LeastNumber ==
    ASSUME NEW T, T \subseteq Nat, T # {}
    PROVE  \E x \in T : \A y \in T : x <= y
<1> DEFINE Less == {ss \in Nat \X Nat : ss[1] < ss[2]}
<1>1. IsWellFoundedOn(Less, Nat)
  BY NatLessThanWellFounded, Zenon DEF OpToRel
<1> HIDE DEF Less
<1>2. PICK x \in T : \A y \in T : ~(<<y, x>> \in Less)
  BY <1>1, WFMin, Zenon
<1>3. ASSUME NEW y \in T PROVE x <= y
  <2>1. ~(y < x)
    BY <1>2, Zenon DEF Less
  <2> QED BY <2>1
<1> QED BY <1>3

-----------------------------------------------------------------------------
(* The tag of a key. *)

\* The loops of key_hash_slot end at the first b from p on, or beyond the end.
LEMMA FindFirst ==
    ASSUME NEW k \in Seq(0 .. 255), NEW b, NEW p \in 1 .. Len(k) + 1
    PROVE  LET i == Find(k, b, p) IN
           /\ i \in p .. Len(k) + 1 /\ (i = Len(k) + 1 \/ k[i] = b)
           /\ \A j \in p .. i - 1 : k[j] # b
<1> DEFINE Stops(i) == i = Len(k) + 1 \/ k[i] = b
           T == {i \in p .. Len(k) + 1 : Stops(i)}
<1>1. Len(k) \in Nat
  OBVIOUS
<1>2. T \subseteq Nat /\ Len(k) + 1 \in T
  BY <1>1
<1>3. PICK x \in T : \A y \in T : x <= y
  <2> HIDE DEF T
  <2> QED BY <1>2, LeastNumber, Zenon
<1>4. x \in p .. Len(k) + 1 /\ Stops(x)
  BY <1>3
<1>5. ASSUME NEW j \in p .. x - 1 PROVE k[j] # b
  <2>1. j \in p .. Len(k) + 1 /\ ~(x <= j)
    BY <1>1, <1>4, SMTT(30)
  <2> QED BY <1>3, <2>1
<1>6. \E i \in p .. Len(k) + 1 : Stops(i) /\ \A j \in p .. i - 1 : k[j] # b
  BY <1>4, <1>5
<1> QED BY <1>6, Zenon DEF Find

\* A pair of braces with a tag of k in between.
Braces(k, p) ==
    /\ p[1] + 1 < p[2] /\ k[p[1]] = Open /\ k[p[2]] = Close
    /\ \A i \in 1 .. p[1] - 1 : k[i] # Open
    /\ \A i \in p[1] + 1 .. p[2] - 1 : k[i] # Close

\* A key has one tag or none, and key_hash_slot finds it.
LEMMA HashedIsTag ==
    ASSUME NEW k \in Seq(0 .. 255)
    PROVE  IF Tags(k) = {} THEN Hashed(k) = k ELSE Tags(k) = {Hashed(k)}
<1> DEFINE n == Len(k)
           s == Find(k, Open, 1)
           e == Find(k, Close, s + 1)
           pairs == {p \in (1 .. n) \X (1 .. n) : Braces(k, p)}
<1>1. n \in Nat
  OBVIOUS
<1>2. Tags(k) = {SubSeq(k, q[1] + 1, q[2] - 1) : q \in pairs}
  BY DEF Tags, Braces
<1>3. /\ s \in 1 .. n + 1 /\ (s = n + 1 \/ k[s] = Open)
      /\ \A j \in 1 .. s - 1 : k[j] # Open
  BY <1>1, FindFirst
<1>4. s <= n => /\ e \in s + 1 .. n + 1 /\ (e = n + 1 \/ k[e] = Close)
                /\ \A j \in s + 1 .. e - 1 : k[j] # Close
  BY <1>1, <1>3, FindFirst, SMTT(30)
<1>5. Hashed(k) = IF s > n THEN k ELSE IF e > n \/ e = s + 1 THEN k ELSE SubSeq(k, s + 1, e - 1)
  BY DEF Hashed
<1> HIDE DEF n, s, e
<1>6. ASSUME NEW q \in pairs PROVE s <= n /\ q[1] = s /\ q[2] = e /\ s + 1 < e /\ e <= n
  <2>1. q[1] \in 1 .. n /\ q[2] \in 1 .. n /\ Braces(k, q)
    OBVIOUS
  <2>2. s = q[1]
    <3>1. ~(q[1] < s)
      <4>1. q[1] < s => q[1] \in 1 .. s - 1
        BY <1>1, <1>3, <2>1
      <4> QED BY <1>3, <2>1, <4>1 DEF Braces
    <3>2. ~(s < q[1])
      <4>1. s < q[1] => s \in 1 .. q[1] - 1 /\ s # n + 1
        BY <1>1, <1>3, <2>1
      <4> QED BY <1>3, <2>1, <4>1 DEF Braces
    <3> QED BY <1>1, <1>3, <2>1, <3>1, <3>2, SMTT(30)
  <2>3. s <= n
    BY <1>1, <2>1, <2>2
  <2>4. e = q[2]
    <3>1. ~(q[2] < e)
      <4>1. q[2] < e => q[2] \in s + 1 .. e - 1
        BY <1>1, <1>3, <1>4, <2>1, <2>2, <2>3, SMTT(30) DEF Braces
      <4> QED BY <1>4, <2>1, <2>3, <4>1, SMTT(30) DEF Braces
    <3>2. ~(e < q[2])
      <4>1. e < q[2] => e \in q[1] + 1 .. q[2] - 1 /\ e # n + 1
        BY <1>1, <1>3, <1>4, <2>1, <2>2, <2>3, SMTT(30)
      <4> QED BY <1>4, <2>1, <2>3, <4>1, SMTT(30) DEF Braces
    <3> QED BY <1>1, <1>3, <1>4, <2>1, <2>3, <3>1, <3>2, SMTT(30)
  <2> QED BY <1>1, <2>1, <2>2, <2>3, <2>4, SMTT(30) DEF Braces
<1>7. CASE s <= n /\ s + 1 < e /\ e <= n
  <2>1. <<s, e>> \in pairs
    BY <1>1, <1>3, <1>4, <1>7, SMTT(30) DEF Braces
  <2>2. \A q \in pairs : q[1] = s /\ q[2] = e
    BY <1>6
  <2>3. Hashed(k) = SubSeq(k, s + 1, e - 1)
    BY <1>1, <1>3, <1>4, <1>5, <1>7, SMTT(30)
  <2> HIDE DEF pairs
  <2>4. Tags(k) = {SubSeq(k, s + 1, e - 1)}
    BY <1>2, <2>1, <2>2
  <2> QED BY <2>3, <2>4, Zenon
<1>8. CASE ~(s <= n /\ s + 1 < e /\ e <= n)
  <2>1. pairs = {}
    BY <1>6, <1>8
  <2>2. Hashed(k) = k
    BY <1>1, <1>3, <1>4, <1>5, <1>8, SMTT(30)
  <2> HIDE DEF pairs
  <2> QED BY <1>2, <2>1, <2>2
<1> QED BY <1>7, <1>8

\* key_hash_slot hashes the tag of a key that has one, alone, and all of any other key.
THEOREM TagIsHashed == key \in Keys => HashesTag
BY HashedIsTag, KeysAssumption DEF KeysAssumption, HashesTag

-----------------------------------------------------------------------------
(* The loop over the lines. *)

\* The maps are defined: each is the map before it with one line more.
LEMMA MapsDefined ==
    ASSUME NEW lines, Len(lines) \in Nat
    PROVE  SlotMaps(lines) =
             [i \in 0 .. Len(lines) |->
                IF i = 0 THEN <<>> ELSE SetMemNode(SlotMaps(lines)[i - 1], lines[i])]
<1> DEFINE Fits(n, g) ==
             g = [i \in 0 .. n |-> IF i = 0 THEN <<>> ELSE SetMemNode(g[i - 1], lines[i])]
           T == {n \in Nat : ~ \E g : Fits(n, g)}
<1>1. T = {}
  <2> SUFFICES ASSUME T # {} PROVE FALSE
    OBVIOUS
  <2>1. PICK x \in T : \A y \in T : x <= y
    <3>1. T \subseteq Nat
      OBVIOUS
    <3> HIDE DEF T
    <3> QED BY <3>1, LeastNumber, Zenon
  <2>2. CASE x = 0
    <3> DEFINE h == [i \in 0 .. 0 |-> <<>>]
    <3>1. Fits(0, h)
      OBVIOUS
    <3> QED BY <2>1, <2>2, <3>1, Zenon
  <2>3. CASE x # 0
    <3>1. x - 1 \in Nat /\ x - 1 \notin T /\ x \in Nat
      <4>1. T \subseteq Nat
        OBVIOUS
      <4> HIDE DEF T
      <4> QED BY <2>1, <2>3, <4>1
    <3>2. PICK g : Fits(x - 1, g)
      BY <3>1
    <3> DEFINE h == [i \in 0 .. x |-> IF i = 0 THEN <<>> ELSE SetMemNode(g[i - 1], lines[i])]
    <3>3. \A i \in 0 .. x - 1 : h[i] = g[i]
      BY <3>1, <3>2, SMTT(30)
    <3>4. Fits(x, h)
      <4>1. \A i \in 0 .. x : h[i] = IF i = 0 THEN <<>> ELSE SetMemNode(g[i - 1], lines[i])
        OBVIOUS
      <4>2. h = [i \in 0 .. x |-> h[i]]
        OBVIOUS
      <4> HIDE DEF h, T
      <4>3. \A i \in 0 .. x : i # 0 => h[i - 1] = g[i - 1]
        BY <3>1, <3>3, SMTT(30)
      <4>4. \A i \in 0 .. x : h[i] = IF i = 0 THEN <<>> ELSE SetMemNode(h[i - 1], lines[i])
        BY <4>1, <4>3
      <4> QED BY <4>2, <4>4, Zenon
    <3> QED BY <2>1, <3>4, Zenon
  <2> QED BY <2>2, <2>3
<1>2. \E g : Fits(Len(lines), g)
  BY <1>1
<1>3. SlotMaps(lines) = CHOOSE g : Fits(Len(lines), g)
  BY DEF SlotMaps
<1>4. Fits(Len(lines), SlotMaps(lines))
  <2> HIDE DEF Fits
  <2> QED BY <1>2, <1>3
<1> QED BY <1>4

\* A map m that the first i lines may leave: the slots they name, each with the
\* address of one of the lines that name it.
Says(lines, i, m) ==
    /\ m = [s \in DOMAIN m |-> m[s]]
    /\ \A s \in DOMAIN m : \E j \in 1 .. i : s \in SlotsOf(lines[j]) /\ m[s] = lines[j].addr
    /\ \A j \in 1 .. i : SlotsOf(lines[j]) \subseteq DOMAIN m

\* One line more.
LEMMA LineSays ==
    ASSUME NEW lines, NEW i \in Nat, NEW m, Says(lines, i, m)
    PROVE  Says(lines, i + 1, SetMemNode(m, lines[i + 1]))
<1> DEFINE S == SlotsOf(lines[i + 1])
           k == SetMemNode(m, lines[i + 1])
<1>1. k = [s \in S \cup DOMAIN m |-> IF s \in S THEN lines[i + 1].addr ELSE m[s]]
  BY DEF SetMemNode
<1> HIDE DEF k
<1>2. DOMAIN k = S \cup DOMAIN m
  BY <1>1
<1>3. k = [s \in DOMAIN k |-> k[s]]
  BY <1>1
<1>4. ASSUME NEW s \in DOMAIN k
      PROVE  \E j \in 1 .. i + 1 : s \in SlotsOf(lines[j]) /\ k[s] = lines[j].addr
  <2>1. CASE s \in S
    <3>1. k[s] = lines[i + 1].addr /\ i + 1 \in 1 .. i + 1
      BY <1>1, <2>1
    <3> QED BY <2>1, <3>1
  <2>2. CASE s \notin S
    <3>1. s \in DOMAIN m /\ k[s] = m[s]
      BY <1>1, <1>2, <2>2
    <3>2. PICK j \in 1 .. i : s \in SlotsOf(lines[j]) /\ m[s] = lines[j].addr
      BY <3>1 DEF Says
    <3>3. j \in 1 .. i + 1
      OBVIOUS
    <3> QED BY <3>1, <3>2, <3>3
  <2> QED BY <2>1, <2>2
<1>5. ASSUME NEW j \in 1 .. i + 1 PROVE SlotsOf(lines[j]) \subseteq DOMAIN k
  <2>1. CASE j = i + 1
    BY <1>2, <2>1
  <2>2. CASE j # i + 1
    <3>1. j \in 1 .. i
      BY <2>2
    <3> QED BY <1>2, <3>1 DEF Says
  <2> QED BY <2>1, <2>2
<1> HIDE DEF S
<1> QED BY <1>3, <1>4, <1>5 DEF Says, k

\* UpdateClusterNodes: all lines.
LEMMA LoopSays ==
    ASSUME NEW lines, Len(lines) \in Nat
    PROVE  Says(lines, Len(lines), UpdateClusterNodes(lines).slot)
<1> DEFINE L == Len(lines)
           M == SlotMaps(lines)
           T == {i \in 0 .. L : ~Says(lines, i, M[i])}
<1>1. M[0] = <<>> /\ \A i \in 1 .. L : M[i] = SetMemNode(M[i - 1], lines[i])
  <2>1. M = [i \in 0 .. L |-> IF i = 0 THEN <<>> ELSE SetMemNode(M[i - 1], lines[i])]
    BY MapsDefined
  <2> HIDE DEF M
  <2> QED BY <2>1
<1> HIDE DEF M
<1>2. T = {}
  <2> SUFFICES ASSUME T # {} PROVE FALSE
    OBVIOUS
  <2>1. PICK x \in T : \A y \in T : x <= y
    <3>1. T \subseteq Nat
      OBVIOUS
    <3> HIDE DEF T
    <3> QED BY <3>1, LeastNumber, Zenon
  <2>2. CASE x = 0
    <3>1. Says(lines, 0, <<>>)
      BY DEF Says
    <3> QED BY <1>1, <2>1, <2>2, <3>1
  <2>3. CASE x # 0
    <3>1. x - 1 \in Nat /\ x - 1 \in 0 .. L /\ x - 1 \notin T /\ x \in 1 .. L /\ x - 1 + 1 = x
      BY <2>1, <2>3
    <3>2. Says(lines, x - 1, M[x - 1])
      BY <3>1
    <3>3. Says(lines, x - 1 + 1, SetMemNode(M[x - 1], lines[x - 1 + 1]))
      <4> DEFINE k == x - 1
      <4>1. k \in Nat /\ Says(lines, k, M[k])
        BY <3>1, <3>2
      <4> HIDE DEF k
      <4>2. Says(lines, k + 1, SetMemNode(M[k], lines[k + 1]))
        BY <4>1, LineSays
      <4> QED BY <4>2 DEF k
    <3>4. Says(lines, x, M[x])
      BY <1>1, <3>1, <3>3, SMTT(30)
    <3> QED BY <2>1, <3>4
  <2> QED BY <2>2, <2>3
<1>3. L \notin T /\ L \in 0 .. L
  BY <1>2
<1>4. UpdateClusterNodes(lines).slot = M[L]
  BY DEF UpdateClusterNodes, M
<1> QED BY <1>3, <1>4

-----------------------------------------------------------------------------
(* The lines. *)

\* Every slot has a master.
Settled ==
    owner \in [Slots -> Masters] /\ moving \in [Slots -> Masters \cup {None}]

\* Every slot of a set is in one of its ranges.
LEMMA RangeOf ==
    ASSUME NEW S \in SUBSET Slots, NEW s \in S
    PROVE  \E r \in Ranges(S) : s \in r[1] .. r[2]
<1> DEFINE A == {a \in Nat : a <= s /\ a .. s \subseteq S}
           B == {k \in Nat : s + k + 1 \notin S}
<1>1. MaxSlot \in Nat /\ S \subseteq 0 .. MaxSlot /\ s \in Nat /\ s <= MaxSlot
  BY ClusterAssumption DEF Slots
<1>2. A \subseteq Nat /\ B \subseteq Nat /\ s \in A /\ MaxSlot \in B
  <2>1. s .. s = {s}
    BY <1>1
  <2>2. s + MaxSlot + 1 \notin S
    BY <1>1
  <2> QED BY <1>1, <2>1, <2>2
<1>3. PICK a \in A : \A y \in A : a <= y
  <2> HIDE DEF A, B
  <2> QED BY <1>2, LeastNumber, Zenon
<1>4. PICK k \in B : \A y \in B : k <= y
  <2> HIDE DEF A, B
  <2> QED BY <1>2, LeastNumber, Zenon
<1>5. a \in Nat /\ a <= s /\ a .. s \subseteq S /\ a \in S
  BY <1>1
<1>6. a - 1 \notin S
  <2> SUFFICES ASSUME a - 1 \in S PROVE FALSE
    OBVIOUS
  <2>1. a - 1 \in Nat /\ a - 1 <= s
    BY <1>1, <1>5
  <2>2. ASSUME NEW y \in a - 1 .. s PROVE y \in S
    <3>1. y = a - 1 \/ y \in a .. s
      BY <1>1, <1>5
    <3> QED BY <1>5, <3>1
  <2>3. a - 1 \in A
    BY <2>1, <2>2
  <2>4. ~(a <= a - 1)
    BY <1>5
  <2> HIDE DEF A
  <2> QED BY <1>3, <2>3, <2>4, SMTT(30)
<1>7. k \in Nat /\ s + k + 1 \notin S /\ \A y \in Nat : y < k => s + y + 1 \in S
  <2>1. k \in Nat /\ s + k + 1 \notin S
    OBVIOUS
  <2>2. ASSUME NEW y \in Nat, y < k PROVE s + y + 1 \in S
    <3>1. y \notin B
      <4> HIDE DEF B
      <4> QED BY <1>4, <2>1, <2>2, SMTT(30)
    <3> QED BY <3>1
  <2> QED BY <2>1, <2>2
<1> HIDE DEF A, B
<1>8. ASSUME NEW x \in s .. s + k PROVE x \in S
  <2>1. CASE x = s
    BY <2>1
  <2>2. CASE x # s
    <3> DEFINE y == x - s - 1
    <3>1. y \in Nat /\ y < k /\ s + y + 1 = x
      BY <1>1, <1>7, <2>2, SMTT(30)
    <3> HIDE DEF y
    <3>2. s + y + 1 \in S
      BY <1>7, <3>1, SMTT(30)
    <3> QED BY <3>1, <3>2
  <2> QED BY <2>1, <2>2
<1>9. s + k \in S /\ s + k + 1 \notin S /\ a <= s + k /\ s \in a .. s + k
  BY <1>1, <1>5, <1>7, <1>8, SMTT(30)
<1>10. a .. s + k \subseteq S
  <2> SUFFICES ASSUME NEW x \in a .. s + k PROVE x \in S
    OBVIOUS
  <2>1. x \in a .. s \/ x \in s .. s + k
    BY <1>1, <1>5, <1>7, SMTT(30)
  <2> QED BY <1>5, <1>8, <2>1, SMTT(30)
<1> DEFINE r == <<a, s + k>>
<1>11. r \in S \X S /\ r[1] = a /\ r[2] = s + k
  BY <1>5, <1>9
<1> HIDE DEF r
<1>12. r \in Ranges(S)
  BY <1>6, <1>9, <1>10, <1>11, SMTT(30) DEF Ranges
<1> QED BY <1>9, <1>11, <1>12, SMTT(30)

\* The flags of a master that the seed trusts, or of the seed, name its role.
LEMMA TrustedRole ==
    ASSUME NEW seed, NEW n \in Masters, n = seed \/ n \notin suspect \cup noaddr
    PROVE  HasSlots(Line(seed, n))
<1>1. CASE n = seed
  <2>1. Line(seed, n).flags = <<"myself", "master">>
    BY <1>1 DEF Line
  <2>2. Role(<<"myself", "master">>) = <<"master">>
    BY DEF Role
  <2> QED BY <2>1, <2>2 DEF HasSlots
<1>2. CASE n # seed
  <2>1. Line(seed, n).flags = <<"master">>
    <3>1. Marks(n) = <<>> \o <<>>
      BY <1>2, Zenon DEF Marks
    <3>2. <<"master">> \o (<<>> \o <<>>) = <<"master">>
      OBVIOUS
    <3>3. Line(seed, n).flags = <<"master">> \o Marks(n)
      BY <1>2, Zenon DEF Line
    <3> QED BY <3>1, <3>2, <3>3, Zenon
  <2>2. Role(<<"master">>) = <<"master">>
    BY DEF Role
  <2> QED BY <2>1, <2>2 DEF HasSlots
<1> QED BY <1>1, <1>2

\* A line names slots of its node (and 0, if the seed has a migration), all of them
\* if the seed trusts it.
LEMMA LineSlots ==
    ASSUME Settled, NEW seed \in Masters, NEW n \in Nodes
    PROVE  /\ Line(seed, n).addr = n
           /\ \A s \in SlotsOf(Line(seed, n)) :
                s \in Slots /\ (s # 0 \/ (\A t \in Slots : moving[t] = None) => owner[s] = n)
           /\ \A s \in Slots : owner[s] = n /\ n \notin suspect \cup unlinked \cup noaddr =>
                s \in SlotsOf(Line(seed, n))
<1> DEFINE S == {s \in Slots : owner[s] = n}
           Own(r) == [min |-> r[1], max |-> r[2], dash |-> r[1] # r[2], bracket |-> FALSE]
           Moves == {t \in Slots : n = seed /\ moving[t] # None /\ n \in {owner[t], moving[t]}}
           Move(s) == [min |-> s, max |-> s, dash |-> TRUE, bracket |-> TRUE]
           line == Line(seed, n)
<1>1. /\ line.addr = n /\ line.slots = {Own(r) : r \in Ranges(S)} \cup {Move(s) : s \in Moves}
      /\ line.connected <=> n = seed \/ n \notin unlinked
  BY Zenon DEF Line, Tokens
<1>2. Slots \subseteq Nat /\ 0 \in Slots
  BY ClusterAssumption, SMTT(30) DEF Slots
<1>3. ASSUME NEW r \in Ranges(S)
      PROVE  r[1] \in Nat /\ r[2] \in Nat /\ r[1] <= r[2] /\ AddSlotRange(Own(r)) = r[1] .. r[2] /\ r[1] .. r[2] \subseteq S
  <2>1. /\ r \in S \X S /\ r[1] .. r[2] \subseteq S /\ r[1] <= r[2]
    BY DEF Ranges
  <2>2. r[1] \in Nat /\ r[2] \in Nat
    BY <1>2, <2>1, Zenon
  <2>3. CASE r[1] = r[2]
    <3>1. AddSlotRange(Own(r)) = {r[1]}
      BY <2>3 DEF AddSlotRange
    <3>2. r[1] .. r[2] = {r[1]}
      BY <2>2, <2>3
    <3> QED BY <2>1, <2>2, <3>1, <3>2, ZenonT(40)
  <2>4. CASE r[1] # r[2]
    BY <2>1, <2>2, <2>4, Zenon DEF AddSlotRange
  <2> QED BY <2>3, <2>4, SMTT(30)
<1>4. \A s \in Moves : AddSlotRange(Move(s)) = {0}
  BY DEF AddSlotRange
<1>5. S \in SUBSET Slots
  OBVIOUS
<1> HIDE DEF line, Own, Move
<1>6. ASSUME NEW s \in SlotsOf(line)
      PROVE  s \in S \/ (s = 0 /\ \E t \in Slots : moving[t] # None)
  <2>1. PICK t \in line.slots : s \in AddSlotRange(t)
    BY DEF SlotsOf
  <2>2. CASE \E r \in Ranges(S) : t = Own(r)
    BY <1>3, <2>1, <2>2, SMTT(30)
  <2>3. CASE \E q \in Moves : t = Move(q)
    BY <1>4, <2>1, <2>3, SMTT(30)
  <2> QED BY <1>1, <2>1, <2>2, <2>3, SMTT(30)
<1>7. ASSUME NEW s \in Slots, owner[s] = n, n \notin suspect \cup unlinked \cup noaddr
      PROVE  s \in SlotsOf(line)
  <2>1. n \in Masters /\ s \in S
    BY <1>7 DEF Settled
  <2>2. HasSlots(line) /\ line.connected
    BY <1>1, <1>7, <2>1, TrustedRole, SMTT(30) DEF line
  <2>3. PICK r \in Ranges(S) : s \in r[1] .. r[2]
    <3> HIDE DEF S
    <3> QED BY <1>5, <2>1, RangeOf
  <2>4. Own(r) \in line.slots /\ s \in AddSlotRange(Own(r))
    BY <1>1, <1>3, <2>3, ZenonT(40)
  <2> QED BY <2>2, <2>4 DEF SlotsOf
<1>8. ASSUME NEW s \in SlotsOf(line)
      PROVE  s \in Slots /\ (s # 0 \/ (\A t \in Slots : moving[t] = None) => owner[s] = n)
  BY <1>2, <1>6
<1> QED BY <1>1, <1>7, <1>8, SMTT(30) DEF line

-----------------------------------------------------------------------------
(* The load. *)

\* Every node is in every order.
LEMMA OrderIsAll ==
    ASSUME NEW order \in SetToSeqs(Nodes)
    PROVE  /\ Cardinality(Nodes) \in Nat /\ order \in [1 .. Cardinality(Nodes) -> Nodes]
           /\ \A n \in Nodes : \E i \in 1 .. Cardinality(Nodes) : order[i] = n
<1> DEFINE D == 1 .. Cardinality(Nodes)
<1>1. order \in [D -> Nodes] /\ \A i, j \in D : i # j => order[i] # order[j]
  BY DEF SetToSeqs
<1>2. IsFiniteSet(Nodes) /\ Cardinality(Nodes) \in Nat
  BY ClusterAssumption, FS_CardinalityType
<1>3. IsFiniteSet(D) /\ Cardinality(D) = Cardinality(Nodes)
  BY <1>2, FS_Interval
<1>4. order \in Injection(D, Nodes)
  BY <1>1 DEF Injection, IsInjective
<1> HIDE DEF D
<1>5. order \in Surjection(D, Nodes)
  BY <1>2, <1>3, <1>4, FS_Injection, SMTT(30)
<1>6. \A n \in Nodes : \E i \in D : order[i] = n
  BY <1>5 DEF Surjection
<1> QED BY <1>1, <1>2, <1>6, SMTT(30) DEF D

\* The map that a seed's reply gives.
LEMMA ReplyMap ==
    ASSUME Settled, NEW seed \in Masters, NEW order \in SetToSeqs(Nodes),
           NEW m, m = UpdateClusterNodes(Reply(seed, order)).slot
    PROVE  /\ m = [s \in DOMAIN m |-> m[s]] /\ DOMAIN m \subseteq Slots
           /\ \A s \in DOMAIN m : s # 0 \/ (\A t \in Slots : moving[t] = None) => m[s] = owner[s]
           /\ \A s \in Slots : \/ s \in DOMAIN m \/ owner[s] \in suspect \cup unlinked \cup noaddr
                               \/ status[seed] = "loading"
<1> DEFINE lines == Reply(seed, order)
           N == Cardinality(Nodes)
<1>1. CASE status[seed] = "loading"
  <2>1. lines = <<LoadingLine>> /\ Len(lines) = 1 /\ lines[1] = LoadingLine
    BY <1>1 DEF Reply
  <2> HIDE DEF lines
  <2>2. Says(lines, 1, m)
    BY <2>1, LoopSays, Zenon DEF lines
  <2>3. SlotsOf(LoadingLine) = {}
    BY DEF SlotsOf, LoadingLine
  <2>4. \A j \in 1 .. 1 : j = 1
    OBVIOUS
  <2>5. DOMAIN m = {} /\ m = [s \in DOMAIN m |-> m[s]]
    BY <2>1, <2>2, <2>3, <2>4, SMTT(30) DEF Says
  <2> QED BY <1>1, <2>5
<1>2. CASE status[seed] # "loading"
  <2>1. N \in Nat /\ order \in [1 .. N -> Nodes] /\ \A n \in Nodes : \E i \in 1 .. N : order[i] = n
    BY OrderIsAll
  <2> HIDE DEF N
  <2>2. lines = [i \in 1 .. N |-> Line(seed, order[i])]
    BY <1>2, <2>1 DEF Reply
  <2>3. Len(lines) = N /\ \A i \in 1 .. N : lines[i] = Line(seed, order[i]) /\ order[i] \in Nodes
    <3> HIDE DEF lines
    <3> QED BY <2>1, <2>2
  <2> HIDE DEF lines
  <2>4. Says(lines, N, m)
    BY <2>1, <2>3, LoopSays, SMTT(30) DEF lines
  <2>5. ASSUME NEW s \in DOMAIN m
        PROVE  s \in Slots /\ (s # 0 \/ (\A t \in Slots : moving[t] = None) => m[s] = owner[s])
    <3>1. PICK j \in 1 .. N : s \in SlotsOf(lines[j]) /\ m[s] = lines[j].addr
      BY <2>4 DEF Says
    <3>2. s \in SlotsOf(Line(seed, order[j])) /\ m[s] = Line(seed, order[j]).addr /\ order[j] \in Nodes
      BY <2>3, <3>1, SMTT(30)
    <3> QED BY <3>2, LineSlots, SMTT(30)
  <2>6. ASSUME NEW s \in Slots, owner[s] \notin suspect \cup unlinked \cup noaddr PROVE s \in DOMAIN m
    <3>1. owner[s] \in Nodes
      BY DEF Settled, Nodes
    <3>2. PICK i \in 1 .. N : order[i] = owner[s]
      BY <2>1, <3>1, SMTT(30)
    <3>3. s \in SlotsOf(Line(seed, owner[s]))
      BY <2>6, <3>1, LineSlots, SMTT(30)
    <3>4. s \in SlotsOf(lines[i])
      BY <2>3, <3>2, <3>3, SMTT(30)
    <3> QED BY <2>4, <3>4, SMTT(30) DEF Says
  <2>7. m = [s \in DOMAIN m |-> m[s]]
    BY <2>4 DEF Says
  <2> QED BY <2>5, <2>6, <2>7, SMTT(30)
<1> QED BY <1>1, <1>2

\* The seed is a master of the list, unless none accepts a connection.
LEMMA SeedIsMaster ==
    ASSUME NEW list \in Seq(Masters), Seed(list) # None
    PROVE  Seed(list) \in Masters
<1> DEFINE I == {i \in 1 .. Len(list) : status[list[i]] # "down"}
<1>1. Seed(list) = LET up == IF I # {} THEN Min(I) ELSE 0 IN IF up = 0 THEN None ELSE list[up]
  BY DEF Seed, SelectInSeq
<1>2. PICK up : up # 0 /\ Seed(list) = list[up] /\ I # {} /\ up = Min(I)
  BY <1>1, Zenon
<1>3. I \subseteq Nat
  OBVIOUS
<1>4. up \in I
  <2> HIDE DEF I
  <2>1. \E x \in I : \A y \in I : x <= y
    BY <1>2, <1>3, LeastNumber, ZenonT(40)
  <2> QED BY <1>2, <2>1 DEF Min
<1> QED BY <1>2, <1>4, SMTT(30)

\* GetNode: a map that is kept comes from the reply of the first list's seed.
LEMMA LoadedFromSeed ==
    ASSUME GetNode, cluster'.loaded
    PROVE  /\ Seed(Lists[1]) \in Masters
           /\ \E order \in SetToSeqs(Nodes) :
                cluster' = UpdateClusterNodes(Reply(Seed(Lists[1]), order))
<1> DEFINE seed == [i \in DOMAIN Lists |-> Seed(Lists[i])]
           Fails(n) == IF n = None THEN TRUE ELSE status[n] = "breaking"
           I == {i \in 1 .. Len(seed) : Fails(seed[i])}
           stop == IF I # {} THEN Min(I) ELSE 0
<1>1. IF Lists = <<>> \/ stop = 1 \/ ~alive' THEN cluster' = NoCluster
      ELSE \E order \in SetToSeqs(Nodes) : cluster' = UpdateClusterNodes(Reply(seed[1], order))
  BY SMTT(60) DEF GetNode, SelectInSeq
<1>2. ~NoCluster.loaded
  BY DEF NoCluster
<1>3. /\ Lists # <<>> /\ stop # 1
      /\ \E order \in SetToSeqs(Nodes) : cluster' = UpdateClusterNodes(Reply(seed[1], order))
  <2> HIDE DEF seed, stop
  <2> QED BY <1>1, <1>2, Zenon
<1>4. 1 \in DOMAIN Lists /\ Len(seed) = Len(Lists) /\ Len(Lists) \in Nat /\ Len(Lists) >= 1
  <2>1. Lists \in Seq(Seq(Masters)) /\ DOMAIN Lists = 1 .. Len(Lists) /\ Len(Lists) \in Nat
    BY ClusterAssumption
  <2>2. Len(Lists) # 0
    BY <1>3, <2>1, SMTT(30)
  <2> QED BY <2>1, <2>2
<1>5. seed[1] = Seed(Lists[1])
  BY <1>4
<1>6. ~Fails(seed[1])
  <2> SUFFICES ASSUME Fails(seed[1]) PROVE FALSE
    OBVIOUS
  <2>1. 1 \in I /\ I \subseteq Nat /\ \A y \in I : 1 <= y
    BY <1>4
  <2> HIDE DEF I
  <2>2. \A x \in I : (\A y \in I : x <= y) => x = 1
    BY <2>1
  <2>3. Min(I) = 1
    BY <2>1, <2>2, ZenonT(40) DEF Min
  <2> QED BY <1>3, <2>1, <2>3, SMTT(30)
<1>7. Seed(Lists[1]) # None
  BY <1>5, <1>6
<1>8. Lists[1] \in Seq(Masters)
  BY <1>4, ClusterAssumption
<1> HIDE DEF seed
<1> QED BY <1>3, <1>5, <1>7, <1>8, SeedIsMaster, SMTT(30)

-----------------------------------------------------------------------------
(* The theorems. *)

\* Every slot always has a master.
LEMMA SettledAlways == Spec => []Settled
<1>1. Init => Settled
  <2> SUFFICES ASSUME Init PROVE Settled
    OBVIOUS
  <2>1. PICK t \in Slots, n \in Masters \cup {None} : moving = [s \in Slots |-> IF s = t THEN n ELSE None]
    BY DEF Init
  <2> QED BY <2>1 DEF Init, Settled
<1>2. Settled /\ [Next]_vars => Settled'
  <2> SUFFICES ASSUME Settled, [Next]_vars PROVE Settled'
    OBVIOUS
  <2>1. ASSUME NEW s \in Slots, FinishMigration(s) PROVE Settled'
    BY <2>1 DEF FinishMigration, Settled
  <2>2. CASE UNCHANGED <<owner, moving>>
    BY <2>2 DEF Settled
  <2>3. GetNode \/ Respawn \/ (\E s \in Slots : ProcessMoved(s)) \/ (\E n \in Masters : Recover(n) \/ LearnAddress(n))
          \/ UNCHANGED vars => UNCHANGED <<owner, moving>>
    BY DEF GetNode, Respawn, ProcessMoved, Recover, LearnAddress, vars, world
  <2> QED BY <2>1, <2>2, <2>3, SMTT(30) DEF Next
<1> QED BY <1>1, <1>2, PTL DEF Spec

\* Only the first request loads the map.
LEMMA OnlyGetNodeLoads ==
    ASSUME [Next]_vars, Loads
    PROVE  GetNode
BY DEF Next, Loads, Respawn, ProcessMoved, FinishMigration, Recover, LearnAddress, vars

\* For any cluster, any seed lists and any order of the lines of CLUSTER NODES, the first
\* load gives no slot but 0 to a node that does not own it, and leaves a slot out only if
\* the seed did not trust its master, had no address of it or was loading itself.
THEOREM LoadGivesOwners == Spec => LoadsOwners
<1> DEFINE Right == Loads =>
                      \A s \in Slots \ {0} :
                        IF s \in DOMAIN cluster'.slot THEN cluster'.slot[s] = owner[s]
                        ELSE \/ owner[s] \in suspect \cup unlinked \cup noaddr
                             \/ status[Seed(Lists[1])] = "loading"
<1>1. ASSUME Settled, [Next]_vars, Loads, NEW s \in Slots \ {0}
      PROVE  IF s \in DOMAIN cluster'.slot THEN cluster'.slot[s] = owner[s]
             ELSE \/ owner[s] \in suspect \cup unlinked \cup noaddr
                  \/ status[Seed(Lists[1])] = "loading"
  <2>1. PICK order \in SetToSeqs(Nodes) : cluster' = UpdateClusterNodes(Reply(Seed(Lists[1]), order))
    BY <1>1, OnlyGetNodeLoads, LoadedFromSeed, SMTT(30) DEF Loads
  <2>2. Seed(Lists[1]) \in Masters
    BY <1>1, OnlyGetNodeLoads, LoadedFromSeed, SMTT(30) DEF Loads
  <2> QED BY <1>1, <2>1, <2>2, ReplyMap, SMTT(30)
<1>2. Settled /\ [Next]_vars => [Right]_vars
  BY <1>1
<1> QED BY <1>2, SettledAlways, PTL DEF Spec, LoadsOwners

\* A cluster at rest is mapped exactly as it is: the map is the function from the slots to
\* their masters, whatever the seed and the order of the lines.
THEOREM LoadAtRestIsExact == Spec => LoadsSettled
<1> DEFINE Exact == Loads /\ suspect \cup unlinked \cup noaddr = {} /\ (\A s \in Slots : moving[s] = None)
                      /\ (\A n \in Masters : status[n] # "loading")
                      => cluster'.slot = owner
<1>1. ASSUME Settled, [Next]_vars, Loads, suspect \cup unlinked \cup noaddr = {}, \A s \in Slots : moving[s] = None,
             \A n \in Masters : status[n] # "loading"
      PROVE  cluster'.slot = owner
  <2>1. PICK order \in SetToSeqs(Nodes) : cluster' = UpdateClusterNodes(Reply(Seed(Lists[1]), order))
    BY <1>1, OnlyGetNodeLoads, LoadedFromSeed, SMTT(30) DEF Loads
  <2>2. Seed(Lists[1]) \in Masters
    BY <1>1, OnlyGetNodeLoads, LoadedFromSeed, SMTT(30) DEF Loads
  <2> DEFINE m == cluster'.slot
  <2>3. /\ m = [s \in DOMAIN m |-> m[s]] /\ DOMAIN m \subseteq Slots
        /\ \A s \in DOMAIN m : m[s] = owner[s]
        /\ \A s \in Slots : s \in DOMAIN m
    BY <1>1, <2>1, <2>2, ReplyMap, SMTT(30)
  <2>4. owner = [s \in Slots |-> owner[s]]
    BY <1>1 DEF Settled
  <2> HIDE DEF m
  <2>5. DOMAIN m = Slots
    BY <2>3
  <2>6. m = owner
    BY <2>3, <2>4, <2>5, SMTT(30)
  <2> QED BY <2>6 DEF m
<1>2. Settled /\ [Next]_vars => [Exact]_vars
  BY <1>1
<1> QED BY <1>2, SettledAlways, PTL DEF Spec, LoadsSettled
=============================================================================
