-------------------------- MODULE PeerArrayProofs --------------------------
(***************************************************************************)
(* For any connections, sub-requests, sizes and delays: no live request    *)
(* holds a freed array (HeldIsLive), and the bitmap a request captured     *)
(* covers its array (BitmapCovers).                                        *)
(*                                                                         *)
(* The timer looks at one request of a connection, and compares when that  *)
(* one started with when the array was replaced.  So the invariant relates *)
(* the sub-requests of a connection to its current request, and the        *)
(* requests that hold an array to the timer that will free it (Held), and  *)
(* keeps timers and freed arrays apart from the current array (Old).       *)
(***************************************************************************)
EXTENDS PeerArray, FiniteSetTheorems, TLAPS

\* The arrays are numbered in the order they were made; the last is the current one.
Numbered == peers \in Nat \ {0} /\ DOMAIN arrays = 1 .. peers

Sizes == \A a \in 1 .. peers : arrays[a] \in [n : Nat, large : BOOLEAN, freed : BOOLEAN]

\* The timer of an array, and a freed array, are of one that was replaced.
Old ==
    /\ \A t \in timers : t \in [array : 1 .. peers - 1, start : Nat, due : Nat] /\ t.start <= now
    /\ \A a \in 1 .. peers : arrays[a].freed => a < peers

\* A live sub-request started with its connection's current request, and fits its array.
Held(c, s) == LET x == subs[<<c, s>>] IN
    /\ x.start \in Nat /\ x.start <= now /\ x.array \in 1 .. peers
    /\ conns[c].open /\ conns[c].current = x.start
    /\ arrays[x.array].n <= x.bits /\ x.bits \in Nat /\ WordBits <= x.bits
    /\ ~arrays[x.array].freed
    /\ \A t \in timers : t.array = x.array => x.start <= t.start
Holds == \A c \in Conn, s \in Sub : subs[<<c, s>>].live => Held(c, s)

Shape ==
    /\ now \in Nat /\ conns \in [Conn -> [open : BOOLEAN, born : Nat, current : Nat]]
    /\ DOMAIN subs = Conn \X Sub

\* The inductive invariant.
ArrayInv == Shape /\ Numbered /\ Sizes /\ Old /\ Holds

-----------------------------------------------------------------------------
\* tried[] has a bit for every peer of the array and never less than a word.
LEMMA BitsCover ==
    ASSUME NEW n \in Nat
    PROVE  TriedBits(n) \in Nat /\ n <= TriedBits(n) /\ WordBits <= TriedBits(n)
<1> USE PeerArrayAssumption DEF PeerArrayAssumption
<1>1. CASE n <= WordBits
  BY <1>1 DEF TriedBits
<1>2. CASE n > WordBits
  <2> DEFINE a == n + WordBits - 1
             k == a \div WordBits
  <2>1. WordBits \in Nat /\ WordBits > 0 /\ a \in Nat
    OBVIOUS
  <2>2. k \in Nat /\ k * WordBits <= a /\ a < (k + 1) * WordBits
    <3> HIDE DEF a
    <3>1. k \in Int /\ a = WordBits * k + (a % WordBits) /\ a % WordBits \in 0 .. WordBits - 1
      BY <2>1
    <3> QED BY <2>1, <3>1
  <2>3. (k + 1) * WordBits = k * WordBits + WordBits /\ k * WordBits \in Int
    BY <2>1, <2>2
  <2>4. n <= k * WordBits
    BY <2>1, <2>2, <2>3
  <2> QED BY <1>2, <2>1, <2>2, <2>3, <2>4 DEF TriedBits
<1> QED BY <1>1, <1>2

\* The state of a new worker, which is also the initial state, has the invariant.
Fresh ==
    /\ peers = 1 /\ arrays = FirstArray /\ timers = {} /\ now \in Nat
    /\ conns = [c \in Conn |-> NoConn] /\ subs = [s \in Conn \X Sub |-> NoSub]

\* A worker with its first array and no connection satisfies ArrayInv.
LEMMA FreshArrays == Fresh => ArrayInv
<1> SUFFICES ASSUME Fresh PROVE ArrayInv
  OBVIOUS
<1> USE DEF Fresh
<1> USE PeerArrayAssumption DEF PeerArrayAssumption
<1>1. DOMAIN arrays = 1 .. 1 /\ arrays[1] = [n |-> Configured, large |-> Configured > PoolMax, freed |-> FALSE]
  BY DEF FirstArray
<1>2. Numbered
  BY <1>1 DEF Numbered
<1>5. ASSUME NEW a \in 1 .. peers PROVE a = 1 /\ arrays[a] \in [n : Nat, large : BOOLEAN, freed : BOOLEAN]
                                             /\ ~arrays[a].freed
  <2>1. a = 1
    OBVIOUS
  <2>2. (Configured > PoolMax) \in BOOLEAN
    OBVIOUS
  <2>3. PICK b \in BOOLEAN : arrays[a] = [n |-> Configured, large |-> b, freed |-> FALSE]
    BY <1>1, <2>1, <2>2, Zenon
  <2> QED BY <2>1, <2>3
<1>6. Sizes /\ Old
  BY <1>5 DEF Sizes, Old
<1>3. Holds
  BY DEF Holds, NoSub
<1>4. Shape
  BY DEF Shape, NoConn
<1> QED BY <1>2, <1>3, <1>4, <1>6 DEF ArrayInv

\* The same of the state a step leads to.
LEMMA FreshArraysNext == Fresh' => ArrayInv'
BY FreshArrays, PTL

\* Accept and Close: a connection without live sub-requests changes.
LEMMA ConnInv ==
    ASSUME ArrayInv, NEW c \in Conn, Accept(c) \/ Close(c)
    PROVE  ArrayInv'
<1>1. /\ UNCHANGED <<now, peers, arrays, timers, subs>>
      /\ \A s \in Sub : ~subs[<<c, s>>].live
      /\ \E x \in [open : BOOLEAN, born : Nat, current : Nat] : conns' = [conns EXCEPT ![c] = x]
  <2>1. CASE Accept(c)
    <3>1. \A s \in Sub : ~subs[<<c, s>>].live
      BY <2>1 DEF Accept, ArrayInv, Holds, Held
    <3>2. [open |-> TRUE, born |-> now, current |-> now] \in [open : BOOLEAN, born : Nat, current : Nat]
      BY DEF ArrayInv, Shape
    <3> QED BY <2>1, <3>1, <3>2, Zenon DEF Accept
  <2>2. CASE Close(c)
    <3>1. NoConn \in [open : BOOLEAN, born : Nat, current : Nat]
      BY DEF NoConn
    <3> QED BY <2>2, <3>1, Zenon DEF Close, Live
  <2> QED BY <2>1, <2>2
<1>2. Shape' /\ \A d \in Conn \ {c} : conns'[d] = conns[d]
  BY <1>1 DEF ArrayInv, Shape
<1>3. Numbered' /\ Sizes' /\ Old'
  BY <1>1 DEF ArrayInv, Numbered, Sizes, Old
<1>4. ASSUME NEW d \in Conn, NEW t \in Sub, subs'[<<d, t>>].live PROVE Held(d, t)'
  <2>1. d # c /\ Held(d, t)
    BY <1>1, <1>4 DEF ArrayInv, Holds
  <2> QED BY <1>1, <1>2, <2>1 DEF Held
<1> QED BY <1>2, <1>3, <1>4 DEF ArrayInv, Holds

\* StartSub: the new sub-request holds the current array; the live ones started with it.
LEMMA StartSubInv ==
    ASSUME ArrayInv, NEW c \in Conn, NEW s \in Sub, StartSub(c, s)
    PROVE  ArrayInv'
<1> DEFINE new == [live |-> TRUE, start |-> now, array |-> peers, bits |-> TriedBits(arrays[peers].n)]
<1>1. /\ UNCHANGED <<now, peers, arrays, timers>>
      /\ conns' = [conns EXCEPT ![c].current = now] /\ subs' = [subs EXCEPT ![<<c, s>>] = new]
      /\ conns[c].open /\ \A t \in Sub : subs[<<c, t>>].live => subs[<<c, t>>].start = now
  BY DEF StartSub, Live
<1>2. now \in Nat /\ peers \in Nat /\ peers \in 1 .. peers /\ arrays[peers].n \in Nat
  BY DEF ArrayInv, Shape, Numbered, Sizes
<1>3. Shape'
  BY <1>1, <1>2 DEF ArrayInv, Shape
<1>4. Numbered' /\ Sizes' /\ Old'
  BY <1>1 DEF ArrayInv, Numbered, Sizes, Old
<1>5. /\ \A d \in Conn : conns'[d].open = conns[d].open
      /\ \A d \in Conn \ {c} : conns'[d].current = conns[d].current
      /\ conns'[c].current = now
  BY <1>1 DEF ArrayInv, Shape
<1>6. ASSUME NEW d \in Conn, NEW t \in Sub, subs'[<<d, t>>].live PROVE Held(d, t)'
  <2>1. CASE d = c /\ t = s
    <3>1. subs'[<<d, t>>] = new
      BY <2>1, <1>1 DEF ArrayInv, Shape
    <3>2. new.start = now /\ new.array = peers /\ new.bits = TriedBits(arrays[peers].n)
      OBVIOUS
    <3>3. ~arrays[peers].freed /\ \A u \in timers : u.array # peers
      BY <1>2 DEF ArrayInv, Old
    <3> HIDE DEF new
    <3> QED BY <1>1, <1>2, <1>5, <2>1, <3>1, <3>2, <3>3, BitsCover DEF Held
  <2>2. CASE ~(d = c /\ t = s)
    <3>1. subs'[<<d, t>>] = subs[<<d, t>>]
      BY <2>2, <1>1 DEF ArrayInv, Shape
    <3>2. Held(d, t)
      BY <1>6, <3>1 DEF ArrayInv, Holds
    <3> QED BY <1>1, <1>5, <1>6, <3>1, <3>2 DEF Held
  <2> QED BY <2>1, <2>2
<1> QED BY <1>3, <1>4, <1>6 DEF ArrayInv, Holds

\* EndSub: the current request changes only when no sub-request is left.
LEMMA EndSubInv ==
    ASSUME ArrayInv, NEW c \in Conn, NEW s \in Sub, EndSub(c, s)
    PROVE  ArrayInv'
<1>1. /\ UNCHANGED <<now, peers, arrays, timers>> /\ subs' = [subs EXCEPT ![<<c, s>>] = NoSub]
      /\ conns' = [conns EXCEPT ![c].current = IF Live(c) = {s} THEN conns[c].born ELSE @]
  BY DEF EndSub
<1>2. Shape'
  BY <1>1 DEF ArrayInv, Shape
<1>3. Numbered' /\ Sizes' /\ Old'
  BY <1>1 DEF ArrayInv, Numbered, Sizes, Old
<1>4. \A d \in Conn : conns'[d].open = conns[d].open /\ ((d # c \/ Live(c) # {s}) => conns'[d].current = conns[d].current)
  BY <1>1 DEF ArrayInv, Shape
<1>5. ASSUME NEW d \in Conn, NEW t \in Sub, subs'[<<d, t>>].live PROVE Held(d, t)'
  <2>1. ~(d = c /\ t = s)
    BY <1>1, <1>5 DEF ArrayInv, Shape, NoSub
  <2>2. subs'[<<d, t>>] = subs[<<d, t>>]
    BY <2>1, <1>1 DEF ArrayInv, Shape
  <2>3. d # c \/ Live(c) # {s}
    BY <2>1, <2>2, <1>5 DEF Live
  <2>4. Held(d, t)
    BY <1>5, <2>2 DEF ArrayInv, Holds
  <2> QED BY <1>1, <1>4, <2>2, <2>3, <2>4 DEF Held
<1> QED BY <1>2, <1>3, <1>5 DEF ArrayInv, Holds

\* AddPeer in place: only while the array still fits a word of the bitmap.
LEMMA GrowInv ==
    ASSUME ArrayInv, MayGrow(arrays[peers].n), arrays' = [arrays EXCEPT ![peers].n = @ + 1],
           UNCHANGED <<now, peers, timers, conns, subs>>
    PROVE  ArrayInv'
<1> USE PeerArrayAssumption DEF PeerArrayAssumption
<1>1. /\ peers \in Nat /\ peers \in 1 .. peers /\ DOMAIN arrays = 1 .. peers
      /\ \A a \in 1 .. peers : arrays[a] \in [n : Nat, large : BOOLEAN, freed : BOOLEAN]
  BY DEF ArrayInv, Numbered, Sizes
<1>2. DOMAIN arrays' = 1 .. peers /\ \A a \in 1 .. peers : a # peers => arrays'[a] = arrays[a]
  BY <1>1
<1>3. /\ arrays'[peers] \in [n : Nat, large : BOOLEAN, freed : BOOLEAN]
      /\ arrays'[peers].freed = arrays[peers].freed
      /\ arrays'[peers].n = arrays[peers].n + 1 /\ arrays[peers].n + 1 <= WordBits
  <2> DEFINE x == arrays[peers]
  <2>1. x \in [n : Nat, large : BOOLEAN, freed : BOOLEAN] /\ arrays'[peers] = [x EXCEPT !.n = x.n + 1]
    BY <1>1
  <2>2. x.n <= PoolMax
    BY DEF MayGrow
  <2> HIDE DEF x
  <2>3. [x EXCEPT !.n = x.n + 1] \in [n : Nat, large : BOOLEAN, freed : BOOLEAN]
    BY <2>1
  <2>4. [x EXCEPT !.n = x.n + 1].freed = x.freed /\ [x EXCEPT !.n = x.n + 1].n = x.n + 1
    BY <2>1
  <2>5. x.n \in Nat
    BY <2>1
  <2> QED BY <2>1, <2>2, <2>3, <2>4, <2>5 DEF x
<1>4. \A a \in 1 .. peers : /\ arrays'[a] \in [n : Nat, large : BOOLEAN, freed : BOOLEAN]
                             /\ arrays'[a].freed = arrays[a].freed
                             /\ (arrays'[a].n <= arrays[a].n \/ arrays'[a].n <= WordBits)
  BY <1>1, <1>2, <1>3, SMTT(30)
<1>5. Shape' /\ Numbered'
  BY <1>1, <1>2 DEF ArrayInv, Shape, Numbered
<1>6. Sizes' /\ Old'
  BY <1>4 DEF ArrayInv, Old, Sizes
<1>7. ASSUME NEW d \in Conn, NEW t \in Sub, subs'[<<d, t>>].live PROVE Held(d, t)'
  <2>1. Held(d, t)
    BY <1>7 DEF ArrayInv, Holds
  <2>2. subs[<<d, t>>].array \in 1 .. peers
    BY <2>1 DEF Held
  <2> DEFINE a == subs[<<d, t>>].array
             bits == subs[<<d, t>>].bits
  <2>3. /\ arrays[a].n <= bits /\ bits \in Nat /\ WordBits <= bits /\ ~arrays[a].freed
        /\ arrays[a].n \in Nat /\ arrays'[a].n \in Nat
    BY <1>1, <1>4, <2>1, <2>2 DEF Held
  <2>4. /\ arrays'[a].freed = arrays[a].freed
        /\ (arrays'[a].n <= arrays[a].n \/ arrays'[a].n <= WordBits)
    BY <1>4, <2>2
  <2>5. arrays'[a].n <= bits /\ ~arrays'[a].freed
    <3> HIDE DEF a, bits
    <3> QED BY <2>3, <2>4
  <2> QED BY <2>1, <2>5 DEF Held
<1> QED BY <1>5, <1>6, <1>7 DEF ArrayInv, Holds

\* AddPeer by a copy: the old array gets its timer now, after every request that holds it began.
LEMMA CopyInv ==
    ASSUME ArrayInv, CopyAndDelay(peers), peers' = Cardinality(DOMAIN arrays) + 1,
           UNCHANGED <<now, conns, subs>>
    PROVE  ArrayInv'
<1> USE PeerArrayAssumption DEF PeerArrayAssumption
<1>1. /\ peers \in Nat \ {0} /\ peers \in 1 .. peers /\ DOMAIN arrays = 1 .. peers /\ now \in Nat
      /\ \A a \in 1 .. peers : arrays[a] \in [n : Nat, large : BOOLEAN, freed : BOOLEAN]
  BY DEF ArrayInv, Numbered, Sizes, Shape
<1>2. Cardinality(DOMAIN arrays) = peers
  BY <1>1, FS_Interval
<1>3. peers' = peers + 1 /\ peers' \in Nat
  BY <1>1, <1>2
<1> DEFINE new == [n |-> arrays[peers].n + 1, large |-> arrays[peers].n + 1 > PoolMax, freed |-> FALSE]
<1>4. arrays' = [b \in 1 .. peers \cup {peers + 1} |-> IF b \in 1 .. peers THEN arrays[b] ELSE new]
  BY <1>1, <1>2 DEF CopyAndDelay
<1>5. /\ DOMAIN arrays' = 1 .. peers' /\ \A a \in 1 .. peers : arrays'[a] = arrays[a]
      /\ arrays'[peers'] = new
  <2> HIDE DEF new
  <2>1. 1 .. peers \cup {peers + 1} = 1 .. peers' /\ peers + 1 \notin 1 .. peers
    BY <1>1, <1>3
  <2> QED BY <1>3, <1>4, <2>1
<1>6. new \in [n : Nat, large : BOOLEAN, freed : BOOLEAN] /\ new.freed = FALSE
  <2>1. (arrays[peers].n + 1 > PoolMax) \in BOOLEAN
    OBVIOUS
  <2>2. PICK b \in BOOLEAN : new = [n |-> arrays[peers].n + 1, large |-> b, freed |-> FALSE]
    BY <2>1, Zenon
  <2>3. arrays[peers].n + 1 \in Nat
    BY <1>1
  <2> QED BY <2>2, <2>3
<1> HIDE DEF new
<1> DEFINE t0 == [array |-> peers, start |-> now, due |-> now + Delay]
<1>7. t0 \in [array : 1 .. peers' - 1, start : Nat, due : Nat] /\ t0.start = now /\ t0.array = peers
  BY <1>1, <1>3
<1>8. \A t \in timers' : t \in timers \/ t = t0
  BY DEF CopyAndDelay
<1> HIDE DEF t0
<1>9. \A a \in 1 .. peers' : a \in 1 .. peers \/ a = peers'
  BY <1>1, <1>3
<1>10. Shape' /\ Numbered'
  BY <1>3, <1>5 DEF ArrayInv, Shape, Numbered
<1>11. Sizes'
  BY <1>1, <1>5, <1>6, <1>9 DEF Sizes
<1>12. Old'
  <2>1. ASSUME NEW t \in timers PROVE t \in [array : 1 .. peers' - 1, start : Nat, due : Nat] /\ t.start <= now
    <3>1. t \in [array : 1 .. peers - 1, start : Nat, due : Nat] /\ t.start <= now
      BY DEF ArrayInv, Old
    <3>2. 1 .. peers - 1 \subseteq 1 .. peers' - 1
      BY <1>1, <1>3
    <3> QED BY <3>1, <3>2
  <2>2. \A t \in timers' : t \in [array : 1 .. peers' - 1, start : Nat, due : Nat] /\ t.start <= now
    BY <1>1, <1>7, <1>8, <2>1
  <2>3. \A a \in 1 .. peers' : arrays'[a].freed => a < peers'
    BY <1>1, <1>3, <1>5, <1>6, <1>9
  <2> QED BY <2>2, <2>3 DEF Old
<1>13. ASSUME NEW d \in Conn, NEW t \in Sub, subs'[<<d, t>>].live PROVE Held(d, t)'
  <2>1. Held(d, t)
    BY <1>13 DEF ArrayInv, Holds
  <2>2. subs[<<d, t>>].array \in 1 .. peers /\ subs[<<d, t>>].array \in 1 .. peers'
    BY <1>1, <1>3, <2>1 DEF Held
  <2>3. \A u \in timers' : u.array = subs[<<d, t>>].array => subs[<<d, t>>].start <= u.start
    BY <1>7, <1>8, <2>1 DEF Held
  <2> QED BY <1>5, <2>1, <2>2, <2>3 DEF Held
<1> QED BY <1>10, <1>11, <1>12, <1>13 DEF ArrayInv, Holds

\* DelayDelete: an array is freed only if no connection's current request is as old as it.
LEMMA DelayDeleteInv ==
    ASSUME ArrayInv, NEW t \in timers, DelayDelete(t)
    PROVE  ArrayInv'
<1> USE PeerArrayAssumption DEF PeerArrayAssumption
<1>1. /\ UNCHANGED <<now, peers, conns, subs>> /\ now \in Nat /\ peers \in Nat
      /\ DOMAIN arrays = 1 .. peers /\ t.array \in 1 .. peers - 1 /\ t.array \in 1 .. peers
      /\ t \in [array : 1 .. peers - 1, start : Nat, due : Nat] /\ t.start <= now
  BY SMTT(30) DEF DelayDelete, ArrayInv, Shape, Numbered, Old
<1>2. CASE UNCHANGED <<arrays, timers>>
  <2>1. Shape' /\ Numbered' /\ Sizes' /\ Old'
    BY <1>1, <1>2 DEF ArrayInv, Shape, Numbered, Sizes, Old
  <2>2. ASSUME NEW c \in Conn, NEW s \in Sub, subs'[<<c, s>>].live PROVE Held(c, s)'
    <3>1. Held(c, s)
      BY <1>1, <2>2 DEF ArrayInv, Holds
    <3> QED BY <1>1, <1>2, <3>1, Zenon DEF Held
  <2> QED BY <2>1, <2>2 DEF ArrayInv, Holds
<1>3. CASE timers' = (timers \ {t}) \cup {[t EXCEPT !.due = now + Delay]} /\ arrays' = arrays
  <2> DEFINE u == [t EXCEPT !.due = now + Delay]
  <2>1. u \in [array : 1 .. peers - 1, start : Nat, due : Nat] /\ u.start = t.start /\ u.array = t.array
    <3>1. now + Delay \in Nat
      BY <1>1
    <3>2. u.start = t.start /\ u.array = t.array
      BY <1>1
    <3> DEFINE A == 1 .. peers - 1
               d == now + Delay
    <3>3. t \in [array : A, start : Nat, due : Nat] /\ d \in Nat
      BY <1>1, <3>1
    <3> HIDE DEF A, d
    <3>4. [t EXCEPT !.due = d] \in [array : A, start : Nat, due : Nat]
      BY <3>3
    <3> QED BY <3>2, <3>4 DEF A, d
  <2>2. \A x \in timers' : x \in timers \/ x = u
    BY <1>3
  <2> HIDE DEF u
  <2>3. Shape' /\ Numbered' /\ Sizes'
    BY <1>1, <1>3 DEF ArrayInv, Shape, Numbered, Sizes
  <2>4. Old'
    BY <1>1, <1>3, <2>1, <2>2, Zenon DEF ArrayInv, Old
  <2>5. ASSUME NEW c \in Conn, NEW s \in Sub, subs'[<<c, s>>].live PROVE Held(c, s)'
    <3>1. Held(c, s)
      BY <1>1, <2>5 DEF ArrayInv, Holds
    <3>2. \A x \in timers' : x.array = subs[<<c, s>>].array => subs[<<c, s>>].start <= x.start
      BY <2>1, <2>2, <3>1 DEF Held
    <3> QED BY <1>1, <1>3, <3>1, <3>2, Zenon DEF Held
  <2> QED BY <2>3, <2>4, <2>5 DEF ArrayInv, Holds
<1>4. CASE /\ ~(\E c \in Conn : MayUse(c, t)) /\ timers' = timers \ {t}
           /\ arrays' = [arrays EXCEPT ![t.array].freed = TRUE]
  <2> DEFINE a0 == t.array
  <2>1. DOMAIN arrays' = 1 .. peers /\ \A a \in 1 .. peers : a # a0 => arrays'[a] = arrays[a]
    BY <1>1, <1>4
  <2>2. arrays'[a0] \in [n : Nat, large : BOOLEAN, freed : BOOLEAN]
    <3>1. arrays[a0] \in [n : Nat, large : BOOLEAN, freed : BOOLEAN]
      BY <1>1 DEF ArrayInv, Sizes
    <3>2. arrays'[a0] = [arrays[a0] EXCEPT !.freed = TRUE]
      BY <1>1, <1>4
    <3> QED BY <3>1, <3>2, Zenon
  <2>3. a0 \in 1 .. peers /\ a0 < peers
    BY <1>1
  <2> HIDE DEF a0
  <2>4. Shape' /\ Numbered'
    BY <1>1, <2>1 DEF ArrayInv, Shape, Numbered
  <2>5. Sizes' /\ Old'
    BY <1>1, <1>4, <2>1, <2>2, <2>3, Zenon DEF ArrayInv, Sizes, Old
  <2>6. ASSUME NEW c \in Conn, NEW s \in Sub, subs'[<<c, s>>].live PROVE Held(c, s)'
    <3>1. Held(c, s)
      BY <1>1, <2>6 DEF ArrayInv, Holds
    <3>2. subs[<<c, s>>].array # a0
      BY <1>1, <1>4, <3>1, Zenon DEF Held, MayUse, a0
    <3> QED BY <1>1, <1>4, <2>1, <3>1, <3>2, Zenon DEF Held
  <2> QED BY <2>4, <2>5, <2>6 DEF ArrayInv, Holds
<1> QED BY <1>2, <1>3, <1>4 DEF DelayDelete

\* The invariant is inductive.
LEMMA ArrayInvStep == ArrayInv /\ [Next]_vars => ArrayInv'
<1> SUFFICES ASSUME ArrayInv, [Next]_vars PROVE ArrayInv'
  OBVIOUS
<1>1. CASE UNCHANGED <<peers, arrays, timers, conns, subs>> /\ now' \in Nat /\ now <= now'
  <2>1. now \in Nat
    BY DEF ArrayInv, Shape
  <2>2. Shape' /\ Numbered' /\ Sizes'
    BY <1>1 DEF ArrayInv, Shape, Numbered, Sizes
  <2>3. Old'
    <3>1. \A t \in timers : t.start \in Nat /\ t.start <= now'
      BY <1>1, <2>1 DEF ArrayInv, Old
    <3> QED BY <1>1, <3>1 DEF ArrayInv, Old
  <2>4. ASSUME NEW c \in Conn, NEW s \in Sub, subs'[<<c, s>>].live PROVE Held(c, s)'
    <3>1. Held(c, s)
      BY <1>1, <2>4 DEF ArrayInv, Holds
    <3>2. subs[<<c, s>>].start <= now'
      BY <1>1, <2>1, <3>1 DEF Held
    <3> QED BY <1>1, <3>1, <3>2 DEF Held
  <2> QED BY <2>2, <2>3, <2>4 DEF ArrayInv, Holds
<1>2. ASSUME NEW c \in Conn, Accept(c) \/ Close(c) PROVE ArrayInv'
  BY <1>2, ConnInv
<1>3. ASSUME NEW c \in Conn, NEW s \in Sub, StartSub(c, s) PROVE ArrayInv'
  BY <1>3, StartSubInv
<1>4. ASSUME NEW c \in Conn, NEW s \in Sub, EndSub(c, s) PROVE ArrayInv'
  BY <1>4, EndSubInv
<1>5. ASSUME NEW c \in Conn, NEW s \in Sub, AddPeer(c, s) PROVE ArrayInv'
  <2>1. CASE MayGrow(arrays[peers].n) /\ arrays' = [arrays EXCEPT ![peers].n = @ + 1] /\ UNCHANGED <<timers, peers>>
    BY <1>5, <2>1, GrowInv DEF AddPeer
  <2>2. CASE CopyAndDelay(peers) /\ peers' = Cardinality(DOMAIN arrays) + 1
    BY <1>5, <2>2, CopyInv DEF AddPeer
  <2> QED BY <1>5, <2>1, <2>2, Zenon DEF AddPeer
<1>6. ASSUME NEW t \in timers, DelayDelete(t) PROVE ArrayInv'
  BY <1>6, DelayDeleteInv
<1>7. ASSUME Quit \/ Tick \/ UNCHANGED vars PROVE ArrayInv'
  <2>1. now \in Nat
    BY DEF ArrayInv, Shape
  <2> QED BY <1>1, <1>7, <2>1 DEF Quit, Tick, vars
<1>8. ASSUME Respawn PROVE ArrayInv'
  <2>1. now' \in Nat
    BY <1>8 DEF Respawn, ArrayInv, Shape
  <2> QED BY <1>8, <2>1, FreshArraysNext DEF Respawn, Fresh
<1> QED BY <1>2, <1>3, <1>4, <1>5, <1>6, <1>7, <1>8 DEF Next

\* In every behaviour no live request holds an array that the delayed delete has freed.
THEOREM HeldArraysLive == Spec => []HeldIsLive
<1>1. Init => ArrayInv
  BY FreshArrays DEF Init, Fresh
<1>2. ArrayInv => HeldIsLive
  BY DEF ArrayInv, Holds, Held, HeldIsLive, Live
<1> QED BY <1>1, <1>2, ArrayInvStep, PTL DEF Spec

\* In every behaviour the bitmap a live request has captured covers its array.
THEOREM BitmapsCover == Spec => []BitmapCovers
<1>1. Init => ArrayInv
  BY FreshArrays DEF Init, Fresh
<1>2. ArrayInv => BitmapCovers
  BY DEF ArrayInv, Holds, Held, BitmapCovers, Live
<1> QED BY <1>1, <1>2, ArrayInvStep, PTL DEF Spec
=============================================================================
