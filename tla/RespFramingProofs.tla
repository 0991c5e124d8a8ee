------------------------- MODULE RespFramingProofs -------------------------
(***************************************************************************)
(* What the two decoders of RespFraming do with every reply, whatever its  *)
(* values, its length and the pieces it arrives in.                        *)
(*                                                                         *)
(*  1. Decimal, NumSize and strtol agree: what Redis writes is read back,  *)
(*     and NumSize counts its digits.                                      *)
(*  2. Where the bytes of a reply are: headers, elements, offsets.         *)
(*  3. Both loops over the elements are at the right offset after every    *)
(*     turn whose length they could read, and a turn at an element that    *)
(*     has not arrived counts too many bytes.                              *)
(*  4. The verdict is that of the decoder on the bytes in the buffer       *)
(*     (Framed), so the invariants follow from 1 to 3.                     *)
(*                                                                         *)
(* Induction takes the form of NoDescent: the turns at which a claim fails *)
(* would have no first one.                                                *)
(***************************************************************************)
EXTENDS RespFraming, WellFoundedInduction, TLAPS

\* A set of natural numbers without a least one is empty: the form in which induction
\* is used here.
LEMMA NoDescent ==
    ASSUME NEW T, T \subseteq Nat, \A x \in T : \E y \in T : y < x
    PROVE  T = {}
<1> DEFINE Less == {ss \in Nat \X Nat : ss[1] < ss[2]}
<1>1. IsWellFoundedOn(Less, Nat)
  BY NatLessThanWellFounded, Zenon DEF OpToRel
<1> HIDE DEF Less
<1> SUFFICES ASSUME T # {} PROVE FALSE
  OBVIOUS
<1>2. PICK x \in T : \A y \in T : ~(<<y, x>> \in Less)
  BY <1>1, WFMin, Zenon
<1>3. PICK y \in T : y < x
  OBVIOUS
<1>4. <<y, x>> \in Less
  BY <1>3 DEF Less
<1> QED BY <1>2, <1>4, Zenon

-----------------------------------------------------------------------------
(* Sequences: what the provers know of them, for the steps that do not reason about them. *)

\* The domain, the length and the elements of a sequence.
LEMMA SeqLength ==
    ASSUME NEW S, NEW s \in Seq(S)
    PROVE  /\ Len(s) \in Nat /\ DOMAIN s = 1 .. Len(s) /\ s \in [1 .. Len(s) -> S]
           /\ \A i \in 1 .. Len(s) : s[i] \in S
  OBVIOUS

\* Sequences of one length with the same elements are equal.
LEMMA SeqSame ==
    ASSUME NEW S, NEW s \in Seq(S), NEW t \in Seq(S), Len(s) = Len(t),
           \A i \in 1 .. Len(s) : s[i] = t[i]
    PROVE  s = t
  OBVIOUS

\* A concatenation holds the elements of the first part, then those of the second.
LEMMA SeqConcat ==
    ASSUME NEW S, NEW s \in Seq(S), NEW t \in Seq(S)
    PROVE  /\ s \o t \in Seq(S) /\ Len(s \o t) = Len(s) + Len(t)
           /\ \A i \in 1 .. Len(s) + Len(t) :
                (s \o t)[i] = IF i <= Len(s) THEN s[i] ELSE t[i - Len(s)]
  OBVIOUS

\* A part of a sequence is as long as its range, and holds the elements of that range.
LEMMA SeqPart ==
    ASSUME NEW S, NEW s, NEW m \in Int, NEW n \in Int, \A i \in m .. n : s[i] \in S
    PROVE  /\ SubSeq(s, m, n) \in Seq(S)
           /\ Len(SubSeq(s, m, n)) = IF m <= n THEN n - m + 1 ELSE 0
           /\ \A i \in 1 .. n - m + 1 : SubSeq(s, m, n)[i] = s[m + i - 1]
  OBVIOUS

\* Append adds one element at the end and leaves the others.
LEMMA SeqAppend ==
    ASSUME NEW S, NEW s \in Seq(S), NEW e \in S
    PROVE  /\ Append(s, e) \in Seq(S) /\ Len(Append(s, e)) = Len(s) + 1
           /\ \A i \in 1 .. Len(s) : Append(s, e)[i] = s[i]
           /\ Append(s, e)[Len(s) + 1] = e
  OBVIOUS

\* A sequence of length 0 is the empty one.
LEMMA SeqEmpty ==
    ASSUME NEW S, NEW s \in Seq(S), Len(s) = 0
    PROVE  s = <<>>
  OBVIOUS

-----------------------------------------------------------------------------
(* Numbers and their digits. *)

IsDigit(c) == \E i \in 0 .. 9 : c = Digit[i + 1]

\* A digit: a byte, neither white space nor a sign nor NUL, that stands for its number.
LEMMA DigitOf ==
    ASSUME NEW i \in 0 .. 9
    PROVE  /\ Digit[i + 1] \in Byte /\ (Digit[i + 1] = "0" <=> i = 0)
           /\ Digit[i + 1] \notin {"CR", "LF", "-", "+", "NUL"}
           /\ \A j \in 1 .. 10 : Digit[j] = Digit[i + 1] => j = i + 1
           /\ ValueOf(Digit[i + 1]) = i
<1>1. DOMAIN Digit = 1 .. 10
  BY DEF Digit
<1>2. /\ Digit[1] = "0" /\ Digit[2] = "1" /\ Digit[3] = "2" /\ Digit[4] = "3" /\ Digit[5] = "4"
      /\ Digit[6] = "5" /\ Digit[7] = "6" /\ Digit[8] = "7" /\ Digit[9] = "8" /\ Digit[10] = "9"
  BY DEF Digit
<1>3. \A k \in 1 .. 10 : k = 1 \/ k = 2 \/ k = 3 \/ k = 4 \/ k = 5 \/ k = 6 \/ k = 7 \/ k = 8 \/ k = 9 \/ k = 10
  OBVIOUS
<1>4. i + 1 \in 1 .. 10
  OBVIOUS
<1>5. Digit[i + 1] \in {Digit[j] : j \in DOMAIN Digit}
  BY <1>1, <1>4
<1>6. (Digit[i + 1] = "0" <=> i = 0) /\ Digit[i + 1] \notin {"CR", "LF", "-", "+", "NUL"}
  BY <1>2, <1>3, <1>4
<1>7. ASSUME NEW j \in 1 .. 10, Digit[j] = Digit[i + 1] PROVE j = i + 1
  BY <1>2, <1>3, <1>4, <1>7
<1>8. ValueOf(Digit[i + 1]) = i
  BY <1>1, <1>4, <1>7 DEF ValueOf
<1> QED BY <1>5, <1>6, <1>7, <1>8 DEF Byte

\* The function Decimal is made of.
Text(n, g) ==
    g = [i \in 0 .. n |->
           IF i < 10 THEN <<Digit[i + 1]>> ELSE Append(g[i \div 10], Digit[(i % 10) + 1])]

\* It exists.
LEMMA TextExists == \A n \in Nat : \E g : Text(n, g)
<1> DEFINE T == {n \in Nat : ~ \E g : Text(n, g)}
<1>1. ASSUME NEW x \in T PROVE \E y \in T : y < x
  <2> SUFFICES ASSUME \A y \in T : ~(y < x) PROVE FALSE
    OBVIOUS
  <2>0. x \in Nat
    OBVIOUS
  <2>1. CASE x = 0
    <3> DEFINE h == [i \in 0 .. 0 |-> <<Digit[i + 1]>>]
    <3>1. Text(0, h)
      BY DEF Text
    <3> QED BY <2>1, <3>1, Zenon
  <2>2. CASE x # 0
    <3>1. x - 1 \in Nat /\ x - 1 \notin T
      <4> HIDE DEF T
      <4> QED BY <2>0, <2>2
    <3>2. PICK g : Text(x - 1, g)
      BY <3>1
    <3> DEFINE V(i, f) == IF i < 10 THEN <<Digit[i + 1]>> ELSE Append(f[i \div 10], Digit[(i % 10) + 1])
               h == [i \in 0 .. x |-> V(i, g)]
    <3>3. \A i \in 0 .. x - 1 : h[i] = g[i]
      <4>1. g = [i \in 0 .. x - 1 |-> V(i, g)] /\ h = [i \in 0 .. x |-> V(i, g)]
        BY <3>2, Zenon DEF Text
      <4> HIDE DEF V, h, T
      <4> QED BY <2>0, <4>1
    <3>4. \A i \in 0 .. x : i >= 10 => i \div 10 \in 0 .. x - 1
      BY <2>0
    <3>5. \A i \in 0 .. x : V(i, h) = V(i, g)
      <4> HIDE DEF h, T
      <4> QED BY <2>0, <3>3, <3>4
    <3>6. h = [i \in 0 .. x |-> V(i, h)]
      <4> DEFINE k == h
      <4>1. k = [i \in 0 .. x |-> V(i, g)]
        OBVIOUS
      <4>2. \A i \in 0 .. x : V(i, k) = V(i, g)
        BY <3>5, Zenon
      <4> HIDE DEF k, V
      <4>3. k = [i \in 0 .. x |-> V(i, k)]
        BY <4>1, <4>2
      <4> QED BY <4>3 DEF k
    <3>7. Text(x, h)
      <4> HIDE DEF h
      <4> QED BY <3>6, Zenon DEF Text
    <3> QED BY <3>7
  <2> QED BY <2>1, <2>2
<1>2. T \subseteq Nat
  OBVIOUS
<1>3. T = {}
  <2> HIDE DEF T
  <2> QED BY <1>1, <1>2, NoDescent, Zenon
<1> QED BY <1>3

\* There is only one, whatever its domain.
LEMMA TextUnique ==
    ASSUME NEW n \in Nat, NEW k \in Nat, NEW g, NEW h, Text(n, g), Text(k, h)
    PROVE  \A i \in 0 .. n : i <= k => g[i] = h[i]
<1> DEFINE T == {i \in 0 .. n : i <= k /\ g[i] # h[i]}
<1>1. ASSUME NEW x \in T PROVE \E y \in T : y < x
  <2>0. x \in 0 .. n /\ x <= k /\ x \in 0 .. k /\ g[x] # h[x]
    OBVIOUS
  <2>1. g[x] = IF x < 10 THEN <<Digit[x + 1]>> ELSE Append(g[x \div 10], Digit[(x % 10) + 1])
    BY <2>0, Zenon DEF Text
  <2>2. h[x] = IF x < 10 THEN <<Digit[x + 1]>> ELSE Append(h[x \div 10], Digit[(x % 10) + 1])
    BY <2>0, Zenon DEF Text
  <2>3. x >= 10 /\ g[x \div 10] # h[x \div 10]
    BY <2>0, <2>1, <2>2
  <2>4. x \div 10 \in 0 .. n /\ x \div 10 <= k /\ x \div 10 < x
    BY <2>0, <2>3
  <2> QED BY <2>3, <2>4
<1>2. T \subseteq Nat
  OBVIOUS
<1>3. T = {}
  <2> HIDE DEF T
  <2> QED BY <1>1, <1>2, NoDescent, Zenon
<1> QED BY <1>3

\* How Redis writes a number: its last digit after the others.
LEMMA DecimalIs ==
    ASSUME NEW n \in Nat
    PROVE  Decimal(n) = IF n < 10 THEN <<Digit[n + 1]>>
                        ELSE Append(Decimal(n \div 10), Digit[(n % 10) + 1])
<1> DEFINE F(k) == CHOOSE g : Text(k, g)
<1>1. \A k \in Nat : Decimal(k) = F(k)[k]
  BY Zenon DEF Decimal, Text
<1>2. \A k \in Nat : Text(k, F(k))
  BY TextExists, Zenon
<1> HIDE DEF F
<1>3. F(n)[n] = IF n < 10 THEN <<Digit[n + 1]>>
                ELSE Append(F(n)[n \div 10], Digit[(n % 10) + 1])
  <2>1. n \in 0 .. n /\ Text(n, F(n))
    BY <1>2
  <2> QED BY <2>1, Zenon DEF Text
<1>4. ASSUME n >= 10 PROVE F(n)[n \div 10] = Decimal(n \div 10)
  <2>1. n \div 10 \in Nat /\ n \div 10 \in 0 .. n
    BY <1>4
  <2>2. F(n)[n \div 10] = F(n \div 10)[n \div 10]
    BY <1>2, <2>1, TextUnique
  <2> QED BY <1>1, <2>1, <2>2
<1>5. Decimal(n) = F(n)[n] /\ (n < 10 \/ n >= 10)
  BY <1>1
<1> QED BY <1>3, <1>4, <1>5

\* The digits of a number: at least one, and no leading zero.
LEMMA DecimalDigits ==
    ASSUME NEW n \in Nat
    PROVE  /\ Decimal(n) \in Seq(Byte) /\ Len(Decimal(n)) >= 1
           /\ \A i \in 1 .. Len(Decimal(n)) : IsDigit(Decimal(n)[i])
           /\ n > 0 => Decimal(n)[1] # "0"
<1> DEFINE P(k) == /\ Decimal(k) \in Seq(Byte) /\ Len(Decimal(k)) >= 1
                   /\ \A i \in 1 .. Len(Decimal(k)) : IsDigit(Decimal(k)[i])
                   /\ k > 0 => Decimal(k)[1] # "0"
           T == {k \in Nat : ~P(k)}
<1>1. ASSUME NEW x \in T PROVE \E y \in T : y < x
  <2>0. x \in Nat
    OBVIOUS
  <2>1. ~(x < 10)
    <3> SUFFICES ASSUME x < 10 PROVE P(x)
      OBVIOUS
    <3>1. x \in 0 .. 9 /\ Decimal(x) = <<Digit[x + 1]>>
      <4> HIDE DEF T
      <4> QED BY <2>0, DecimalIs
    <3>2. Digit[x + 1] \in Byte /\ (Digit[x + 1] = "0" <=> x = 0) /\ IsDigit(Digit[x + 1])
      BY <3>1, DigitOf DEF IsDigit
    <3> QED BY <3>1, <3>2
  <2> DEFINE y == x \div 10
             c == Digit[(x % 10) + 1]
  <2>2. y \in Nat /\ y < x /\ y > 0 /\ x % 10 \in 0 .. 9
    BY <2>0, <2>1
  <2>3. Decimal(x) = Append(Decimal(y), c)
    BY <2>0, <2>1, DecimalIs, Zenon
  <2>4. c \in Byte /\ IsDigit(c)
    BY <2>2, DigitOf, SMTT(30) DEF IsDigit
  <2> HIDE DEF y, c
  <2>5. P(y) => P(x)
    <3> SUFFICES ASSUME P(y) PROVE P(x)
      OBVIOUS
    <3> DEFINE d == Decimal(y)
    <3>1. d \in Seq(Byte) /\ Len(d) >= 1 /\ (\A i \in 1 .. Len(d) : IsDigit(d[i])) /\ d[1] # "0"
      BY <2>2
    <3> HIDE DEF d
    <3>2. /\ Append(d, c) \in Seq(Byte) /\ Len(Append(d, c)) = Len(d) + 1
          /\ \A i \in 1 .. Len(d) : Append(d, c)[i] = d[i]
          /\ Append(d, c)[Len(d) + 1] = c
      BY <2>4, <3>1, SeqAppend
    <3>3. \A i \in 1 .. Len(Append(d, c)) : IsDigit(Append(d, c)[i])
      BY <2>4, <3>1, <3>2
    <3>4. Append(d, c)[1] # "0"
      BY <3>1, <3>2
    <3>5. Decimal(x) = Append(d, c)
      BY <2>3 DEF d
    <3> QED BY <3>1, <3>2, <3>3, <3>4, <3>5
  <2>6. ~P(x)
    OBVIOUS
  <2>7. y \in T
    <3> HIDE DEF P
    <3> QED BY <2>2, <2>5, <2>6
  <2> QED BY <2>2, <2>7
<1>2. T \subseteq Nat
  OBVIOUS
<1>3. T = {}
  <2> HIDE DEF T
  <2> QED BY <1>1, <1>2, NoDescent, Zenon
<1>4. P(n)
  <2> HIDE DEF P
  <2> QED BY <1>3
<1> QED BY <1>4

\* A number of two digits or more: its last digit, and the number before it.
LEMMA LastDigit ==
    ASSUME NEW n \in Nat, n >= 10
    PROVE  \E y \in Nat, c \in Byte :
             /\ y = n \div 10 /\ y < n /\ y > 0 /\ n = y * 10 + ValueOf(c)
             /\ Decimal(n) = Append(Decimal(y), c) /\ Decimal(y) \in Seq(Byte)
             /\ Len(Decimal(n)) = Len(Decimal(y)) + 1
             /\ \A i \in 1 .. Len(Decimal(y)) : Decimal(n)[i] = Decimal(y)[i]
<1> DEFINE y == n \div 10
           k == n % 10
           c == Digit[k + 1]
<1>1. y \in Nat /\ y < n /\ y > 0 /\ k \in 0 .. 9 /\ n = y * 10 + k
  OBVIOUS
<1>2. Decimal(n) = Append(Decimal(y), c)
  <2>1. ~(n < 10)
    OBVIOUS
  <2> QED BY <2>1, DecimalIs, Zenon
<1> HIDE DEF k
<1>3. c \in Byte /\ ValueOf(c) = k
  BY <1>1, DigitOf
<1>4. y = n \div 10
  OBVIOUS
<1> HIDE DEF y, c
<1>5. Decimal(y) \in Seq(Byte)
  BY <1>1, DecimalDigits
<1>6. /\ Len(Append(Decimal(y), c)) = Len(Decimal(y)) + 1
      /\ \A i \in 1 .. Len(Decimal(y)) : Append(Decimal(y), c)[i] = Decimal(y)[i]
  BY <1>3, <1>5, SeqAppend
<1> QED BY <1>1, <1>2, <1>3, <1>4, <1>5, <1>6, Zenon

\* The first digits of a number are a number themselves.
LEMMA DecimalPrefix ==
    ASSUME NEW n \in Nat, NEW e \in 1 .. Len(Decimal(n))
    PROVE  \E q \in Nat : /\ Len(Decimal(q)) = e /\ (n > 0 => q > 0)
                          /\ \A i \in 1 .. e : Decimal(q)[i] = Decimal(n)[i]
<1> DEFINE R(k, d, q) == /\ Len(Decimal(q)) = d /\ (k > 0 => q > 0)
                         /\ \A i \in 1 .. d : Decimal(q)[i] = Decimal(k)[i]
           P(k) == \A d \in 1 .. Len(Decimal(k)) : \E q \in Nat : R(k, d, q)
           T == {k \in Nat : ~P(k)}
<1>1. ASSUME NEW x \in T PROVE \E y \in T : y < x
  <2>0. x \in Nat /\ ~P(x)
    OBVIOUS
  <2>1. PICK d \in 1 .. Len(Decimal(x)) : ~ \E q \in Nat : R(x, d, q)
    BY <2>0
  <2> HIDE DEF T
  <2>2. Len(Decimal(x)) \in Nat
    BY <2>0, DecimalDigits
  <2>3. d # Len(Decimal(x))
    <3> SUFFICES ASSUME d = Len(Decimal(x)) PROVE R(x, d, x)
      BY <2>0, <2>1
    <3> QED BY <2>2
  <2>4. ~(x < 10)
    <3> SUFFICES ASSUME x < 10 PROVE FALSE
      OBVIOUS
    <3>1. Decimal(x) = <<Digit[x + 1]>>
      BY <2>0, DecimalIs
    <3>2. Len(Decimal(x)) = 1
      BY <3>1
    <3> QED BY <2>3, <3>2
  <2>5. x >= 10
    BY <2>0, <2>4
  <2>6. PICK y \in Nat : /\ y < x /\ y > 0 /\ Decimal(y) \in Seq(Byte)
                         /\ Len(Decimal(x)) = Len(Decimal(y)) + 1
                         /\ \A i \in 1 .. Len(Decimal(y)) : Decimal(x)[i] = Decimal(y)[i]
    BY <2>0, <2>5, LastDigit
  <2>8. d \in 1 .. Len(Decimal(y))
    BY <2>2, <2>3, <2>6
  <2>9. ~P(y)
    <3> SUFFICES ASSUME P(y) PROVE FALSE
      OBVIOUS
    <3>1. PICK q \in Nat : R(y, d, q)
      BY <2>8
    <3>2. R(x, d, q)
      BY <2>6, <2>8, <3>1, SMTT(30)
    <3> QED BY <2>1, <3>2
  <2>10. y \in T
    <3> HIDE DEF P
    <3> QED BY <2>9 DEF T
  <2> QED BY <2>6, <2>10
<1>2. T \subseteq Nat
  OBVIOUS
<1>3. T = {}
  <2> HIDE DEF T
  <2> QED BY <1>1, <1>2, NoDescent, Zenon
<1>4. P(n)
  <2> HIDE DEF P
  <2> QED BY <1>3
<1> QED BY <1>4

\* The function Number is made of.
Num(s, b, n, g) ==
    g = [k \in 0 .. n |-> IF k = 0 THEN 0 ELSE g[k - 1] * b + ValueOf(s[k])]

\* It exists.
LEMMA NumExists == ASSUME NEW s, NEW b PROVE \A n \in Nat : \E g : Num(s, b, n, g)
<1> DEFINE T == {n \in Nat : ~ \E g : Num(s, b, n, g)}
<1>1. ASSUME NEW x \in T PROVE \E y \in T : y < x
  <2> SUFFICES ASSUME \A y \in T : ~(y < x) PROVE FALSE
    OBVIOUS
  <2>0. x \in Nat
    OBVIOUS
  <2>1. CASE x = 0
    <3> DEFINE h == [i \in 0 .. 0 |-> 0]
    <3>1. Num(s, b, 0, h)
      BY DEF Num
    <3> QED BY <2>1, <3>1, Zenon
  <2>2. CASE x # 0
    <3>1. x - 1 \in Nat /\ x - 1 \notin T
      <4> HIDE DEF T
      <4> QED BY <2>0, <2>2
    <3>2. PICK g : Num(s, b, x - 1, g)
      BY <3>1
    <3> DEFINE V(i, f) == IF i = 0 THEN 0 ELSE f[i - 1] * b + ValueOf(s[i])
               h == [i \in 0 .. x |-> V(i, g)]
    <3>3. \A i \in 0 .. x - 1 : h[i] = g[i]
      <4>1. g = [i \in 0 .. x - 1 |-> V(i, g)] /\ h = [i \in 0 .. x |-> V(i, g)]
        BY <3>2 DEF Num
      <4> HIDE DEF V, h, T
      <4> QED BY <2>0, <4>1
    <3>4. \A i \in 0 .. x : i # 0 => i - 1 \in 0 .. x - 1
      BY <2>0
    <3>5. \A i \in 0 .. x : V(i, h) = V(i, g)
      <4> HIDE DEF h, T
      <4> QED BY <2>0, <3>3, <3>4
    <3>6. h = [i \in 0 .. x |-> V(i, h)]
      <4> DEFINE k == h
      <4>1. k = [i \in 0 .. x |-> V(i, g)]
        OBVIOUS
      <4>2. \A i \in 0 .. x : V(i, k) = V(i, g)
        BY <3>5
      <4> HIDE DEF k, V
      <4>3. k = [i \in 0 .. x |-> V(i, k)]
        BY <4>1, <4>2
      <4> QED BY <4>3 DEF k
    <3>7. Num(s, b, x, h)
      <4> HIDE DEF h
      <4> QED BY <3>6 DEF Num
    <3> QED BY <3>7
  <2> QED BY <2>1, <2>2
<1>2. T \subseteq Nat
  OBVIOUS
<1>3. T = {}
  <2> HIDE DEF T
  <2> QED BY <1>1, <1>2, NoDescent, Zenon
<1> QED BY <1>3

\* A digit more.
LEMMA NumberAppend ==
    ASSUME NEW S, NEW s \in Seq(S), NEW c \in S, NEW b
    PROVE  /\ Number(<<>>, b) = 0
           /\ Number(Append(s, c), b) = Number(s, b) * b + ValueOf(c)
<1> DEFINE t == Append(s, c)
           n == Len(s)
           g == CHOOSE f : Num(s, b, n, f)
           h == CHOOSE f : Num(t, b, n + 1, f)
           z == CHOOSE f : Num(<<>>, b, 0, f)
<1>0. n \in Nat
  OBVIOUS
<1>1. Len(t) = n + 1 /\ t[n + 1] = c /\ \A i \in 1 .. n : t[i] = s[i]
  BY SeqAppend
<1>2. Number(s, b) = g[n]
  BY Zenon DEF Number, Num
<1>3. Number(t, b) = h[n + 1]
  <2> HIDE DEF t, n
  <2>1. Number(t, b) = (CHOOSE f : Num(t, b, Len(t), f))[Len(t)]
    BY Zenon DEF Number, Num
  <2> QED BY <1>1, <2>1, Zenon
<1>4. Number(<<>>, b) = z[0]
  <2>1. Number(<<>>, b) = (CHOOSE f : Num(<<>>, b, Len(<<>>), f))[Len(<<>>)]
    BY Zenon DEF Number, Num
  <2>2. Len(<<>>) = 0
    OBVIOUS
  <2> QED BY <2>1, <2>2, Zenon
<1> HIDE DEF t, n
<1>5. Num(s, b, n, g) /\ Num(t, b, n + 1, h) /\ Num(<<>>, b, 0, z)
  <2>1. n + 1 \in Nat /\ 0 \in Nat
    BY <1>0
  <2> QED BY <1>0, <2>1, NumExists, Zenon
<1> HIDE DEF g, h, z
<1>6. \A i \in 0 .. n : g[i] = h[i]
  <2> DEFINE T == {i \in 0 .. n : g[i] # h[i]}
  <2>1. ASSUME NEW x \in T PROVE \E y \in T : y < x
    <3>0. x \in 0 .. n /\ x \in 0 .. n + 1 /\ g[x] # h[x]
      BY <1>0
    <3>1. g[x] = IF x = 0 THEN 0 ELSE g[x - 1] * b + ValueOf(s[x])
      BY <1>5, <3>0, Zenon DEF Num
    <3>2. h[x] = IF x = 0 THEN 0 ELSE h[x - 1] * b + ValueOf(t[x])
      BY <1>5, <3>0, Zenon DEF Num
    <3>3. x # 0
      BY <3>0, <3>1, <3>2
    <3>4. x - 1 \in 0 .. n /\ x - 1 < x /\ x \in 1 .. n
      BY <1>0, <3>0, <3>3
    <3>5. g[x - 1] # h[x - 1]
      BY <1>1, <3>0, <3>1, <3>2, <3>3, <3>4
    <3> QED BY <3>4, <3>5
  <2>2. T \subseteq Nat
    BY <1>0
  <2>3. T = {}
    <3> HIDE DEF T
    <3> QED BY <2>1, <2>2, NoDescent, Zenon
  <2> QED BY <2>3
<1>7. z[0] = 0
  <2>1. 0 \in 0 .. 0
    OBVIOUS
  <2> QED BY <1>5, <2>1, Zenon DEF Num
<1>8. h[n + 1] = h[n] * b + ValueOf(t[n + 1])
  <2>1. n + 1 \in 0 .. n + 1 /\ n + 1 # 0 /\ (n + 1) - 1 = n
    BY <1>0
  <2>2. h[n + 1] = h[(n + 1) - 1] * b + ValueOf(t[n + 1])
    BY <1>5, <2>1, Zenon DEF Num
  <2> QED BY <2>1, <2>2
<1>9. n \in 0 .. n
  BY <1>0
<1>10. Number(t, b) = Number(s, b) * b + ValueOf(c)
  BY <1>1, <1>2, <1>3, <1>6, <1>8, <1>9
<1> QED BY <1>4, <1>7, <1>10 DEF t

\* NumSize counts the digits of a length.
LEMMA NumSizeIs ==
    ASSUME NEW n \in Nat
    PROVE  NumSize(n) = Len(Decimal(n))
<1> DEFINE Size(g) == g = [i \in 0 .. n |-> IF i < 10 THEN 1 ELSE g[i \div 10] + 1]
           L(i) == Len(Decimal(i))
           w == [i \in 0 .. n |-> L(i)]
           f == CHOOSE g : Size(g)
<1>1. \A i \in Nat : L(i) = IF i < 10 THEN 1 ELSE L(i \div 10) + 1
  <2> SUFFICES ASSUME NEW i \in Nat PROVE L(i) = IF i < 10 THEN 1 ELSE L(i \div 10) + 1
    OBVIOUS
  <2>1. CASE i < 10
    <3>1. Decimal(i) = <<Digit[i + 1]>>
      BY <2>1, DecimalIs
    <3> QED BY <2>1, <3>1
  <2>2. CASE i >= 10
    <3>1. L(i) = L(i \div 10) + 1
      BY <2>2, LastDigit
    <3> QED BY <2>2, <3>1
  <2> QED BY <2>1, <2>2
<1> HIDE DEF L
<1>2. Size(w)
  <2>1. \A i \in 0 .. n : i >= 10 => i \div 10 \in 0 .. n
    OBVIOUS
  <2>2. \A i \in 0 .. n : w[i] = IF i < 10 THEN 1 ELSE w[i \div 10] + 1
    BY <1>1, <2>1
  <2>3. w = [i \in 0 .. n |-> w[i]]
    OBVIOUS
  <2> HIDE DEF w
  <2> QED BY <2>2, <2>3, Zenon
<1>3. Size(f)
  <2> HIDE DEF Size, w
  <2> QED BY <1>2
<1>4. NumSize(n) = f[n]
  BY DEF NumSize
<1> HIDE DEF f, w
<1>5. \A i \in 0 .. n : f[i] = L(i)
  <2> DEFINE T == {i \in 0 .. n : f[i] # L(i)}
  <2>1. ASSUME NEW x \in T PROVE \E y \in T : y < x
    <3>0. x \in 0 .. n /\ x \in Nat /\ f[x] # L(x)
      OBVIOUS
    <3>1. f[x] = IF x < 10 THEN 1 ELSE f[x \div 10] + 1
      BY <1>3, <3>0, Zenon
    <3>2. L(x) = IF x < 10 THEN 1 ELSE L(x \div 10) + 1
      BY <1>1, <3>0, Zenon
    <3> HIDE DEF T
    <3>3. x >= 10 /\ f[x \div 10] # L(x \div 10)
      BY <3>0, <3>1, <3>2
    <3>4. x \div 10 \in 0 .. n /\ x \div 10 < x
      BY <3>0, <3>3
    <3> QED BY <3>3, <3>4 DEF T
  <2>2. T \subseteq Nat
    OBVIOUS
  <2>3. T = {}
    <3> HIDE DEF T
    <3> QED BY <2>1, <2>2, NoDescent, Zenon
  <2> QED BY <2>3
<1>6. n \in 0 .. n
  OBVIOUS
<1> QED BY <1>4, <1>5, <1>6 DEF L

\* The number that digits in base 10 say is the number they were written for.
LEMMA DecimalReadsBack ==
    ASSUME NEW n \in Nat
    PROVE  Number(Decimal(n), 10) = n
<1> DEFINE T == {k \in Nat : Number(Decimal(k), 10) # k}
<1>1. ASSUME NEW x \in T PROVE \E y \in T : y < x
  <2>0. x \in Nat /\ Number(Decimal(x), 10) # x
    OBVIOUS
  <2> HIDE DEF T
  <2>1. CASE x < 10
    <3>1. x \in 0 .. 9 /\ Decimal(x) = <<Digit[x + 1]>>
      BY <2>0, <2>1, DecimalIs
    <3>2. Digit[x + 1] \in Byte /\ ValueOf(Digit[x + 1]) = x
      BY <3>1, DigitOf
    <3>3. <<Digit[x + 1]>> = Append(<<>>, Digit[x + 1]) /\ <<>> \in Seq(Byte)
      OBVIOUS
    <3>4. /\ Number(<<>>, 10) = 0
          /\ Number(Append(<<>>, Digit[x + 1]), 10) = Number(<<>>, 10) * 10 + ValueOf(Digit[x + 1])
      BY <3>2, <3>3, NumberAppend, Zenon
    <3> QED BY <2>0, <3>1, <3>2, <3>3, <3>4
  <2>2. CASE x >= 10
    <3>1. PICK y \in Nat, c \in Byte :
            /\ y < x /\ x = y * 10 + ValueOf(c)
            /\ Decimal(x) = Append(Decimal(y), c) /\ Decimal(y) \in Seq(Byte)
      BY <2>0, <2>2, LastDigit
    <3>2. Number(Decimal(x), 10) = Number(Decimal(y), 10) * 10 + ValueOf(c)
      BY <3>1, NumberAppend, Zenon
    <3>3. Number(Decimal(y), 10) # y
      BY <2>0, <3>1, <3>2
    <3> QED BY <3>1, <3>3 DEF T
  <2> QED BY <2>0, <2>1, <2>2
<1>2. T \subseteq Nat
  OBVIOUS
<1>3. T = {}
  <2> HIDE DEF T
  <2> QED BY <1>1, <1>2, NoDescent, Zenon
<1> QED BY <1>3

-----------------------------------------------------------------------------
(* strtol on what a node writes. *)

Holds(m, p, s) == \A i \in 1 .. Len(s) : At(m, p + i - 1) = s[i]

\* Skip finds the first byte that is not in S.
LEMMA SkipIs ==
    ASSUME NEW m \in Seq(Byte), NEW p \in Nat \ {0}, NEW e \in Nat, e >= p,
           NEW S, "NUL" \notin S, At(m, e) \notin S, \A j \in p .. e - 1 : At(m, j) \in S
    PROVE  Skip(m, p, S) = e /\ (e = p \/ e - 1 <= Len(m))
<1> DEFINE Q(i) == At(m, i) \notin S /\ \A j \in p .. i - 1 : At(m, j) \in S
<1>1. Len(m) \in Nat /\ DOMAIN m = 1 .. Len(m)
  BY SeqLength
<1>2. e = p \/ e - 1 <= Len(m)
  <2> SUFFICES ASSUME e # p PROVE e - 1 <= Len(m)
    OBVIOUS
  <2>1. e - 1 \in p .. e - 1
    OBVIOUS
  <2>2. At(m, e - 1) \in S
    BY <2>1
  <2>3. e - 1 \in DOMAIN m
    BY <2>2 DEF At
  <2> QED BY <1>1, <2>3
<1>3. e \in p .. p + Len(m) + 1
  BY <1>1, <1>2
<1>4. Q(e)
  OBVIOUS
<1>5. ASSUME NEW i \in p .. p + Len(m) + 1, Q(i) PROVE i = e
  <2>1. ~(i < e)
    <3> SUFFICES ASSUME i < e PROVE FALSE
      OBVIOUS
    <3>1. i \in p .. e - 1
      BY <1>1
    <3> QED BY <1>5, <3>1
  <2>2. ~(e < i)
    <3> SUFFICES ASSUME e < i PROVE FALSE
      OBVIOUS
    <3>1. e \in p .. i - 1
      BY <1>1
    <3> QED BY <1>5, <3>1
  <2> QED BY <1>1, <2>1, <2>2
<1>6. Skip(m, p, S) = CHOOSE i \in p .. p + Len(m) + 1 : Q(i)
  BY DEF Skip
<1> HIDE DEF Q
<1>7. Skip(m, p, S) = e
  BY <1>3, <1>4, <1>5, <1>6
<1> QED BY <1>2, <1>7

\* The digits strtol accepts, and the base a leading zero chooses.
Base(m, p) == IF At(m, p) = "0" THEN 8 ELSE 10

DigitsOf(b) == {Digit[i] : i \in 1 .. b}

\* Octal digits are digits, and NUL is none.
LEMMA DigitSets ==
    /\ \A c : IsDigit(c) <=> c \in DigitsOf(10)
    /\ DigitsOf(8) \subseteq DigitsOf(10)
    /\ "0" \in DigitsOf(8) /\ "NUL" \notin DigitsOf(10)
<1>1. ASSUME NEW c PROVE IsDigit(c) <=> c \in DigitsOf(10)
  <2>1. IsDigit(c) => c \in DigitsOf(10)
    <3>1. \A i \in 0 .. 9 : i + 1 \in 1 .. 10
      OBVIOUS
    <3> QED BY <3>1, Zenon DEF IsDigit, DigitsOf
  <2>2. c \in DigitsOf(10) => IsDigit(c)
    <3>1. \A i \in 1 .. 10 : i - 1 \in 0 .. 9 /\ i = (i - 1) + 1
      OBVIOUS
    <3> QED BY <3>1 DEF IsDigit, DigitsOf
  <2> QED BY <2>1, <2>2
<1>2. DigitsOf(8) \subseteq DigitsOf(10)
  <2>1. \A i \in 1 .. 8 : i \in 1 .. 10
    OBVIOUS
  <2> QED BY <2>1, Zenon DEF DigitsOf
<1>3. Digit[1] = "0" /\ 1 \in 1 .. 8
  BY DEF Digit
<1>4. "0" \in DigitsOf(8)
  BY <1>3, Zenon DEF DigitsOf
<1>5. ~IsDigit("NUL")
  BY DigitOf DEF IsDigit
<1> QED BY <1>1, <1>2, <1>4, <1>5

\* Where strtol meets a number, it takes all of its digits and reads that number.
LEMMA DigitsRead ==
    ASSUME NEW m \in Seq(Byte), NEW p \in Nat \ {0}, NEW n \in Nat,
           Holds(m, p, Decimal(n)), ~IsDigit(At(m, p + Len(Decimal(n))))
    PROVE  LET end == Skip(m, p, DigitsOf(Base(m, p))) IN
           /\ end = p + Len(Decimal(n))
           /\ Number(SubSeq(m, p, end - 1), Base(m, p)) = n
<1> DEFINE d == Decimal(n)
           e == p + Len(d)
           b == Base(m, p)
<1>1. /\ d \in Seq(Byte) /\ Len(d) \in Nat /\ Len(d) >= 1
      /\ (\A i \in 1 .. Len(d) : IsDigit(d[i])) /\ (n > 0 => d[1] # "0")
  BY DecimalDigits, SeqLength, Zenon
<1>2. Holds(m, p, d) /\ ~IsDigit(At(m, e))
  OBVIOUS
<1>3. n = 0 => d = <<"0">>
  <2>1. Digit[1] = "0"
    BY DEF Digit
  <2> QED BY <2>1, DecimalIs
<1>4. n > 0 => Number(d, 10) = n
  BY DecimalReadsBack
<1> HIDE DEF d
<1>5. e \in Nat /\ e >= p /\ e # p
  BY <1>1
<1>6. ASSUME NEW j \in p .. e - 1 PROVE At(m, j) = d[j - p + 1] /\ IsDigit(At(m, j))
  <2>1. j - p + 1 \in 1 .. Len(d) /\ p + (j - p + 1) - 1 = j
    BY <1>1
  <2>2. At(m, p + (j - p + 1) - 1) = d[j - p + 1]
    BY <1>2, <2>1, Zenon DEF Holds
  <2> QED BY <1>1, <2>1, <2>2, SMTT(30)
<1>7. At(m, p) = d[1]
  <2>1. p \in p .. e - 1 /\ p - p + 1 = 1
    BY <1>1, <1>5
  <2> QED BY <1>6, <2>1
<1>8. /\ \A j \in p .. e - 1 : At(m, j) \in DigitsOf(b)
      /\ "NUL" \notin DigitsOf(b) /\ At(m, e) \notin DigitsOf(b)
  <2>1. CASE n = 0
    <3>1. b = 8 /\ d[1] = "0" /\ Len(d) = 1
      BY <1>3, <1>7, <2>1 DEF Base
    <3>2. \A j \in p .. e - 1 : j = p
      BY <3>1
    <3>3. At(m, p) \in DigitsOf(8)
      BY <1>7, <3>1, DigitSets
    <3> HIDE DEF b, e
    <3> QED BY <1>2, <3>1, <3>2, <3>3, DigitSets
  <2>2. CASE n # 0
    <3>1. b = 10
      BY <1>1, <1>7, <2>2 DEF Base
    <3> HIDE DEF b, e
    <3> QED BY <1>2, <1>6, <3>1, DigitSets
  <2> QED BY <2>1, <2>2
<1>9. Skip(m, p, DigitsOf(b)) = e /\ e - 1 <= Len(m)
  <2> HIDE DEF b, e
  <2> QED BY <1>5, <1>8, SkipIs
<1>10. SubSeq(m, p, e - 1) = d
  <2>1. DOMAIN m = 1 .. Len(m) /\ Len(m) \in Nat
    BY SeqLength
  <2>2. \A i \in p .. e - 1 : i \in DOMAIN m /\ m[i] \in Byte /\ At(m, i) = m[i]
    BY <1>5, <1>9, <2>1, SeqLength DEF At
  <2>3. e - 1 \in Int /\ p \in Int /\ p <= e - 1 /\ (e - 1) - p + 1 = Len(d)
    BY <1>1, <1>5
  <2> DEFINE u == SubSeq(m, p, e - 1)
  <2>4. u \in Seq(Byte) /\ Len(u) = Len(d) /\ \A i \in 1 .. Len(d) : u[i] = m[p + i - 1]
    <3> HIDE DEF e
    <3>1. \A i \in p .. e - 1 : m[i] \in Byte
      BY <2>2
    <3>2. /\ u \in Seq(Byte) /\ Len(u) = IF p <= e - 1 THEN (e - 1) - p + 1 ELSE 0
          /\ \A i \in 1 .. (e - 1) - p + 1 : u[i] = m[p + i - 1]
      BY <2>3, <3>1, SeqPart, SMTT(60)
    <3> QED BY <2>3, <3>2
  <2>5. ASSUME NEW i \in 1 .. Len(d) PROVE u[i] = d[i]
    <3>1. p + i - 1 \in p .. e - 1 /\ (p + i - 1) - p + 1 = i
      BY <1>1
    <3> HIDE DEF u, e
    <3> QED BY <1>6, <2>2, <2>4, <3>1, Zenon
  <2> HIDE DEF u
  <2>6. u = d
    BY <1>1, <2>4, <2>5, SeqSame
  <2> QED BY <2>6 DEF u
<1>11. Number(d, b) = n
  <2>1. CASE n = 0
    <3>1. d = Append(<<>>, "0") /\ <<>> \in Seq(Byte)
      BY <1>3, <2>1
    <3>2. Digit[1] = "0" /\ 0 \in 0 .. 9 /\ 0 + 1 = 1
      BY DEF Digit
    <3>3. "0" \in Byte /\ ValueOf("0") = 0
      BY <3>2, DigitOf
    <3>4. b = 8
      BY <1>3, <1>7, <2>1 DEF Base
    <3>5. Number(<<>>, 8) = 0 /\ Number(Append(<<>>, "0"), 8) = Number(<<>>, 8) * 8 + ValueOf("0")
      BY <3>1, <3>3, NumberAppend, Zenon
    <3> QED BY <2>1, <3>1, <3>3, <3>4, <3>5
  <2>2. CASE n # 0
    BY <1>1, <1>4, <1>7, <2>2 DEF Base
  <2> QED BY <2>1, <2>2
<1> HIDE DEF b, e
<1>12. Skip(m, p, DigitsOf(b)) = e /\ Number(SubSeq(m, p, e - 1), b) = n
  BY <1>9, <1>10, <1>11, Zenon
<1> QED BY <1>12 DEF b, e, d

\* strtol behind white space and a sign.
LEMMA StrtolIs ==
    ASSUME NEW m, NEW p, NEW f, NEW e, Skip(m, p, {"CR", "LF"}) = p,
           f = IF At(m, p) \in {"-", "+"} THEN p + 1 ELSE p,
           Skip(m, f, DigitsOf(Base(m, f))) = e
    PROVE  Strtol(m, p) =
             IF e = f THEN [n |-> 0, end |-> p]
             ELSE [n |-> IF At(m, p) = "-" THEN -Number(SubSeq(m, f, e - 1), Base(m, f))
                                           ELSE Number(SubSeq(m, f, e - 1), Base(m, f)),
                   end |-> e]
BY Zenon DEF Strtol, Base, DigitsOf

\* The reading of a length, a count or a null element.
LEMMA StrtolReads ==
    ASSUME NEW m \in Seq(Byte), NEW p \in Nat \ {0}, NEW n \in Nat,
           Holds(m, p, Decimal(n)), ~IsDigit(At(m, p + Len(Decimal(n))))
    PROVE  Strtol(m, p) = [n |-> n, end |-> p + Len(Decimal(n))]
<1> DEFINE e == p + Len(Decimal(n))
<1>1. Len(Decimal(n)) \in Nat /\ Len(Decimal(n)) >= 1 /\ IsDigit(Decimal(n)[1])
  <2>1. /\ Len(Decimal(n)) \in Nat /\ Len(Decimal(n)) >= 1
        /\ \A i \in 1 .. Len(Decimal(n)) : IsDigit(Decimal(n)[i])
    BY DecimalDigits, SeqLength, Zenon
  <2>2. 1 \in 1 .. Len(Decimal(n))
    BY <2>1
  <2> QED BY <2>1, <2>2
<1>2. IsDigit(At(m, p))
  <2>1. 1 \in 1 .. Len(Decimal(n)) /\ p + 1 - 1 = p
    BY <1>1
  <2>2. At(m, p + 1 - 1) = Decimal(n)[1]
    BY <2>1, Zenon DEF Holds
  <2> QED BY <1>1, <2>1, <2>2
<1>3. At(m, p) \notin {"CR", "LF"} /\ At(m, p) \notin {"-", "+"}
  BY <1>2, DigitOf, SMTT(30) DEF IsDigit
<1>4. Skip(m, p, {"CR", "LF"}) = p
  <2>1. "NUL" \notin {"CR", "LF"} /\ p \in Nat /\ p >= p /\ \A j \in p .. p - 1 : FALSE
    OBVIOUS
  <2> QED BY <1>3, <2>1, SkipIs
<1>5. Skip(m, p, DigitsOf(Base(m, p))) = e /\ Number(SubSeq(m, p, e - 1), Base(m, p)) = n
  BY DigitsRead
<1>6. e # p
  BY <1>1
<1> HIDE DEF e
<1>7. At(m, p) # "-"
  BY <1>3
<1>8. Strtol(m, p) = [n |-> n, end |-> e]
  BY <1>3, <1>4, <1>5, <1>6, <1>7, StrtolIs
<1> QED BY <1>8 DEF e

\* The length of a null element is read as -1.
LEMMA StrtolNull ==
    ASSUME NEW m \in Seq(Byte), NEW p \in Nat \ {0},
           At(m, p) = "-", At(m, p + 1) = "1", ~IsDigit(At(m, p + 2))
    PROVE  Strtol(m, p) = [n |-> -1, end |-> p + 2]
<1>1. Decimal(1) = <<"1">>
  <2>1. Digit[2] = "1" /\ 1 + 1 = 2 /\ 1 < 10 /\ 1 \in Nat
    BY DEF Digit
  <2> QED BY <2>1, DecimalIs
<1>2. Len(Decimal(1)) = 1 /\ Decimal(1)[1] = "1"
  BY <1>1
<1>3. Holds(m, p + 1, Decimal(1)) /\ (p + 1) + Len(Decimal(1)) = p + 2
  <2>1. \A i \in 1 .. 1 : i = 1 /\ (p + 1) + i - 1 = p + 1
    OBVIOUS
  <2>2. \A i \in 1 .. 1 : At(m, (p + 1) + i - 1) = Decimal(1)[i]
    BY <1>2, <2>1
  <2>3. Holds(m, p + 1, Decimal(1))
    BY <1>2, <2>2, Zenon DEF Holds
  <2>4. (p + 1) + Len(Decimal(1)) = p + 2
    <3>1. \A a : a = 1 => (p + 1) + a = p + 2
      OBVIOUS
    <3> QED BY <1>2, <3>1, Zenon
  <2> QED BY <2>3, <2>4
<1>4. /\ Skip(m, p + 1, DigitsOf(Base(m, p + 1))) = p + 2
      /\ Number(SubSeq(m, p + 1, p + 2 - 1), Base(m, p + 1)) = 1
  <2>1. p + 1 \in Nat \ {0} /\ 1 \in Nat
    OBVIOUS
  <2> QED BY <1>3, <2>1, DigitsRead
<1>5. Skip(m, p, {"CR", "LF"}) = p
  <2>1. "NUL" \notin {"CR", "LF"} /\ p \in Nat /\ p >= p /\ \A j \in p .. p - 1 : FALSE
    OBVIOUS
  <2>2. At(m, p) \notin {"CR", "LF"}
    OBVIOUS
  <2> QED BY <2>1, <2>2, SkipIs
<1>6. p + 2 # p + 1
  OBVIOUS
<1>7. At(m, p) \in {"-", "+"}
  OBVIOUS
<1>8. Strtol(m, p) = [n |-> -Number(SubSeq(m, p + 1, p + 2 - 1), Base(m, p + 1)), end |-> p + 2]
  BY <1>4, <1>5, <1>6, <1>7, StrtolIs
<1> QED BY <1>4, <1>8

\* Without digits strtol reads 0, and its end is where it started.
LEMMA StrtolNone ==
    ASSUME NEW m \in Seq(Byte), NEW p \in Nat \ {0}, At(m, p) = "NUL"
    PROVE  Strtol(m, p) = [n |-> 0, end |-> p]
<1>1. p \in Nat /\ p >= p /\ \A j \in p .. p - 1 : FALSE
  OBVIOUS
<1>2. Skip(m, p, {"CR", "LF"}) = p
  <2>1. "NUL" \notin {"CR", "LF"}
    OBVIOUS
  <2> QED BY <1>1, <2>1, SkipIs
<1>3. Skip(m, p, DigitsOf(10)) = p
  <2>1. "NUL" \notin DigitsOf(10)
    BY DigitSets
  <2> QED BY <1>1, <2>1, SkipIs
<1>4. At(m, p) \notin {"-", "+"} /\ At(m, p) # "0"
  OBVIOUS
<1> QED BY <1>2, <1>3, <1>4, StrtolIs DEF Base

-----------------------------------------------------------------------------
(* What a node writes. *)

\* The function Concat is made of.
Flat(seqs, n, g) == g = [i \in 1 .. n |-> IF i = 1 THEN seqs[i] ELSE g[i - 1] \o seqs[i]]

\* It exists.
LEMMA FlatExists == ASSUME NEW seqs PROVE \A n \in Nat \ {0} : \E g : Flat(seqs, n, g)
<1> DEFINE T == {n \in Nat \ {0} : ~ \E g : Flat(seqs, n, g)}
<1>1. ASSUME NEW x \in T PROVE \E y \in T : y < x
  <2> SUFFICES ASSUME \A y \in T : ~(y < x) PROVE FALSE
    OBVIOUS
  <2>0. x \in Nat \ {0}
    OBVIOUS
  <2>1. CASE x = 1
    <3> DEFINE h == [i \in 1 .. 1 |-> seqs[i]]
    <3>1. Flat(seqs, 1, h)
      BY DEF Flat
    <3> QED BY <2>1, <3>1, Zenon
  <2>2. CASE x # 1
    <3>1. x - 1 \in Nat \ {0} /\ x - 1 \notin T
      <4> HIDE DEF T
      <4> QED BY <2>0, <2>2
    <3>2. PICK g : Flat(seqs, x - 1, g)
      BY <3>1
    <3> DEFINE V(i, f) == IF i = 1 THEN seqs[i] ELSE f[i - 1] \o seqs[i]
               h == [i \in 1 .. x |-> V(i, g)]
    <3>3. \A i \in 1 .. x - 1 : h[i] = g[i]
      <4>1. g = [i \in 1 .. x - 1 |-> V(i, g)] /\ h = [i \in 1 .. x |-> V(i, g)]
        BY <3>2, Zenon DEF Flat
      <4> HIDE DEF V, h, T
      <4> QED BY <2>0, <4>1
    <3>4. \A i \in 1 .. x : i # 1 => i - 1 \in 1 .. x - 1
      BY <2>0
    <3>5. \A i \in 1 .. x : V(i, h) = V(i, g)
      <4> HIDE DEF h, T
      <4> QED BY <2>0, <3>3, <3>4
    <3>6. h = [i \in 1 .. x |-> V(i, h)]
      <4> DEFINE k == h
      <4>1. k = [i \in 1 .. x |-> V(i, g)]
        OBVIOUS
      <4>2. \A i \in 1 .. x : V(i, k) = V(i, g)
        BY <3>5, Zenon
      <4> HIDE DEF k, V
      <4>3. k = [i \in 1 .. x |-> V(i, k)]
        BY <4>1, <4>2
      <4> QED BY <4>3 DEF k
    <3>7. Flat(seqs, x, h)
      <4> HIDE DEF h
      <4> QED BY <3>6, Zenon DEF Flat
    <3> QED BY <3>7
  <2> QED BY <2>1, <2>2
<1>2. T \subseteq Nat
  OBVIOUS
<1>3. T = {}
  <2> HIDE DEF T
  <2> QED BY <1>1, <1>2, NoDescent, Zenon
<1> QED BY <1>3

\* Each sequence lies in the flat one behind those before it.
Lays(flat, seqs, off) ==
    /\ off \in [0 .. Len(seqs) -> Nat] /\ off[0] = 0 /\ Len(flat) = off[Len(seqs)]
    /\ \A k \in 1 .. Len(seqs) :
         /\ off[k] = off[k - 1] + Len(seqs[k]) /\ off[k] <= Len(flat)
         /\ \A i \in 1 .. Len(seqs[k]) : flat[off[k - 1] + i] = seqs[k][i]

\* Concat lays its sequences out one behind the other.
LEMMA ConcatFlat ==
    ASSUME NEW S, NEW seqs \in Seq(Seq(S))
    PROVE  Concat(seqs) \in Seq(S) /\ \E off : Lays(Concat(seqs), seqs, off)
<1> DEFINE n == Len(seqs)
           F == CHOOSE g : Flat(seqs, n, g)
<1>0. n \in Nat /\ \A i \in 1 .. n : seqs[i] \in Seq(S)
  BY SeqLength
<1>1. CASE n = 0
  <2>1. seqs = <<>>
    BY <1>1, SeqEmpty
  <2>2. Concat(seqs) = <<>>
    BY <1>1, <2>1 DEF Concat
  <2> DEFINE off == [i \in 0 .. 0 |-> 0]
  <2>3. Lays(<<>>, <<>>, off)
    BY DEF Lays
  <2> QED BY <2>1, <2>2, <2>3
<1>2. CASE n # 0
  <2>1. Concat(seqs) = F[n]
    <3>1. seqs # <<>>
      BY <1>2
    <3> QED BY <3>1, Zenon DEF Concat, Flat
  <2>2. Flat(seqs, n, F)
    <3>1. n \in Nat \ {0}
      BY <1>0, <1>2
    <3> HIDE DEF n
    <3> QED BY <3>1, FlatExists, Zenon
  <2> HIDE DEF F, n
  <2>3. \A i \in 1 .. n : F[i] = IF i = 1 THEN seqs[i] ELSE F[i - 1] \o seqs[i]
    BY <2>2, Zenon DEF Flat
  <2>4. \A i \in 1 .. n : F[i] \in Seq(S)
    <3> DEFINE T == {i \in 1 .. n : F[i] \notin Seq(S)}
    <3>1. ASSUME NEW x \in T PROVE \E y \in T : y < x
      <4>0. x \in 1 .. n /\ F[x] \notin Seq(S)
        OBVIOUS
      <4> HIDE DEF T
      <4>1. x # 1
        BY <1>0, <2>3, <4>0
      <4>2. x - 1 \in 1 .. n /\ x - 1 < x
        BY <1>0, <4>0, <4>1
      <4>3. F[x - 1] \notin Seq(S)
        <5>1. F[x] = F[x - 1] \o seqs[x] /\ seqs[x] \in Seq(S)
          BY <1>0, <2>3, <4>0, <4>1, Zenon
        <5> QED BY <4>0, <5>1, SeqConcat, Zenon
      <4> QED BY <4>2, <4>3 DEF T
    <3>2. T \subseteq Nat
      BY <1>0
    <3>3. T = {}
      <4> HIDE DEF T
      <4> QED BY <3>1, <3>2, NoDescent, Zenon
    <3> QED BY <3>3
  <2> DEFINE L(k) == Len(F[k])
             M(k) == Len(seqs[k])
  <2>5. \A k \in 1 .. n : L(k) \in Nat /\ M(k) \in Nat
    BY <1>0, <2>4, SeqLength, Zenon
  <2>6. ASSUME NEW k \in 1 .. n, k # 1
        PROVE  /\ k - 1 \in 1 .. n /\ L(k) = L(k - 1) + M(k)
               /\ \A i \in 1 .. L(k - 1) : F[k][i] = F[k - 1][i]
               /\ \A i \in 1 .. M(k) : F[k][L(k - 1) + i] = seqs[k][i]
    <3> DEFINE a == F[k - 1]
               b == seqs[k]
    <3>1. k - 1 \in 1 .. n
      BY <1>0, <2>6
    <3>2. a \in Seq(S) /\ b \in Seq(S) /\ F[k] = a \o b
      BY <1>0, <2>3, <2>4, <2>6, <3>1, Zenon
    <3> HIDE DEF a, b
    <3>3. Len(a) \in Nat /\ Len(b) \in Nat
      BY <3>2, SeqLength
    <3>4. /\ Len(F[k]) = Len(a) + Len(b)
          /\ \A i \in 1 .. Len(a) + Len(b) : F[k][i] = IF i <= Len(a) THEN a[i] ELSE b[i - Len(a)]
      BY <3>2, SeqConcat
    <3>5. \A i \in 1 .. Len(a) : F[k][i] = a[i]
      BY <3>3, <3>4, SMTT(30)
    <3>6. ASSUME NEW i \in 1 .. Len(b) PROVE F[k][Len(a) + i] = b[i]
      <4>1. Len(a) + i \in 1 .. Len(a) + Len(b) /\ ~(Len(a) + i <= Len(a)) /\ (Len(a) + i) - Len(a) = i
        BY <3>3
      <4> QED BY <3>4, <4>1
    <3> QED BY <3>1, <3>4, <3>5, <3>6, Zenon DEF a, b
  <2>7. L(1) = M(1) /\ F[1] = seqs[1] /\ 1 \in 1 .. n
    <3>1. 1 \in 1 .. n
      BY <1>0, <1>2
    <3> QED BY <2>3, <3>1, Zenon
  <2> DEFINE off == [k \in 0 .. n |-> IF k = 0 THEN 0 ELSE L(k)]
  <2>8. off[n] = Len(F[n])
    BY <1>0, <1>2
  <2>9. \A k \in 1 .. n : M(k) = Len(seqs[k])
    OBVIOUS
  <2> HIDE DEF L, M
  <2>10. off \in [0 .. n -> Nat] /\ off[0] = 0 /\ off[n] = L(n)
    BY <1>0, <1>2, <2>5
  <2>11. ASSUME NEW k \in 1 .. n
         PROVE  \A j \in k .. n : L(k) <= L(j) /\ \A i \in 1 .. L(k) : F[j][i] = F[k][i]
    <3> DEFINE P(j) == L(k) <= L(j) /\ \A i \in 1 .. L(k) : F[j][i] = F[k][i]
               T == {j \in k .. n : ~P(j)}
    <3>1. ASSUME NEW x \in T PROVE \E y \in T : y < x
      <4>0. x \in k .. n /\ ~P(x)
        OBVIOUS
      <4> HIDE DEF T
      <4>1. x # k
        BY <2>5, <4>0
      <4>2. x - 1 \in k .. n /\ x \in 1 .. n /\ x # 1 /\ x - 1 < x /\ x - 1 \in 1 .. n
        BY <1>0, <4>0, <4>1
      <4>3. L(k) \in Nat /\ L(x - 1) \in Nat /\ L(x) \in Nat /\ M(x) \in Nat
        BY <2>5, <4>2
      <4>4. L(x) = L(x - 1) + M(x) /\ \A i \in 1 .. L(x - 1) : F[x][i] = F[x - 1][i]
        BY <2>6, <4>2
      <4>5. P(x - 1) => P(x)
        BY <4>3, <4>4
      <4> HIDE DEF P
      <4> QED BY <4>0, <4>2, <4>5 DEF T
    <3>2. T \subseteq Nat
      OBVIOUS
    <3>3. T = {}
      <4> HIDE DEF T
      <4> QED BY <3>1, <3>2, NoDescent, Zenon
    <3> HIDE DEF P
    <3>4. \A j \in k .. n : P(j)
      BY <3>3
    <3> QED BY <3>4 DEF P
  <2>12. ASSUME NEW k \in 1 .. n
         PROVE  /\ off[k] = off[k - 1] + M(k) /\ off[k] <= L(n)
                /\ \A i \in 1 .. M(k) : F[n][off[k - 1] + i] = seqs[k][i]
    <3>1. /\ off[k] = L(k) /\ k - 1 \in 0 .. n /\ n \in k .. n
          /\ off[k - 1] = IF k = 1 THEN 0 ELSE L(k - 1)
      BY <1>0
    <3> HIDE DEF off
    <3>2. L(k) <= L(n) /\ \A i \in 1 .. L(k) : F[n][i] = F[k][i]
      BY <2>11, <3>1
    <3>3. M(k) \in Nat /\ L(k) \in Nat
      BY <2>5
    <3>4. CASE k = 1
      <4>1. \A i \in 1 .. M(k) : 0 + i = i
        BY <3>3
      <4> QED BY <2>7, <3>1, <3>2, <3>3, <3>4, <4>1
    <3>5. CASE k # 1
      <4>1. /\ k - 1 \in 1 .. n /\ off[k - 1] = L(k - 1) /\ L(k) = L(k - 1) + M(k)
            /\ \A i \in 1 .. M(k) : F[k][L(k - 1) + i] = seqs[k][i]
        BY <2>6, <3>1, <3>5, SMTT(30)
      <4>2. L(k - 1) \in Nat
        BY <2>5, <4>1
      <4>3. \A i \in 1 .. M(k) : L(k - 1) + i \in 1 .. L(k)
        BY <3>3, <4>1, <4>2
      <4> QED BY <3>1, <3>2, <4>1, <4>3, SMTT(30)
    <3> QED BY <3>4, <3>5
  <2> HIDE DEF off
  <2>13. Lays(F[n], seqs, off)
    BY <2>8, <2>9, <2>10, <2>12, Zenon DEF Lays, n
  <2>14. F[n] \in Seq(S)
    BY <1>0, <1>2, <2>4
  <2> QED BY <2>1, <2>13, <2>14
<1> QED BY <1>1, <1>2

\* Bytes one after the other.
LEMMA ConcatLays ==
    \A s, t \in Seq(Byte) :
      /\ s \o t \in Seq(Byte) /\ Len(s \o t) = Len(s) + Len(t)
      /\ \A i \in 1 .. Len(s) : (s \o t)[i] = s[i]
      /\ \A i \in 1 .. Len(t) : (s \o t)[Len(s) + i] = t[i]
<1> SUFFICES ASSUME NEW s \in Seq(Byte), NEW t \in Seq(Byte)
             PROVE  /\ s \o t \in Seq(Byte) /\ Len(s \o t) = Len(s) + Len(t)
                    /\ \A i \in 1 .. Len(s) : (s \o t)[i] = s[i]
                    /\ \A i \in 1 .. Len(t) : (s \o t)[Len(s) + i] = t[i]
  BY Zenon
<1>1. Len(s) \in Nat /\ Len(t) \in Nat
  OBVIOUS
<1>2. /\ s \o t \in Seq(Byte) /\ Len(s \o t) = Len(s) + Len(t)
      /\ \A i \in 1 .. Len(s) + Len(t) : (s \o t)[i] = IF i <= Len(s) THEN s[i] ELSE t[i - Len(s)]
  BY SeqConcat
<1>3. \A i \in 1 .. Len(s) : (s \o t)[i] = s[i]
  BY <1>1, <1>2
<1>4. ASSUME NEW i \in 1 .. Len(t) PROVE (s \o t)[Len(s) + i] = t[i]
  <2>1. Len(s) + i \in 1 .. Len(s) + Len(t) /\ ~(Len(s) + i <= Len(s)) /\ (Len(s) + i) - Len(s) = i
    BY <1>1
  <2> QED BY <1>2, <2>1
<1> QED BY <1>2, <1>3, <1>4

\* What is a byte, and what is not a digit.
LEMMA Bytes ==
    /\ {"CR", "LF", "+", "-", ":", "$", "*", "O", "K", "0", "1", "nil"} \subseteq Byte
    /\ Nil \in Seq(Byte) /\ Len(Nil) = 1
    /\ CRLF \in Seq(Byte) /\ Len(CRLF) = 2 /\ CRLF[1] = "CR" /\ CRLF[2] = "LF"
    /\ ~IsDigit("CR") /\ ~IsDigit("NUL")
<1>1. CRLF[1] = "CR" /\ CRLF[2] = "LF" /\ DOMAIN CRLF = {1, 2} /\ Len(CRLF) = 2
  BY DEF CRLF
<1>2. "CR" \in Byte /\ "LF" \in Byte
  BY DEF Byte
<1>3. "0" \in Byte /\ "1" \in Byte
  <2>1. Digit[1] = "0" /\ Digit[2] = "1" /\ 1 \in DOMAIN Digit /\ 2 \in DOMAIN Digit
    BY DEF Digit
  <2>2. {"0", "1"} \subseteq {Digit[i] : i \in DOMAIN Digit}
    BY <2>1
  <2> QED BY <2>2 DEF Byte
<1>4. \A c \in {"+", "-", ":", "$", "*", "O", "K", "nil"} : c \in Byte
  BY DEF Byte
<1>5. Nil \in Seq(Byte) /\ Len(Nil) = 1
  BY <1>4 DEF Nil
<1>6. CRLF \in Seq(Byte)
  BY <1>2 DEF CRLF
<1>7. ~IsDigit("CR") /\ ~IsDigit("NUL")
  BY DigitOf DEF IsDigit
<1> QED BY <1>1, <1>2, <1>3, <1>4, <1>5, <1>6, <1>7

\* NumSize and Decimal agree on the number of digits.
LEMMA NumSizeOf ==
    ASSUME NEW n \in Nat
    PROVE  /\ NumSize(n) \in Nat /\ NumSize(n) >= 1 /\ Len(Decimal(n)) = NumSize(n)
           /\ Decimal(n) \in Seq(Byte) /\ NumSize(0) = 1
<1>1. Len(Decimal(n)) = NumSize(n)
  BY NumSizeIs
<1>2. Decimal(n) \in Seq(Byte) /\ Len(Decimal(n)) >= 1
  BY DecimalDigits, Zenon
<1>3. Len(Decimal(n)) \in Nat
  BY <1>2
<1>4. NumSize(0) = 1
  <2>1. Decimal(0) = <<Digit[1]>>
    BY DecimalIs
  <2>2. Len(Decimal(0)) = 1
    BY <2>1
  <2> QED BY <2>2, NumSizeIs, Zenon
<1> QED BY <1>1, <1>2, <1>3, <1>4, Zenon

\* The header of a bulk string or of an array: the number and CR LF after the type byte.
Heads(b, t, n) ==
    /\ b[1] = t /\ \A i \in 1 .. NumSize(n) : b[1 + i] = Decimal(n)[i]
    /\ b[2 + NumSize(n)] = "CR"

\* The bytes of a header.
LEMMA HeaderLays ==
    ASSUME NEW t \in Byte, NEW n \in Nat
    PROVE  /\ Header(t, n) \in Seq(Byte) /\ Len(Header(t, n)) = 3 + NumSize(n)
           /\ Heads(Header(t, n), t, n)
<1> DEFINE z == NumSize(n)
           d == Decimal(n)
           a == <<t>> \o d
           h == a \o CRLF
<1>1. d \in Seq(Byte) /\ Len(d) = z /\ z \in Nat
  BY NumSizeOf, Zenon
<1>2. <<t>> \in Seq(Byte) /\ Len(<<t>>) = 1 /\ <<t>>[1] = t
  OBVIOUS
<1> HIDE DEF d, z
<1>3. /\ a \in Seq(Byte) /\ Len(a) = 1 + z /\ a[1] = t
      /\ \A i \in 1 .. z : a[1 + i] = d[i]
  <2>1. /\ <<t>> \o d \in Seq(Byte) /\ Len(<<t>> \o d) = Len(<<t>>) + Len(d)
        /\ \A i \in 1 .. Len(<<t>>) : (<<t>> \o d)[i] = <<t>>[i]
        /\ \A i \in 1 .. Len(d) : (<<t>> \o d)[Len(<<t>>) + i] = d[i]
    BY <1>1, <1>2, ConcatLays, Zenon
  <2>2. 1 \in 1 .. 1
    OBVIOUS
  <2> QED BY <1>1, <1>2, <2>1, <2>2, Zenon
<1> HIDE DEF a
<1>4. /\ h \in Seq(Byte) /\ Len(h) = (1 + z) + 2
      /\ \A i \in 1 .. 1 + z : h[i] = a[i]
      /\ \A i \in 1 .. 2 : h[(1 + z) + i] = CRLF[i]
  <2>1. /\ a \o CRLF \in Seq(Byte) /\ Len(a \o CRLF) = Len(a) + Len(CRLF)
        /\ \A i \in 1 .. Len(a) : (a \o CRLF)[i] = a[i]
        /\ \A i \in 1 .. Len(CRLF) : (a \o CRLF)[Len(a) + i] = CRLF[i]
    <3>1. a \in Seq(Byte) /\ CRLF \in Seq(Byte)
      BY <1>3, Bytes, Zenon
    <3> QED BY <3>1, ConcatLays, Zenon
  <2> QED BY <1>3, <2>1, Bytes, Zenon
<1> HIDE DEF h
<1>5. Len(h) = 3 + z /\ h[1] = t /\ \A i \in 1 .. z : h[1 + i] = d[i]
  <2>1. 1 \in 1 .. 1 + z /\ \A i \in 1 .. z : 1 + i \in 1 .. 1 + z
    BY <1>1
  <2>2. h[1] = t /\ \A i \in 1 .. z : h[1 + i] = d[i]
    BY <1>3, <1>4, <2>1
  <2>3. (1 + z) + 2 = 3 + z
    BY <1>1
  <2> QED BY <1>4, <2>2, <2>3
<1>6. h[2 + z] = "CR"
  <2>1. 1 \in 1 .. 2 /\ (1 + z) + 1 = 2 + z
    BY <1>1
  <2> QED BY <1>4, <2>1, Bytes
<1>7. Header(t, n) = h
  BY DEF Header, h, a, d
<1> QED BY <1>4, <1>5, <1>6, <1>7 DEF Heads, z, d

\* A header stays where it is when bytes follow.
LEMMA HeadsConcat ==
    ASSUME NEW t, NEW n \in Nat, NEW h \in Seq(Byte), Len(h) = 3 + NumSize(n), Heads(h, t, n),
           NEW x \in Seq(Byte)
    PROVE  Heads(h \o x, t, n)
<1> DEFINE z == NumSize(n)
<1>1. z \in Nat
  BY NumSizeOf, Zenon
<1>2. \A i \in 1 .. 3 + z : (h \o x)[i] = h[i]
  <2>1. \A i \in 1 .. Len(h) : (h \o x)[i] = h[i]
    BY ConcatLays, Zenon
  <2> QED BY <2>1, Zenon
<1>3. 1 \in 1 .. 3 + z /\ 2 + z \in 1 .. 3 + z /\ \A i \in 1 .. z : 1 + i \in 1 .. 3 + z
  <2> HIDE DEF z
  <2> QED BY <1>1
<1> QED BY <1>2, <1>3, Zenon DEF Heads

\* A bulk string: its length, as long as ngx_parse_bulk reckons it, its header and value.
LEMMA BulkLays ==
    ASSUME NEW v \in Seq(Byte), v # Nil
    PROVE  /\ Bulk(v) \in Seq(Byte) /\ Len(v) \in Nat /\ Heads(Bulk(v), "$", Len(v))
           /\ Len(Bulk(v)) = 1 + NumSize(Len(v)) + 2 + Len(v) + 2
           /\ \A i \in 1 .. Len(v) : Bulk(v)[3 + NumSize(Len(v)) + i] = v[i]
<1> DEFINE n == Len(v)
           z == NumSize(n)
           h == Header("$", n)
           a == h \o v
           b == a \o CRLF
<1>1. n \in Nat
  OBVIOUS
<1>2. z \in Nat
  BY <1>1, NumSizeOf, Zenon
<1>3. h \in Seq(Byte) /\ Len(h) = 3 + z /\ Heads(h, "$", n)
  <2>1. "$" \in Byte
    BY Bytes
  <2> QED BY <1>1, <2>1, HeaderLays, Zenon
<1>4. b = Bulk(v)
  BY DEF Bulk
<1>5. Len(v) = n
  OBVIOUS
<1> HIDE DEF h, z, n
<1>6. /\ a \in Seq(Byte) /\ Len(a) = (3 + z) + n /\ \A i \in 1 .. n : a[(3 + z) + i] = v[i]
  <2>1. /\ h \o v \in Seq(Byte) /\ Len(h \o v) = Len(h) + Len(v)
        /\ \A i \in 1 .. Len(v) : (h \o v)[Len(h) + i] = v[i]
    BY <1>3, ConcatLays, Zenon
  <2> QED BY <1>3, <1>5, <2>1, Zenon
<1>7. Heads(a, "$", n)
  BY <1>1, <1>3, HeadsConcat, Zenon DEF z
<1> HIDE DEF a
<1>8. /\ b \in Seq(Byte) /\ Len(b) = ((3 + z) + n) + 2
      /\ \A i \in 1 .. (3 + z) + n : b[i] = a[i]
  <2>1. /\ a \o CRLF \in Seq(Byte) /\ Len(a \o CRLF) = Len(a) + Len(CRLF)
        /\ \A i \in 1 .. Len(a) : (a \o CRLF)[i] = a[i]
    <3>1. a \in Seq(Byte) /\ CRLF \in Seq(Byte)
      BY <1>6, Bytes, Zenon
    <3> QED BY <3>1, ConcatLays, Zenon
  <2> QED BY <1>6, <2>1, Bytes, Zenon
<1> HIDE DEF b
<1>9. \A i \in 1 .. n : b[3 + z + i] = v[i]
  <2>1. \A i \in 1 .. n : (3 + z) + i \in 1 .. (3 + z) + n
    BY <1>1, <1>2
  <2> QED BY <1>6, <1>8, <2>1
<1>10. Heads(b, "$", n)
  <2>1. 1 \in 1 .. (3 + z) + n /\ 2 + z \in 1 .. (3 + z) + n /\ \A i \in 1 .. z : 1 + i \in 1 .. (3 + z) + n
    BY <1>1, <1>2
  <2> QED BY <1>7, <1>8, <2>1, Zenon DEF Heads, z
<1>11. ((3 + z) + n) + 2 = 1 + z + 2 + n + 2
  BY <1>1, <1>2
<1> QED BY <1>1, <1>4, <1>8, <1>9, <1>10, <1>11, Zenon DEF n, z

\* The bytes of a null element.
LEMMA NullLays ==
    /\ Bulk(Nil) \in Seq(Byte) /\ Len(Bulk(Nil)) = 5
    /\ Bulk(Nil)[1] = "$" /\ Bulk(Nil)[2] = "-" /\ Bulk(Nil)[3] = "1" /\ Bulk(Nil)[4] = "CR"
<1> DEFINE a == <<"$", "-", "1">>
<1>1. a \in Seq(Byte) /\ Len(a) = 3 /\ a[1] = "$" /\ a[2] = "-" /\ a[3] = "1"
  BY Bytes
<1>2. Bulk(Nil) = a \o CRLF
  BY Zenon DEF Bulk
<1> HIDE DEF a
<1>3. CRLF \in Seq(Byte) /\ Len(CRLF) = 2 /\ CRLF[1] = "CR"
  BY Bytes, Zenon
<1>4. /\ a \o CRLF \in Seq(Byte) /\ Len(a \o CRLF) = Len(a) + Len(CRLF)
      /\ \A i \in 1 .. Len(a) : (a \o CRLF)[i] = a[i]
      /\ \A i \in 1 .. Len(CRLF) : (a \o CRLF)[Len(a) + i] = CRLF[i]
  BY <1>1, <1>3, ConcatLays, Zenon
<1>5. /\ Len(a \o CRLF) = 3 + 2 /\ \A i \in 1 .. 3 : (a \o CRLF)[i] = a[i]
      /\ \A i \in 1 .. 2 : (a \o CRLF)[3 + i] = CRLF[i]
  BY <1>1, <1>3, <1>4, Zenon
<1>6. 1 \in 1 .. 3 /\ 2 \in 1 .. 3 /\ 3 \in 1 .. 3 /\ 1 \in 1 .. 2 /\ 3 + 1 = 4 /\ 3 + 2 = 5
  OBVIOUS
<1>7. (a \o CRLF)[3 + 1] = "CR"
  BY <1>3, <1>5, <1>6, Zenon
<1> QED BY <1>1, <1>2, <1>4, <1>5, <1>6, <1>7

\* An array: its header, and its elements one after the other.
Elems(r) == [i \in DOMAIN r.elems |-> Bulk(r.elems[i])]

ArrayLays(enc, r, off) ==
    LET n == Len(r.elems)
        s == 3 + NumSize(n)
    IN  /\ off \in [0 .. n -> Nat] /\ off[0] = 0 /\ Len(enc) = s + off[n]
        /\ \A k \in 1 .. n :
             /\ off[k] = off[k - 1] + Len(Bulk(r.elems[k])) /\ off[k] <= off[n]
             /\ \A i \in 1 .. Len(Bulk(r.elems[k])) :
                  enc[s + off[k - 1] + i] = Bulk(r.elems[k])[i]

\* The elements of each kind of reply.
LEMMA ReplyTypes ==
    ASSUME NEW r \in Replies
    PROVE  /\ r.kind \in {"+", "-", ":"} => r.elems = <<>>
           /\ r.kind = "$" => r.elems = <<r.elems[1]>> /\ r.elems[1] \in Seq(Byte)
           /\ r.kind = "*" => r.elems \in Seq(Seq(Byte))
           /\ r.kind \in {"+", "-", ":", "$", "*"}
<1>1. Values \cup {Nil} \subseteq Seq(Byte)
  BY FramingAssumption, Bytes DEF FramingAssumption
<1>2. CASE r \in [kind : {"+", "-", ":"}, elems : {<<>>}]
  BY <1>2
<1>3. CASE r \in [kind : {"$"}, elems : [{1} -> Values \cup {Nil}]]
  <2>1. r.kind = "$" /\ r.elems \in [{1} -> Values \cup {Nil}]
    BY <1>3
  <2>2. r.elems = <<r.elems[1]>>
    BY <2>1
  <2> QED BY <1>1, <2>1, <2>2
<1> DEFINE Arrays == UNION {[1 .. n -> Values \cup {Nil}] : n \in 0 .. MaxElements}
<1>4. CASE r \in [kind : {"*"}, elems : Arrays]
  <2>1. r.kind = "*" /\ r.elems \in Arrays
    BY <1>4
  <2>2. PICK k \in 0 .. MaxElements : r.elems \in [1 .. k -> Values \cup {Nil}]
    BY <2>1
  <2>3. k \in Nat /\ r.elems \in [1 .. k -> Seq(Byte)]
    BY <1>1, <2>2, FramingAssumption DEF FramingAssumption
  <2>4. r.elems \in Seq(Seq(Byte))
    BY <2>3
  <2> QED BY <2>1, <2>4
<1> QED BY <1>2, <1>3, <1>4 DEF Replies

\* The bytes of an array: its header, and its elements at some offsets.
LEMMA EncodeArray ==
    ASSUME NEW r \in Replies, r.kind = "*"
    PROVE  /\ Encode(r) \in Seq(Byte) /\ Heads(Encode(r), "*", Len(r.elems))
           /\ Len(r.elems) \in Nat /\ \E off : ArrayLays(Encode(r), r, off)
<1> DEFINE n == Len(r.elems)
           z == NumSize(n)
           h == Header("*", n)
           q == Elems(r)
           f == Concat(q)
<1>1. r.elems \in Seq(Seq(Byte)) /\ n \in Nat /\ DOMAIN r.elems = 1 .. n
  BY ReplyTypes
<1>2. z \in Nat
  BY <1>1, NumSizeOf, Zenon
<1>3. h \in Seq(Byte) /\ Len(h) = 3 + z /\ Heads(h, "*", n)
  <2>1. "*" \in Byte
    BY Bytes
  <2> QED BY <1>1, <2>1, HeaderLays, Zenon
<1>4. Encode(r) = h \o f
  BY DEF Encode, Elems
<1>5. q \in Seq(Seq(Byte)) /\ Len(q) = n /\ \A k \in 1 .. n : q[k] = Bulk(r.elems[k])
  <2>1. q = [i \in 1 .. n |-> Bulk(r.elems[i])]
    BY <1>1, Zenon DEF Elems
  <2>2. \A k \in 1 .. n : Bulk(r.elems[k]) \in Seq(Byte)
    BY <1>1, BulkLays, NullLays, SeqLength, SMTT(30)
  <2> HIDE DEF q, n
  <2> QED BY <1>1, <2>1, <2>2
<1> HIDE DEF q, h, z, n
<1>6. f \in Seq(Byte) /\ \E off : Lays(f, q, off)
  BY <1>5, ConcatFlat, Zenon
<1>7. PICK off : Lays(f, q, off)
  BY <1>6
<1> HIDE DEF f
<1>8. /\ h \o f \in Seq(Byte) /\ Len(h \o f) = (3 + z) + Len(f)
      /\ \A i \in 1 .. Len(f) : (h \o f)[(3 + z) + i] = f[i]
  <2>1. /\ h \o f \in Seq(Byte) /\ Len(h \o f) = Len(h) + Len(f)
        /\ \A i \in 1 .. Len(f) : (h \o f)[Len(h) + i] = f[i]
    BY <1>3, <1>6, ConcatLays, Zenon
  <2> QED BY <1>3, <2>1, Zenon
<1>9. Heads(h \o f, "*", n)
  BY <1>1, <1>3, <1>6, HeadsConcat, Zenon DEF z
<1>10. /\ off \in [0 .. n -> Nat] /\ off[0] = 0 /\ Len(f) = off[n]
       /\ \A k \in 1 .. n :
            /\ off[k] = off[k - 1] + Len(q[k]) /\ off[k] <= Len(f)
            /\ \A i \in 1 .. Len(q[k]) : f[off[k - 1] + i] = q[k][i]
  BY <1>5, <1>7, Zenon DEF Lays
<1>11. ASSUME NEW k \in 1 .. n
       PROVE  /\ off[k] = off[k - 1] + Len(q[k]) /\ off[k] <= off[n]
              /\ \A i \in 1 .. Len(q[k]) : (h \o f)[3 + z + off[k - 1] + i] = q[k][i]
  <2>1. off[k] = off[k - 1] + Len(q[k]) /\ off[k] <= off[n]
    BY <1>10, Zenon
  <2>2. ASSUME NEW i \in 1 .. Len(q[k]) PROVE (h \o f)[3 + z + off[k - 1] + i] = q[k][i]
    <3> DEFINE o == off[k - 1]
               l == Len(q[k])
    <3>1. o \in Nat /\ l \in Nat /\ off[k] = o + l /\ off[k] <= Len(f) /\ Len(f) \in Nat
      <4>1. k - 1 \in 0 .. n
        BY <1>1
      <4>2. q[k] \in Seq(Byte)
        BY <1>5, SeqLength
      <4>3. l \in Nat
        BY <4>2, SeqLength, Zenon
      <4>4. o \in Nat /\ Len(f) \in Nat
        BY <1>1, <1>10, <4>1
      <4> QED BY <1>10, <4>3, <4>4, Zenon
    <3>2. i \in 1 .. l
      OBVIOUS
    <3>3. f[o + i] = q[k][i]
      BY <1>10, Zenon
    <3> HIDE DEF o, l
    <3>4. o + i \in 1 .. Len(f) /\ (3 + z) + (o + i) = 3 + z + o + i
      BY <1>2, <3>1, <3>2
    <3>5. (h \o f)[3 + z + o + i] = q[k][i]
      BY <1>8, <3>3, <3>4, Zenon
    <3> QED BY <3>5 DEF o
  <2> QED BY <2>1, <2>2, Zenon
<1>12. Len(h \o f) = 3 + z + off[n]
  BY <1>8, <1>10
<1>13. ArrayLays(h \o f, r, off)
  <2>1. ASSUME NEW k \in 1 .. n
        PROVE  /\ off[k] = off[k - 1] + Len(Bulk(r.elems[k])) /\ off[k] <= off[n]
               /\ \A i \in 1 .. Len(Bulk(r.elems[k])) :
                    (h \o f)[3 + z + off[k - 1] + i] = Bulk(r.elems[k])[i]
    <3>1. q[k] = Bulk(r.elems[k])
      BY <1>5
    <3> QED BY <1>11, <3>1, Zenon
  <2> QED BY <1>10, <1>12, <2>1, Zenon DEF ArrayLays, n, z
<1> QED BY <1>1, <1>4, <1>8, <1>9, <1>13, Zenon DEF n

-----------------------------------------------------------------------------
(* Reading it back. *)

\* The memory m holds the first k bytes of s behind position b.
Sees(m, b, s, k) == \A i \in 1 .. k : At(m, b + i) = s[i]

\* A header that has arrived up to its CR is read: its type and its number.
LEMMA HeadRead ==
    ASSUME NEW m \in Seq(Byte), NEW b \in Nat, NEW t, NEW n \in Nat, NEW s,
           Heads(s, t, n), Sees(m, b, s, 2 + NumSize(n))
    PROVE  At(m, b + 1) = t /\ Strtol(m, b + 2) = [n |-> n, end |-> b + 2 + NumSize(n)]
<1> DEFINE z == NumSize(n)
           d == Decimal(n)
<1>1. z \in Nat /\ Len(d) = z
  BY NumSizeOf, Zenon
<1>2. s[1] = t /\ (\A i \in 1 .. z : s[1 + i] = d[i]) /\ s[2 + z] = "CR"
  BY Zenon DEF Heads
<1>3. \A i \in 1 .. 2 + z : At(m, b + i) = s[i]
  BY Zenon DEF Sees
<1> HIDE DEF z, d
<1>4. At(m, b + 1) = t
  <2>1. 1 \in 1 .. 2 + z
    BY <1>1
  <2> QED BY <1>2, <1>3, <2>1
<1>5. At(m, (b + 2) + z) = "CR"
  <2>1. 2 + z \in 1 .. 2 + z /\ b + (2 + z) = (b + 2) + z
    BY <1>1
  <2> QED BY <1>2, <1>3, <2>1
<1>6. \A i \in 1 .. z : At(m, (b + 2) + i - 1) = d[i]
  <2>1. \A i \in 1 .. z : 1 + i \in 1 .. 2 + z /\ b + (1 + i) = (b + 2) + i - 1
    BY <1>1
  <2> QED BY <1>2, <1>3, <2>1
<1>7. Holds(m, b + 2, d)
  BY <1>1, <1>6, Zenon DEF Holds
<1>8. ~IsDigit(At(m, (b + 2) + Len(d)))
  BY <1>1, <1>5, Bytes, Zenon
<1>9. b + 2 \in Nat \ {0}
  OBVIOUS
<1>10. Strtol(m, b + 2) = [n |-> n, end |-> (b + 2) + Len(d)]
  BY <1>7, <1>8, <1>9, StrtolReads, Zenon DEF d
<1> QED BY <1>1, <1>4, <1>10, Zenon DEF z

\* A whole element behind position b: its length and value, or that it is null.
LEMMA BulkRead ==
    ASSUME NEW m \in Seq(Byte), NEW b \in Nat, NEW v \in Seq(Byte), v # Nil,
           Sees(m, b, Bulk(v), Len(Bulk(v)))
    PROVE  LET bulk == Strtol(m, b + 2) IN
           /\ bulk = [n |-> Len(v), end |-> b + 2 + NumSize(Len(v))]
           /\ Take(m, bulk.end + 2, bulk.n) = v
<1> DEFINE n == Len(v)
           z == NumSize(n)
           s == Bulk(v)
           l == Len(Bulk(v))
<1>1. /\ n \in Nat /\ Heads(s, "$", n) /\ l = 1 + z + 2 + n + 2
      /\ \A i \in 1 .. n : s[3 + z + i] = v[i]
  BY BulkLays, Zenon
<1>2. z \in Nat
  BY <1>1, NumSizeOf, Zenon
<1>3. Sees(m, b, s, l) /\ v = [k \in 1 .. n |-> v[k]]
  OBVIOUS
<1> HIDE DEF n, z, s, l
<1>4. Sees(m, b, s, 2 + z)
  <2>1. \A i \in 1 .. 2 + z : i \in 1 .. l
    BY <1>1, <1>2
  <2> QED BY <1>3, <2>1, Zenon DEF Sees
<1>5. Strtol(m, b + 2) = [n |-> n, end |-> b + 2 + z]
  BY <1>1, <1>4, HeadRead, Zenon DEF z
<1>6. ASSUME NEW k \in 1 .. n PROVE At(m, (b + 2 + z + 2) + k - 1) = v[k]
  <2>1. 3 + z + k \in 1 .. l /\ b + (3 + z + k) = (b + 2 + z + 2) + k - 1
    BY <1>1, <1>2
  <2>2. At(m, b + (3 + z + k)) = s[3 + z + k]
    BY <1>3, <2>1, Zenon DEF Sees
  <2> QED BY <1>1, <2>1, <2>2
<1>7. Take(m, b + 2 + z + 2, n) = v
  BY <1>3, <1>6 DEF Take
<1> QED BY <1>5, <1>7 DEF n, z

\* A null element behind position b is read as such.
LEMMA NullRead ==
    ASSUME NEW m \in Seq(Byte), NEW b \in Nat, Sees(m, b, Bulk(Nil), 5)
    PROVE  Strtol(m, b + 2) = [n |-> -1, end |-> b + 4]
<1> DEFINE s == Bulk(Nil)
<1>1. s[2] = "-" /\ s[3] = "1" /\ s[4] = "CR"
  BY NullLays
<1> HIDE DEF s
<1>2. 2 \in 1 .. 5 /\ 3 \in 1 .. 5 /\ 4 \in 1 .. 5 /\ b + 3 = (b + 2) + 1 /\ b + 4 = (b + 2) + 2
  OBVIOUS
<1>3. At(m, b + 2) = "-" /\ At(m, b + 3) = "1" /\ At(m, b + 4) = "CR"
  BY <1>1, <1>2, Zenon DEF Sees, s
<1>4. b + 2 \in Nat \ {0}
  OBVIOUS
<1>5. ~IsDigit("CR")
  BY Bytes, Zenon
<1>6. Strtol(m, b + 2) = [n |-> -1, end |-> (b + 2) + 2]
  BY <1>2, <1>3, <1>4, <1>5, StrtolNull, Zenon
<1> QED BY <1>2, <1>6

\* The loops are defined: each turn starts from the one before it.
LEMMA ElementsDefined ==
    ASSUME NEW m, NEW size, NEW count, count.n \in Nat
    PROVE  \A k \in 0 .. count.n :
             Elements(m, size, count)[k] =
               IF k = 0 THEN [rest |-> count.end + 2, len |-> 3, rc |-> "OK"]
                        ELSE Element(m, size, Elements(m, size, count)[k - 1])
<1> DEFINE z == [rest |-> count.end + 2, len |-> 3, rc |-> "OK"]
           V(i, f) == IF i = 0 THEN z ELSE Element(m, size, f[i - 1])
           Fits(n, g) == g = [i \in 0 .. n |-> V(i, g)]
           T == {n \in Nat : ~ \E g : Fits(n, g)}
<1>1. Elements(m, size, count) = CHOOSE g : Fits(count.n, g)
  BY Zenon DEF Elements
<1>2. ASSUME NEW x \in T PROVE \E y \in T : y < x
  <2> SUFFICES ASSUME \A y \in T : ~(y < x) PROVE FALSE
    OBVIOUS
  <2>0. x \in Nat /\ ~ \E g : Fits(x, g)
    BY Zenon
  <2>1. CASE x = 0
    <3> DEFINE h == [i \in 0 .. 0 |-> z]
    <3>1. Fits(0, h)
      <4> HIDE DEF z, T
      <4> QED OBVIOUS
    <3> QED BY <2>0, <2>1, <3>1, Zenon
  <2>2. CASE x # 0
    <3>1. x - 1 \in Nat /\ x - 1 \notin T
      <4> HIDE DEF T
      <4> QED BY <2>0, <2>2
    <3>2. PICK g : Fits(x - 1, g)
      BY <3>1, Zenon
    <3> DEFINE h == [i \in 0 .. x |-> V(i, g)]
    <3>3. \A i \in 0 .. x - 1 : h[i] = g[i]
      <4>1. g = [i \in 0 .. x - 1 |-> V(i, g)] /\ h = [i \in 0 .. x |-> V(i, g)]
        BY <3>2, Zenon
      <4> HIDE DEF V, h, T
      <4> QED BY <2>0, <4>1
    <3>4. \A i \in 0 .. x : V(i, h) = V(i, g)
      <4>1. \A i \in 0 .. x : i # 0 => i - 1 \in 0 .. x - 1
        BY <2>0
      <4> HIDE DEF h, T, z
      <4> QED BY <3>3, <4>1, Zenon
    <3>5. Fits(x, h)
      <4> DEFINE k == h
      <4>1. k = [i \in 0 .. x |-> V(i, g)]
        OBVIOUS
      <4>2. \A i \in 0 .. x : V(i, k) = V(i, g)
        BY <3>4, Zenon
      <4> HIDE DEF k, V
      <4>3. k = [i \in 0 .. x |-> V(i, k)]
        BY <4>1, <4>2
      <4> QED BY <4>3 DEF k
    <3> QED BY <2>0, <3>5, Zenon
  <2> QED BY <2>1, <2>2
<1>3. T \subseteq Nat
  OBVIOUS
<1>4. T = {}
  <2> HIDE DEF T
  <2> QED BY <1>2, <1>3, NoDescent, Zenon
<1>5. \E g : Fits(count.n, g)
  <2> HIDE DEF Fits
  <2> QED BY <1>4
<1>6. Fits(count.n, Elements(m, size, count))
  <2> HIDE DEF Fits
  <2> QED BY <1>1, <1>5
<1> DEFINE f == Elements(m, size, count)
<1>7. f = [i \in 0 .. count.n |-> V(i, f)]
  BY <1>6, Zenon
<1> HIDE DEF f, V
<1>8. \A k \in 0 .. count.n : f[k] = V(k, f)
  BY <1>7, Zenon
<1> QED BY <1>8, Zenon DEF f, V

\* The same for the plugin's loop.
LEMMA StepsDefined ==
    ASSUME NEW m, NEW count, count.n \in Nat
    PROVE  \A k \in 0 .. count.n :
             Steps(m, count)[k] = IF k = 0 THEN [rest |-> count.end + 2, out |-> <<>>]
                                           ELSE Step(m, Steps(m, count)[k - 1])
<1> DEFINE z == [rest |-> count.end + 2, out |-> <<>>]
           V(i, f) == IF i = 0 THEN z ELSE Step(m, f[i - 1])
           Fits(n, g) == g = [i \in 0 .. n |-> V(i, g)]
           T == {n \in Nat : ~ \E g : Fits(n, g)}
<1>1. Steps(m, count) = CHOOSE g : Fits(count.n, g)
  BY Zenon DEF Steps
<1>2. ASSUME NEW x \in T PROVE \E y \in T : y < x
  <2> SUFFICES ASSUME \A y \in T : ~(y < x) PROVE FALSE
    BY Zenon
  <2>0. x \in Nat /\ ~ \E g : Fits(x, g)
    BY Zenon
  <2>1. CASE x = 0
    <3> DEFINE h == [i \in 0 .. 0 |-> z]
    <3>1. Fits(0, h)
      <4> HIDE DEF z, T
      <4> QED OBVIOUS
    <3> QED BY <2>0, <2>1, <3>1, Zenon
  <2>2. CASE x # 0
    <3>1. x - 1 \in Nat /\ x - 1 \notin T
      <4> HIDE DEF T
      <4> QED BY <2>0, <2>2
    <3>2. PICK g : Fits(x - 1, g)
      BY <3>1, Zenon
    <3> DEFINE h == [i \in 0 .. x |-> V(i, g)]
    <3>3. \A i \in 0 .. x - 1 : h[i] = g[i]
      <4>1. g = [i \in 0 .. x - 1 |-> V(i, g)] /\ h = [i \in 0 .. x |-> V(i, g)]
        BY <3>2, Zenon
      <4> HIDE DEF V, h, T
      <4> QED BY <2>0, <4>1
    <3>4. \A i \in 0 .. x : V(i, h) = V(i, g)
      <4>1. \A i \in 0 .. x : i # 0 => i - 1 \in 0 .. x - 1
        BY <2>0
      <4> HIDE DEF h, T, z
      <4> QED BY <3>3, <4>1, Zenon
    <3>5. Fits(x, h)
      <4> DEFINE k == h
      <4>1. k = [i \in 0 .. x |-> V(i, g)]
        OBVIOUS
      <4>2. \A i \in 0 .. x : V(i, k) = V(i, g)
        BY <3>4, Zenon
      <4> HIDE DEF k, V
      <4>3. k = [i \in 0 .. x |-> V(i, k)]
        BY <4>1, <4>2
      <4> QED BY <4>3 DEF k
    <3> QED BY <2>0, <3>5, Zenon
  <2> QED BY <2>1, <2>2
<1>3. T \subseteq Nat
  OBVIOUS
<1>4. T = {}
  <2> HIDE DEF T
  <2> QED BY <1>2, <1>3, NoDescent, Zenon
<1>5. \E g : Fits(count.n, g)
  <2> HIDE DEF Fits
  <2> QED BY <1>4
<1>6. Fits(count.n, Steps(m, count))
  <2> HIDE DEF Fits
  <2> QED BY <1>1, <1>5
<1> DEFINE f == Steps(m, count)
<1>7. f = [i \in 0 .. count.n |-> V(i, f)]
  BY <1>6, Zenon
<1> HIDE DEF f, V
<1>8. \A k \in 0 .. count.n : f[k] = V(k, f)
  BY <1>7, Zenon
<1> QED BY <1>8, Zenon DEF f, V

\* What the offsets of an array are.
LEMMA Offsets ==
    ASSUME NEW r \in Replies, r.kind = "*", NEW enc, NEW off, ArrayLays(enc, r, off),
           NEW k \in 1 .. Len(r.elems)
    PROVE  /\ k - 1 \in 0 .. Len(r.elems) /\ off[k - 1] \in Nat /\ off[k] \in Nat
           /\ Len(Bulk(r.elems[k])) \in Nat /\ r.elems[k] \in Seq(Byte)
           /\ off[k] = off[k - 1] + Len(Bulk(r.elems[k]))
<1>1. r.elems \in Seq(Seq(Byte)) /\ Len(r.elems) \in Nat
  BY ReplyTypes
<1>2. k - 1 \in 0 .. Len(r.elems) /\ k \in 0 .. Len(r.elems)
  BY <1>1
<1>3. off \in [0 .. Len(r.elems) -> Nat] /\ off[k] = off[k - 1] + Len(Bulk(r.elems[k]))
  BY Zenon DEF ArrayLays
<1>4. off[k - 1] \in Nat /\ off[k] \in Nat
  BY <1>2, <1>3
<1>5. r.elems[k] \in Seq(Byte)
  BY <1>1, SeqLength
<1>6. Bulk(r.elems[k]) \in Seq(Byte)
  BY <1>5, BulkLays, NullLays
<1>7. Len(Bulk(r.elems[k])) \in Nat
  BY <1>6
<1> QED BY <1>2, <1>3, <1>4, <1>5, <1>7, Zenon

\* Where the plugin's pointer is after an element, and the offset of the next one.
EndsAt(b, z, o, d, w) ==
    ((b + 3 + z + o) + 2 + d) + 2 + w + 2 = b + 4 + z + (o + (1 + d + 2 + w + 2))

\* A pointer that passes the d digits of a length and w bytes of value, with the CR LF after
\* each, has gone as far as the element's layout says.
LEMMA ElementEnds ==
    ASSUME NEW b \in Nat, NEW z \in Nat, NEW o \in Nat, NEW d \in Nat, NEW w \in Nat
    PROVE  EndsAt(b, z, o, d, w)
  BY SMTT(30) DEF EndsAt

\* Where the plugin's loop stands after k elements, and what it has taken.
LEMMA StepsExact ==
    ASSUME NEW m \in Seq(Byte), NEW b \in Nat, NEW r \in Replies, r.kind = "*",
           NEW enc, NEW off, ArrayLays(enc, r, off), Sees(m, b, enc, Len(enc)),
           NEW count, count = [n |-> Len(r.elems), end |-> b + 2 + NumSize(Len(r.elems))]
    PROVE  Steps(m, count)[Len(r.elems)].out = r.elems
<1> DEFINE n == Len(r.elems)
           z == NumSize(n)
           turn == Steps(m, count)
           l(k) == Len(Bulk(r.elems[k]))
           P(k) == /\ turn[k].rest = b + 4 + z + off[k]
                   /\ turn[k].out \in Seq(Seq(Byte)) /\ Len(turn[k].out) = k
                   /\ \A i \in 1 .. k : turn[k].out[i] = r.elems[i]
           T == {k \in 0 .. n : ~P(k)}
<1>1. r.elems \in Seq(Seq(Byte)) /\ n \in Nat
  BY ReplyTypes
<1>2. z \in Nat
  BY <1>1, NumSizeOf, Zenon
<1>3. count.n = n /\ count.end = b + 2 + z
  OBVIOUS
<1>4. \A k \in 0 .. n : turn[k] = IF k = 0 THEN [rest |-> count.end + 2, out |-> <<>>]
                                           ELSE Step(m, turn[k - 1])
  <2>1. count.n \in Nat
    BY <1>1, <1>3, Zenon
  <2>2. \A k \in 0 .. count.n : turn[k] = IF k = 0 THEN [rest |-> count.end + 2, out |-> <<>>]
                                                  ELSE Step(m, turn[k - 1])
    BY <2>1, StepsDefined, Zenon
  <2> QED BY <1>3, <2>2, Zenon
<1>5. off[0] = 0 /\ Len(enc) = 3 + z + off[n] /\ off[n] \in Nat
  <2>1. off[0] = 0 /\ Len(enc) = 3 + z + off[n] /\ off \in [0 .. n -> Nat]
    BY Zenon DEF ArrayLays
  <2>2. n \in 0 .. n
    BY <1>1
  <2> QED BY <2>1, <2>2
<1>6. ASSUME NEW k \in 1 .. n
      PROVE  /\ k - 1 \in 0 .. n /\ off[k - 1] \in Nat /\ off[k] \in Nat /\ l(k) \in Nat
             /\ r.elems[k] \in Seq(Byte) /\ off[k] = off[k - 1] + l(k)
             /\ Sees(m, b + 3 + z + off[k - 1], Bulk(r.elems[k]), l(k))
  <2>1. /\ k - 1 \in 0 .. n /\ off[k - 1] \in Nat /\ off[k] \in Nat /\ l(k) \in Nat
        /\ r.elems[k] \in Seq(Byte) /\ off[k] = off[k - 1] + l(k)
    BY Offsets, Zenon
  <2>2. off[k] <= off[n] /\ \A i \in 1 .. l(k) : enc[3 + z + off[k - 1] + i] = Bulk(r.elems[k])[i]
    BY Zenon DEF ArrayLays
  <2>3. \A i \in 1 .. 3 + z + off[n] : At(m, b + i) = enc[i]
    BY <1>5, Zenon DEF Sees
  <2> HIDE DEF z, n, l
  <2>4. ASSUME NEW i \in 1 .. l(k)
        PROVE  At(m, (b + 3 + z + off[k - 1]) + i) = Bulk(r.elems[k])[i]
    <3> DEFINE o == off[k - 1]
               N == off[n]
    <3>1. o \in Nat /\ N \in Nat /\ o + l(k) <= N
      BY <1>5, <2>1, <2>2, SMTT(30)
    <3> HIDE DEF o, N
    <3>2. 3 + z + o + i \in 1 .. 3 + z + N /\ b + (3 + z + o + i) = (b + 3 + z + o) + i
      <4> DEFINE s == l(k)
      <4>1. s \in Nat /\ i \in 1 .. s /\ o + s <= N
        BY <2>1, <3>1, Zenon
      <4> HIDE DEF s
      <4>2. i \in Nat /\ 1 <= i /\ i <= s
        BY <4>1
      <4>3. 3 + z + o + i \in Nat /\ 1 <= 3 + z + o + i /\ 3 + z + o + i <= 3 + z + N
        BY <1>2, <3>1, <4>1, <4>2, SMTT(30)
      <4> QED BY <1>2, <3>1, <4>2, <4>3, SMTT(30)
    <3>3. At(m, b + (3 + z + o + i)) = enc[3 + z + o + i]
      BY <2>3, <3>2, Zenon DEF N
    <3> QED BY <2>2, <3>2, <3>3, Zenon DEF o
  <2> QED BY <2>1, <2>4, Zenon DEF Sees
<1> HIDE DEF turn, z, n
<1>7. ASSUME NEW x \in T PROVE \E y \in T : y < x
  <2>0. x \in 0 .. n /\ ~P(x)
    BY Zenon
  <2> HIDE DEF T
  <2>1. x # 0
    <3> SUFFICES ASSUME x = 0 PROVE P(0)
      BY <2>0
    <3>1. 0 \in 0 .. n
      BY <1>1
    <3>2. turn[0] = [rest |-> (b + 2 + z) + 2, out |-> <<>>]
      BY <1>3, <1>4, <3>1, Zenon
    <3>3. turn[0].rest = (b + 2 + z) + 2 /\ turn[0].out = <<>>
      BY <3>2
    <3> QED BY <1>2, <1>5, <3>3
  <2>2. x \in 1 .. n
    BY <1>1, <2>0, <2>1
  <2> DEFINE y == x - 1
             o == off[y]
             v == r.elems[x]
             B == b + 3 + z + o
             t == turn[y]
             bulk == Strtol(m, B + 2)
  <2>3. /\ y \in 0 .. n /\ o \in Nat /\ off[x] = o + l(x) /\ l(x) = Len(Bulk(v)) /\ l(x) \in Nat
        /\ v \in Seq(Byte) /\ Sees(m, B, Bulk(v), Len(Bulk(v)))
    BY <1>6, <2>2, Zenon
  <2>4. turn[x] = Step(m, t)
    BY <1>4, <2>0, <2>1, Zenon
  <2>5. y < x /\ x - 1 = y
    BY <2>2
  <2> HIDE DEF o, t, v, l
  <2>6. B \in Nat
    BY <1>2, <2>3
  <2>7. P(y) => P(x)
    <3> SUFFICES ASSUME P(y) PROVE P(x)
      OBVIOUS
    <3>1. /\ t.rest = b + 4 + z + o /\ t.out \in Seq(Seq(Byte)) /\ Len(t.out) = y
          /\ \A i \in 1 .. y : t.out[i] = r.elems[i]
      BY Zenon DEF t, o
    <3>2. t.rest + 1 = B + 2
      BY <1>2, <2>3, <3>1, SMTT(30)
    <3>3. turn[x].rest = b + 4 + z + (o + l(x)) /\ turn[x].out = Append(t.out, v)
      <4>1. CASE v = Nil
        <5>1. l(x) = 5 /\ Sees(m, B, Bulk(Nil), 5)
          BY <2>3, <4>1, NullLays, Zenon
        <5>2. bulk = [n |-> -1, end |-> B + 4]
          BY <2>6, <5>1, NullRead, Zenon
        <5> HIDE DEF bulk, B
        <5>3. bulk.n = -1 /\ bulk.end = B + 4
          BY <5>2
        <5>4. turn[x] = [rest |-> bulk.end + 2, out |-> Append(t.out, Nil)]
          BY <2>4, <3>2, <5>3, Zenon DEF Step, bulk
        <5>5. turn[x].rest = (B + 4) + 2 /\ turn[x].out = Append(t.out, Nil)
          BY <5>3, <5>4, SMTT(30)
        <5>6. (B + 4) + 2 = b + 4 + z + (o + 5)
          BY <1>2, <2>3, SMTT(30) DEF B
        <5> QED BY <4>1, <5>1, <5>5, <5>6
      <4>2. CASE v # Nil
        <5> DEFINE w == Len(v)
                   d == NumSize(w)
        <5>1. w \in Nat /\ l(x) = 1 + d + 2 + w + 2
          BY <2>3, <4>2, BulkLays, Zenon
        <5>2. d \in Nat
          BY <5>1, NumSizeOf, Zenon
        <5>3. bulk = [n |-> w, end |-> B + 2 + d] /\ Take(m, bulk.end + 2, bulk.n) = v
          BY <2>3, <2>6, <4>2, BulkRead, Zenon
        <5> HIDE DEF bulk, B, w, d
        <5>4. bulk.n = w /\ bulk.end = B + 2 + d /\ bulk.n # -1
          BY <5>1, <5>3, SMTT(30)
        <5>5. turn[x] = [rest |-> bulk.end + 2 + bulk.n + 2,
                         out |-> Append(t.out, Take(m, bulk.end + 2, bulk.n))]
          BY <2>4, <3>2, <5>4, Zenon DEF Step, bulk
        <5>6. turn[x].rest = (B + 2 + d) + 2 + w + 2 /\ turn[x].out = Append(t.out, v)
          BY <5>3, <5>4, <5>5, SMTT(30)
        <5>7. (B + 2 + d) + 2 + w + 2 = b + 4 + z + (o + (1 + d + 2 + w + 2))
          <6>1. b \in Nat /\ z \in Nat /\ o \in Nat /\ d \in Nat /\ w \in Nat
            BY <1>2, <2>3, <5>1, <5>2
          <6>2. EndsAt(b, z, o, d, w)
            BY <6>1, ElementEnds, Zenon
          <6> QED BY <6>2, Zenon DEF EndsAt, B
        <5> QED BY <5>1, <5>6, <5>7
      <4> QED BY <4>1, <4>2, SMTT(30)
    <3> DEFINE u == Append(t.out, v)
    <3>4. /\ u \in Seq(Seq(Byte)) /\ Len(u) = y + 1 /\ u[y + 1] = v
          /\ \A i \in 1 .. y : u[i] = t.out[i]
      <4>1. /\ u \in Seq(Seq(Byte)) /\ Len(u) = Len(t.out) + 1 /\ u[Len(t.out) + 1] = v
            /\ \A i \in 1 .. Len(t.out) : u[i] = t.out[i]
        <5> DEFINE q == t.out
        <5>1. q \in Seq(Seq(Byte)) /\ v \in Seq(Byte)
          BY <2>3, <3>1, Zenon
        <5> HIDE DEF q
        <5>2. /\ Append(q, v) \in Seq(Seq(Byte)) /\ Len(Append(q, v)) = Len(q) + 1
              /\ \A i \in 1 .. Len(q) : Append(q, v)[i] = q[i]
              /\ Append(q, v)[Len(q) + 1] = v
          BY <5>1, SeqAppend, ZenonT(40)
        <5> QED BY <5>2, Zenon DEF q
      <4> QED BY <3>1, <4>1, Zenon
    <3> HIDE DEF u
    <3>5. y + 1 = x /\ \A i \in 1 .. x : i \in 1 .. y \/ i = x
      BY <2>2
    <3>6. \A i \in 1 .. x : u[i] = r.elems[i]
      BY <3>1, <3>4, <3>5, Zenon DEF v
    <3> QED BY <2>3, <3>3, <3>4, <3>5, <3>6, Zenon DEF u
  <2>8. ~P(y)
    BY <2>0, <2>7, Zenon
  <2> QED BY <2>3, <2>5, <2>8, Zenon DEF T
<1>8. T \subseteq Nat
  BY <1>1
<1>9. T = {}
  <2> HIDE DEF T
  <2> QED BY <1>7, <1>8, NoDescent, Zenon
<1>10. n \in 0 .. n
  BY <1>1
<1>11. P(n)
  <2> HIDE DEF P
  <2> QED BY <1>9, <1>10
<1>12. Len(r.elems) = n
  BY DEF n
<1>13. turn[n].out = r.elems
  <2> DEFINE u == turn[n].out
             w == r.elems
  <2>1. u \in Seq(Seq(Byte)) /\ Len(u) = n /\ w \in Seq(Seq(Byte)) /\ Len(w) = n
        /\ \A i \in 1 .. n : u[i] = w[i]
    BY <1>1, <1>11, <1>12, Zenon
  <2> HIDE DEF u, w
  <2>2. u = w
    BY <2>1, SeqSame
  <2> QED BY <2>2 DEF u, w
<1> QED BY <1>13 DEF n, turn

\* The lengths of the first c elements are read, and there are as many bytes as the loop
\* counts before each of them.
Readable(m, size, b, r, enc, off, c, count) ==
    /\ r.kind = "*" /\ ArrayLays(enc, r, off) /\ c \in 0 .. Len(r.elems)
    /\ count = [n |-> Len(r.elems), end |-> b + 2 + NumSize(Len(r.elems))]
    /\ \A k \in 1 .. c :
         /\ r.elems[k] # Nil /\ 3 + off[k - 1] <= size
         /\ Strtol(m, (b + 3 + NumSize(Len(r.elems)) + off[k - 1]) + 2) =
              [n |-> Len(r.elems[k]),
               end |-> (b + 3 + NumSize(Len(r.elems)) + off[k - 1])
                         + 2 + NumSize(Len(r.elems[k]))]

\* The loop stands behind c elements and has counted all of their bytes.
StandsBehind(m, size, b, r, off, c, count) ==
    Elements(m, size, count)[c] =
      [rest |-> b + 4 + NumSize(Len(r.elems)) + off[c], len |-> 3 + off[c], rc |-> "OK"]

\* Where ngx_parse_multibulk's loop stands after c elements whose lengths it could read,
\* if none of its comparisons has ended it.
LEMMA ElementsExact ==
    ASSUME NEW m, NEW size \in Int, NEW b \in Nat, NEW r \in Replies, NEW enc, NEW off, NEW c,
           NEW count, Readable(m, size, b, r, enc, off, c, count)
    PROVE  StandsBehind(m, size, b, r, off, c, count)
<1> SUFFICES Elements(m, size, count)[c] =
               [rest |-> b + 4 + NumSize(Len(r.elems)) + off[c], len |-> 3 + off[c], rc |-> "OK"]
  BY Zenon DEF StandsBehind
<1>0. /\ r.kind = "*" /\ ArrayLays(enc, r, off) /\ c \in 0 .. Len(r.elems)
      /\ count = [n |-> Len(r.elems), end |-> b + 2 + NumSize(Len(r.elems))]
  BY Zenon DEF Readable
<1> USE <1>0
<1> DEFINE n == Len(r.elems)
           z == NumSize(n)
           turn == Elements(m, size, count)
           P(k) == turn[k] = [rest |-> b + 4 + z + off[k], len |-> 3 + off[k], rc |-> "OK"]
           T == {k \in 0 .. c : ~P(k)}
<1>1. r.elems \in Seq(Seq(Byte)) /\ n \in Nat
  BY ReplyTypes
<1>2. z \in Nat
  BY <1>1, NumSizeOf, Zenon
<1>3. count.n = n /\ count.end = b + 2 + z
  OBVIOUS
<1>4. \A k \in 0 .. n : turn[k] = IF k = 0 THEN [rest |-> count.end + 2, len |-> 3, rc |-> "OK"]
                                           ELSE Element(m, size, turn[k - 1])
  <2>1. count.n \in Nat
    BY <1>1, <1>3, Zenon
  <2>2. \A k \in 0 .. count.n :
          turn[k] = IF k = 0 THEN [rest |-> count.end + 2, len |-> 3, rc |-> "OK"]
                             ELSE Element(m, size, turn[k - 1])
    BY <2>1, ElementsDefined, SMTT(30)
  <2> QED BY <1>3, <2>2, Zenon
<1>5. off[0] = 0
  BY Zenon DEF ArrayLays
<1>6. ASSUME NEW k \in 1 .. c
      PROVE  /\ k - 1 \in 0 .. c /\ k \in 1 .. n /\ off[k - 1] \in Nat /\ r.elems[k] \in Seq(Byte)
             /\ r.elems[k] # Nil /\ off[k] = off[k - 1] + Len(Bulk(r.elems[k]))
  <2>1. k - 1 \in 0 .. c /\ k \in 1 .. n
    BY <1>1
  <2> QED BY <2>1, Offsets, Zenon DEF Readable
<1> HIDE DEF turn
<1>7. ASSUME NEW x \in T PROVE \E y \in T : y < x
  <2>0. x \in 0 .. c /\ ~P(x)
    BY Zenon
  <2> HIDE DEF T
  <2>1. x # 0
    <3> SUFFICES ASSUME x = 0 PROVE P(0)
      BY <2>0
    <3>1. 0 \in 0 .. n
      BY <1>1
    <3>2. turn[0] = [rest |-> (b + 2 + z) + 2, len |-> 3, rc |-> "OK"]
      BY <1>3, <1>4, <3>1, Zenon
    <3> HIDE DEF z
    <3>3. (b + 2 + z) + 2 = b + 4 + z + 0 /\ 3 = 3 + 0
      BY <1>2
    <3> QED BY <1>5, <3>2, <3>3, Zenon
  <2>2. x \in 1 .. c /\ x \in 0 .. n
    BY <1>1, <2>0, <2>1
  <2> DEFINE y == x - 1
             o == off[y]
             v == r.elems[x]
             w == Len(v)
             d == NumSize(w)
             B == b + 3 + z + o
             t == turn[y]
             bulk == Strtol(m, t.rest + 1)
  <2>3. /\ y \in 0 .. c /\ o \in Nat /\ off[x] = o + Len(Bulk(v)) /\ v \in Seq(Byte) /\ v # Nil
        /\ 3 + o <= size /\ Strtol(m, B + 2) = [n |-> w, end |-> B + 2 + d]
    BY <1>6, <2>2, Zenon DEF Readable
  <2>4. turn[x] = Element(m, size, t)
    BY <1>4, <2>1, <2>2, Zenon
  <2>5. w \in Nat /\ Len(Bulk(v)) = 1 + d + 2 + w + 2
    BY <2>3, BulkLays, Zenon
  <2>6. d \in Nat
    BY <2>5, NumSizeOf, Zenon
  <2>7. y < x
    BY <2>2
  <2> HIDE DEF z, o, v, w, d, t, bulk
  <2>8. P(y) => P(x)
    <3> SUFFICES ASSUME P(y) PROVE P(x)
      OBVIOUS
    <3>1. t = [rest |-> b + 4 + z + o, len |-> 3 + o, rc |-> "OK"]
      BY Zenon DEF t, o
    <3>2. t.rest = b + 4 + z + o /\ t.len = 3 + o /\ t.rc = "OK"
      BY <3>1, SMTT(30)
    <3>3. (b + 4 + z + o) + 1 = B + 2
      BY <1>2, <2>3, SMTT(60)
    <3>4. bulk = [n |-> w, end |-> B + 2 + d]
      BY <2>3, <3>2, <3>3, Zenon DEF bulk
    <3> HIDE DEF B
    <3>5. bulk.n = w /\ bulk.end = B + 2 + d /\ bulk.n # -1
      BY <2>5, <3>4
    <3>6. ~(t.len > size)
      BY <2>3, <3>2
    <3>7. Element(m, size, t) = [t EXCEPT !.rest = bulk.end + 2 + bulk.n + 2,
                                          !.len = @ + 1 + NumSize(bulk.n) + 2 + bulk.n + 2]
      BY <3>5, <3>6, Zenon DEF Element, bulk
    <3>8. turn[x] = [rest |-> (B + 2 + d) + 2 + w + 2,
                     len |-> (3 + o) + 1 + d + 2 + w + 2, rc |-> "OK"]
      BY <2>4, <3>1, <3>5, <3>7, ZenonT(40) DEF d
    <3>10. /\ (B + 2 + d) + 2 + w + 2 = b + 4 + z + off[x]
           /\ (3 + o) + 1 + d + 2 + w + 2 = 3 + off[x]
      <4>1. b \in Nat /\ z \in Nat /\ o \in Nat /\ d \in Nat /\ w \in Nat
        BY <1>2, <2>3, <2>5, <2>6
      <4>2. off[x] = o + (1 + d + 2 + w + 2)
        BY <2>3, <2>5, Zenon
      <4> QED BY <4>1, <4>2, SMTT(30) DEF B
    <3> QED BY <3>8, <3>10, Zenon
  <2>9. ~P(y)
    BY <2>0, <2>8, Zenon
  <2> QED BY <2>3, <2>7, <2>9, Zenon DEF T
<1>8. T \subseteq Nat
  BY <1>1
<1>9. T = {}
  <2> HIDE DEF T
  <2> QED BY <1>7, <1>8, NoDescent, Zenon
<1>10. c \in 0 .. c
  BY <1>1
<1>11. P(c)
  <2> HIDE DEF P
  <2> QED BY <1>9, <1>10
<1> QED BY <1>11, Zenon DEF turn

\* One turn of the loop that ends neither it nor meets a null element.
LEMMA ElementCounts ==
    ASSUME NEW m, NEW size \in Int, NEW x, NEW y \in Int, NEW w \in Nat, NEW e, y <= size,
           Strtol(m, x + 1) = [n |-> w, end |-> e]
    PROVE  Element(m, size, [rest |-> x, len |-> y, rc |-> "OK"]) =
             [rest |-> e + 2 + w + 2, len |-> y + 1 + NumSize(w) + 2 + w + 2, rc |-> "OK"]
<1> DEFINE s == [rest |-> x, len |-> y, rc |-> "OK"]
           bulk == Strtol(m, s.rest + 1)
<1>1. s.rest = x /\ s.len = y /\ s.rc = "OK"
  OBVIOUS
<1>2. bulk = [n |-> w, end |-> e]
  BY <1>1, Zenon
<1> HIDE DEF bulk
<1>3. bulk.n = w /\ bulk.end = e /\ bulk.n # -1
  BY <1>2
<1>4. ~(s.len > size)
  BY <1>1
<1>5. Element(m, size, s) = [s EXCEPT !.rest = bulk.end + 2 + bulk.n + 2,
                                      !.len = @ + 1 + NumSize(bulk.n) + 2 + bulk.n + 2]
  <2> HIDE DEF s
  <2> QED BY <1>3, <1>4, Zenon DEF Element, bulk
<1> QED BY <1>3, <1>5, Zenon

\* Once the length is too large the loop ends, and it stays ended.
LEMMA ElementsStuck ==
    ASSUME NEW m, NEW size \in Int, NEW count, count.n \in Nat, NEW j \in 0 .. count.n,
           NEW x, NEW y \in Int, NEW rc, y > size,
           Elements(m, size, count)[j] = [rest |-> x, len |-> y, rc |-> rc]
    PROVE  \A k \in j + 1 .. count.n : Elements(m, size, count)[k].rc = "AGAIN"
<1> DEFINE n == count.n
           turn == Elements(m, size, count)
           P(k) == turn[k] = [rest |-> x, len |-> y, rc |-> "AGAIN"]
           T == {k \in j + 1 .. n : ~P(k)}
<1>1. \A k \in 0 .. n : turn[k] = IF k = 0 THEN [rest |-> count.end + 2, len |-> 3, rc |-> "OK"]
                                           ELSE Element(m, size, turn[k - 1])
  BY ElementsDefined, SMTT(30)
<1>2. n \in Nat
  OBVIOUS
<1>3. ASSUME NEW c PROVE Element(m, size, [rest |-> x, len |-> y, rc |-> c]) =
                           [rest |-> x, len |-> y, rc |-> "AGAIN"]
  BY DEF Element
<1> HIDE DEF turn, n
<1>4. turn[j] = [rest |-> x, len |-> y, rc |-> rc]
  BY Zenon DEF turn
<1>5. ASSUME NEW k \in T PROVE \E i \in T : i < k
  <2>1. k \in j + 1 .. n /\ ~P(k)
    OBVIOUS
  <2> HIDE DEF T
  <2>2. j \in Nat /\ k \in 0 .. n /\ k # 0 /\ (k = j + 1 \/ k - 1 \in j + 1 .. n) /\ k - 1 < k
        /\ (k = j + 1 => k - 1 = j)
    BY <1>2, <2>1
  <2>3. turn[k] = Element(m, size, turn[k - 1])
    BY <1>1, <2>2, Zenon
  <2>4. k # j + 1
    <3> SUFFICES ASSUME k = j + 1 PROVE FALSE
      OBVIOUS
    <3>1. turn[k] = Element(m, size, [rest |-> x, len |-> y, rc |-> rc])
      BY <1>4, <2>2, <2>3, Zenon
    <3> QED BY <1>3, <2>1, <3>1, Zenon
  <2>5. ~P(k - 1)
    <3> SUFFICES ASSUME P(k - 1) PROVE FALSE
      OBVIOUS
    <3>1. turn[k] = Element(m, size, [rest |-> x, len |-> y, rc |-> "AGAIN"])
      BY <2>3, Zenon
    <3> QED BY <1>3, <2>1, <3>1, Zenon
  <2> QED BY <2>2, <2>4, <2>5, Zenon DEF T
<1>6. T \subseteq Nat
  BY <1>2
<1>7. T = {}
  <2> HIDE DEF T
  <2> QED BY <1>5, <1>6, NoDescent, Zenon
<1>8. \A k \in j + 1 .. n : P(k)
  <2> HIDE DEF P
  <2> QED BY <1>7
<1>9. \A k \in j + 1 .. n : turn[k].rc = "AGAIN"
  BY <1>8
<1> QED BY <1>9, Zenon DEF turn, n

\* A number below 10000 has at most four digits, one below 10 has one.
LEMMA FourDigits ==
    ASSUME NEW n \in Nat
    PROVE  (n < 10000 => NumSize(n) <= 4) /\ (n < 10 => NumSize(n) = 1)
<1>0. \A i \in Nat : /\ i \div 10 \in Nat
                    /\ (i < 100 => i \div 10 < 10) /\ (i < 1000 => i \div 10 < 100)
                    /\ (i < 10000 => i \div 10 < 1000)
  BY SMTT(30)
<1>1. ASSUME NEW i \in Nat PROVE i < 10 => NumSize(i) = 1
  <2> SUFFICES ASSUME i < 10 PROVE NumSize(i) = 1
    OBVIOUS
  <2>1. Decimal(i) = <<Digit[i + 1]>>
    BY DecimalIs
  <2>2. Len(Decimal(i)) = 1
    BY <2>1
  <2> QED BY <2>2, NumSizeIs, Zenon
<1>2. ASSUME NEW i \in Nat PROVE i >= 10 => /\ i \div 10 \in Nat /\ NumSize(i \div 10) \in Nat
                                            /\ NumSize(i) = NumSize(i \div 10) + 1
  <2> SUFFICES ASSUME i >= 10
               PROVE  /\ i \div 10 \in Nat /\ NumSize(i \div 10) \in Nat
                      /\ NumSize(i) = NumSize(i \div 10) + 1
    OBVIOUS
  <2>1. PICK y \in Nat : y = i \div 10 /\ Len(Decimal(i)) = Len(Decimal(y)) + 1
    BY LastDigit, Zenon
  <2>2. NumSize(i) = NumSize(y) + 1 /\ NumSize(y) \in Nat
    BY <2>1, NumSizeOf, Zenon
  <2> QED BY <2>1, <2>2, Zenon
<1>3. ASSUME NEW i \in Nat, i < 100 PROVE NumSize(i) <= 2
  <2>1. i \div 10 < 10
    BY <1>0, <1>3
  <2>2. CASE i < 10
    BY <1>1, <2>2
  <2>3. CASE i >= 10
    <3>1. NumSize(i \div 10) = 1 /\ NumSize(i) = NumSize(i \div 10) + 1
      BY <1>1, <1>2, <2>1, <2>3
    <3> QED BY <3>1
  <2> QED BY <2>2, <2>3
<1>4. ASSUME NEW i \in Nat, i < 1000 PROVE NumSize(i) <= 3
  <2>1. i \div 10 < 100
    BY <1>0, <1>4
  <2>2. CASE i < 10
    BY <1>1, <2>2
  <2>3. CASE i >= 10
    <3>1. NumSize(i \div 10) <= 2 /\ NumSize(i) = NumSize(i \div 10) + 1 /\ NumSize(i \div 10) \in Nat
      BY <1>2, <1>3, <2>1, <2>3
    <3> QED BY <3>1
  <2> QED BY <2>2, <2>3
<1>5. n < 10000 => NumSize(n) <= 4
  <2> SUFFICES ASSUME n < 10000 PROVE NumSize(n) <= 4
    OBVIOUS
  <2>1. n \div 10 < 1000
    BY <1>0
  <2>2. CASE n < 10
    BY <1>1, <2>2
  <2>3. CASE n >= 10
    <3>1. NumSize(n \div 10) <= 3 /\ NumSize(n) = NumSize(n \div 10) + 1 /\ NumSize(n \div 10) \in Nat
      BY <1>2, <1>4, <2>1, <2>3
    <3> QED BY <3>1
  <2> QED BY <2>2, <2>3
<1> QED BY <1>1, <1>5

\* The digits of the length w and the CR behind them, for an element at position a.
LengthAt(enc, a, w) ==
    /\ enc[a + (2 + NumSize(w))] = "CR"
    /\ \A i \in 1 .. NumSize(w) : enc[a + (1 + i)] = Decimal(w)[i]

\* Where element k of an array stands, and the digits of its length.
LEMMA ElementLays ==
    ASSUME NEW r \in Replies, r.kind = "*", NEW enc, NEW off, ArrayLays(enc, r, off),
           NEW k \in 1 .. Len(r.elems), r.elems[k] # Nil
    PROVE  LET a == 3 + NumSize(Len(r.elems)) + off[k - 1]
               w == Len(r.elems[k])
               d == NumSize(w)
           IN  /\ a \in Nat /\ w \in Nat /\ d \in Nat /\ d >= 1
               /\ off[k] = off[k - 1] + 5 + d + w /\ off[k - 1] \in Nat /\ off[k] \in Nat
               /\ LengthAt(enc, a, w)
<1> DEFINE v == r.elems[k]
           w == Len(v)
           d == NumSize(w)
           N == NumSize(Len(r.elems))
           o == off[k - 1]
           x == Bulk(v)
           lx == Len(x)
           a == 3 + N + o
<1>1. v \in Seq(Byte) /\ o \in Nat /\ off[k] \in Nat /\ off[k] = o + lx
  BY Offsets, Zenon
<1>2. w \in Nat /\ Heads(x, "$", w) /\ lx = 1 + d + 2 + w + 2
  BY <1>1, BulkLays, Zenon
<1>3. d \in Nat /\ d >= 1
  BY <1>2, NumSizeOf, Zenon
<1>4. r.elems \in Seq(Seq(Byte)) /\ Len(r.elems) \in Nat
  BY ReplyTypes
<1>5. N \in Nat
  BY <1>4, NumSizeOf, Zenon
<1>6. x[2 + d] = "CR" /\ \A i \in 1 .. d : x[1 + i] = Decimal(w)[i]
  BY <1>2, Zenon DEF Heads
<1>7. \A i \in 1 .. lx : enc[a + i] = x[i]
  BY Zenon DEF ArrayLays
<1> HIDE DEF v, w, d, N, o, x, lx
<1>8. a \in Nat
  BY <1>1, <1>5
<1> HIDE DEF a
<1>9. 2 + d \in 1 .. lx /\ \A i \in 1 .. d : 1 + i \in 1 .. lx
  BY <1>2, <1>3
<1>10. enc[a + (2 + d)] = "CR" /\ \A i \in 1 .. d : enc[a + (1 + i)] = Decimal(w)[i]
  BY <1>6, <1>7, <1>9, Zenon
<1>11. off[k] = o + 5 + d + w
  <2>1. o + lx = o + 5 + d + w
    BY <1>1, <1>2, <1>3
  <2> QED BY <1>1, <2>1, Zenon
<1>12. LengthAt(enc, a, w)
  BY <1>10, Zenon DEF LengthAt, d
<1> QED BY <1>1, <1>2, <1>3, <1>8, <1>11, <1>12, Zenon DEF v, w, d, N, o, a

\* The digits of q are the first digits of w.
Starts(q, w) == /\ NumSize(q) <= NumSize(w)
                /\ \A i \in 1 .. NumSize(q) : Decimal(q)[i] = Decimal(w)[i]

\* The digits of a length that have arrived are read, if no other follows in the memory.
LEMMA LengthRead ==
    ASSUME NEW m \in Seq(Byte), NEW b \in Nat, NEW a \in Nat, NEW enc, NEW w \in Nat,
           LengthAt(enc, a, w), NEW q \in Nat, Starts(q, w),
           Sees(m, b, enc, a + (1 + NumSize(q))), ~IsDigit(At(m, ((b + a) + 2) + NumSize(q)))
    PROVE  Strtol(m, (b + a) + 2) = [n |-> q, end |-> ((b + a) + 2) + NumSize(q)]
<1> DEFINE e == NumSize(q)
           d == NumSize(w)
<1>1. Len(Decimal(q)) = e /\ e \in Nat /\ d \in Nat
  BY NumSizeOf, Zenon
<1>0. e <= d /\ \A i \in 1 .. e : Decimal(q)[i] = Decimal(w)[i]
  BY Zenon DEF Starts
<1>2. \A i \in 1 .. a + (1 + e) : At(m, b + i) = enc[i]
  BY Zenon DEF Sees
<1> HIDE DEF e
<1>3. \A i \in 1 .. d : enc[a + (1 + i)] = Decimal(w)[i]
  BY Zenon DEF LengthAt
<1>4. \A i \in 1 .. e : At(m, ((b + a) + 2) + i - 1) = Decimal(q)[i]
  <2>1. \A i \in 1 .. e : /\ i \in 1 .. d /\ a + (1 + i) \in 1 .. a + (1 + e)
                          /\ b + (a + (1 + i)) = ((b + a) + 2) + i - 1
    BY <1>0, <1>1, SMTT(30)
  <2> QED BY <1>0, <1>2, <1>3, <2>1, Zenon
<1>5. Holds(m, (b + a) + 2, Decimal(q))
  BY <1>1, <1>4, Zenon DEF Holds
<1>6. (b + a) + 2 \in Nat \ {0}
  OBVIOUS
<1> QED BY <1>1, <1>5, <1>6, StrtolReads, ZenonT(40) DEF e

\* Zeroed memory behind position e.
Zeroed(m, e) == \A i \in Nat : i > e => At(m, i) = "NUL"

\* A length all of whose digits have arrived, with its CR or zeroed memory behind them.
LEMMA LengthSeen ==
    ASSUME NEW m \in Seq(Byte), NEW b \in Nat, NEW a \in Nat, NEW enc, NEW w \in Nat,
           LengthAt(enc, a, w), NEW size \in Nat, Sees(m, b, enc, size),
           \/ size >= a + (2 + NumSize(w))
           \/ size >= a + (1 + NumSize(w)) /\ Zeroed(m, b + size)
    PROVE  Strtol(m, (b + a) + 2) = [n |-> w, end |-> ((b + a) + 2) + NumSize(w)]
<1> DEFINE d == NumSize(w)
<1>1. \A i \in 1 .. size : At(m, b + i) = enc[i]
  BY Zenon DEF Sees
<1>2. d \in Nat /\ enc[a + (2 + d)] = "CR"
  BY NumSizeOf, Zenon DEF LengthAt
<1>3. size >= a + (2 + d) \/ (size >= a + (1 + d) /\ Zeroed(m, b + size))
  OBVIOUS
<1> HIDE DEF d
<1>4. ~IsDigit(At(m, ((b + a) + 2) + d))
  <2>1. CASE size >= a + (2 + d)
    <3>1. a + (2 + d) \in 1 .. size /\ b + (a + (2 + d)) = ((b + a) + 2) + d
      BY <1>2, <2>1
    <3> QED BY <1>1, <1>2, <3>1, Bytes, Zenon
  <2>2. CASE ~(size >= a + (2 + d))
    <3>1. ((b + a) + 2) + d \in Nat /\ ((b + a) + 2) + d > b + size
      BY <1>2, <2>2
    <3> QED BY <1>3, <2>2, <3>1, Bytes, Zenon DEF Zeroed
  <2> QED BY <2>1, <2>2
<1>5. \A i \in 1 .. a + (1 + d) : i \in 1 .. size
  BY <1>2, <1>3
<1>6. Sees(m, b, enc, a + (1 + d))
  BY <1>1, <1>5, Zenon DEF Sees
<1>7. Starts(w, w)
  <2>1. d <= d
    BY <1>2
  <2> QED BY <2>1, Zenon DEF Starts, d
<1> QED BY <1>4, <1>6, <1>7, LengthRead, SMTT(30) DEF d

\* A turn from s leaves the loop with a length that is too large.
Overshoots(m, size, s) ==
    \E x, y \in Int : y > size /\ Element(m, size, s) = [rest |-> x, len |-> y, rc |-> "OK"]

\* The element of length w behind offset o has not arrived, and the memory is zeroed.
CutAt(m, b, size, enc, z, o, w) ==
    /\ z <= 4 /\ LengthAt(enc, 3 + z + o, w) /\ Sees(m, b, enc, size) /\ Zeroed(m, b + size)
    /\ 3 + o <= size /\ size < 3 + (o + 5 + NumSize(w) + w)

\* A turn at an element that has not arrived counts more bytes than there are, if the
\* memory behind them is zeroed: it reads the length, its first digits or a zero, and the
\* uncounted digits of the count do not outweigh the rest.
LEMMA CutElement ==
    ASSUME NEW m \in Seq(Byte), NEW b \in Nat, NEW size \in Nat, NEW enc,
           NEW z \in Nat, NEW o \in Nat, NEW w \in Nat, CutAt(m, b, size, enc, z, o, w)
    PROVE  Overshoots(m, size, [rest |-> b + 4 + z + o, len |-> 3 + o, rc |-> "OK"])
<1> DEFINE a == 3 + z + o
           d == NumSize(w)
<1>2. /\ z <= 4 /\ LengthAt(enc, a, w) /\ Sees(m, b, enc, size) /\ Zeroed(m, b + size)
      /\ 3 + o <= size /\ size < 3 + (o + 5 + d + w)
  BY Zenon DEF CutAt
<1>3. a \in Nat /\ a = 3 + z + o /\ d \in Nat /\ d = NumSize(w)
  <2>1. d \in Nat
    BY NumSizeOf, Zenon
  <2> QED BY <2>1
<1> HIDE DEF a, d
<1>9. /\ a \in Nat /\ d \in Nat /\ z \in Nat /\ o \in Nat /\ w \in Nat /\ size \in Nat /\ z <= 4
      /\ a = 3 + z + o /\ 3 + o <= size /\ size < 3 + (o + 5 + d + w)
  BY <1>2, <1>3, Zenon
<1> DEFINE Y(n, e) == (3 + o) + 1 + e + 2 + n + 2
           R(n, e) == /\ Strtol(m, (b + a) + 2) = [n |-> n, end |-> ((b + a) + 2) + e]
                      /\ Y(n, NumSize(n)) \in Int /\ Y(n, NumSize(n)) > size
<1>1. \E n \in Nat, e \in Nat : R(n, e)
  <2>1. CASE size >= a + (1 + d)
    <3>1. Strtol(m, (b + a) + 2) = [n |-> w, end |-> ((b + a) + 2) + d]
      BY <1>2, <1>3, <2>1, LengthSeen, SMTT(60)
    <3>2. Y(w, d) \in Int /\ Y(w, d) > size
      BY <1>9, SMTT(30)
    <3> HIDE DEF Y
    <3>3. R(w, d)
      BY <1>2, <1>3, <3>1, <3>2, Zenon
    <3> QED BY <1>3, <3>3, Zenon
  <2>2. CASE size < a + 2
    <3>1. (b + a) + 2 \in Nat \ {0} /\ (b + a) + 2 > b + size /\ (b + a) + 2 \in Nat /\ 0 \in Nat
          /\ ((b + a) + 2) + 0 = (b + a) + 2
      BY <1>2, <1>3, <2>2
    <3>2. At(m, (b + a) + 2) = "NUL"
      BY <1>2, <1>3, <3>1, Zenon DEF Zeroed
    <3>3. Strtol(m, (b + a) + 2) = [n |-> 0, end |-> (b + a) + 2]
      BY <1>2, <1>3, <3>1, <3>2, StrtolNone, Zenon
    <3>4. NumSize(0) = 1
      BY <1>2, <1>3, <3>1, NumSizeOf, Zenon
    <3>5. Y(0, 1) \in Int /\ Y(0, 1) > size
      BY <1>2, <1>3, <2>2
    <3> HIDE DEF Y
    <3>6. R(0, 0)
      BY <1>2, <1>3, <3>1, <3>3, <3>4, <3>5, Zenon
    <3> QED BY <3>1, <3>6, Zenon
  <2>3. CASE size >= a + 2 /\ size < a + (1 + d)
    <3> DEFINE e == size - (a + 1)
    <3>1. e \in 1 .. d /\ e <= d /\ e \in Nat /\ size = a + (1 + e) /\ d > 1
          /\ ((b + a) + 2) + e \in Nat /\ ((b + a) + 2) + e > b + size
      BY <1>9, <2>3, SMTT(30)
    <3> HIDE DEF e
    <3>2. Len(Decimal(w)) = d
      BY <1>2, <1>3, NumSizeOf, Zenon
    <3>3. w > 0
      <4>1. w < 10 => d = 1
        BY <1>2, <1>3, FourDigits
      <4> QED BY <3>1, <4>1
    <3>4. PICK q \in Nat : /\ Len(Decimal(q)) = e /\ q > 0
                           /\ \A i \in 1 .. e : Decimal(q)[i] = Decimal(w)[i]
      BY <1>2, <1>3, <3>1, <3>2, <3>3, DecimalPrefix, Zenon
    <3>5. NumSize(q) = e
      BY <1>2, <1>3, <3>4, NumSizeOf, Zenon
    <3>6. Starts(q, w)
      BY <1>2, <1>3, <3>1, <3>4, <3>5, Zenon DEF Starts
    <3>7. ~IsDigit(At(m, ((b + a) + 2) + e))
      BY <1>2, <1>3, <3>1, Bytes, Zenon DEF Zeroed
    <3>8. Sees(m, b, enc, a + (1 + e))
      BY <1>2, <1>3, <3>1, Zenon
    <3>9. Strtol(m, (b + a) + 2) = [n |-> q, end |-> ((b + a) + 2) + NumSize(q)]
      BY <1>2, <1>3, <3>5, <3>6, <3>7, <3>8, LengthRead, SMTT(60)
    <3>10. Y(q, e) \in Int /\ Y(q, e) > size
      BY <1>2, <1>3, <3>1, <3>4
    <3> HIDE DEF Y
    <3>11. R(q, e)
      BY <1>2, <1>3, <3>5, <3>9, <3>10, Zenon
    <3> QED BY <3>1, <3>11, Zenon
  <2>4. size >= a + (1 + d) \/ size < a + 2 \/ (size >= a + 2 /\ size < a + (1 + d))
    BY <1>2, <1>3, SMTT(60)
  <2> QED BY <2>1, <2>2, <2>3, <2>4, Zenon
<1>4. PICK n \in Nat, e \in Nat : R(n, e)
  BY <1>1, Zenon
<1> DEFINE x == b + 4 + z + o
           y == 3 + o
           f == ((b + a) + 2) + e
<1>5. x + 1 = (b + a) + 2 /\ y \in Int /\ size \in Int /\ f + 2 + n + 2 \in Int /\ y <= size
  BY <1>2, <1>3
<1>6. Strtol(m, x + 1) = [n |-> n, end |-> f]
  BY <1>4, <1>5, Zenon
<1>7. y + 1 + NumSize(n) + 2 + n + 2 \in Int /\ y + 1 + NumSize(n) + 2 + n + 2 > size
  BY <1>4, Zenon
<1> HIDE DEF x, y, f
<1>8. Element(m, size, [rest |-> x, len |-> y, rc |-> "OK"]) =
        [rest |-> f + 2 + n + 2, len |-> y + 1 + NumSize(n) + 2 + n + 2, rc |-> "OK"]
  BY <1>5, <1>6, ElementCounts, SMTT(30)
<1> QED BY <1>5, <1>7, <1>8, Zenon DEF Overshoots, x, y

\* An array without null elements is taken when size bytes of it are there.
TakenEarly(m, b, size, r, enc, off, n, z, count) ==
    /\ r.kind = "*" /\ n = Len(r.elems) /\ z = NumSize(n) /\ ArrayLays(enc, r, off)
    /\ \A k \in 1 .. n : r.elems[k] # Nil
    /\ Sees(m, b, enc, size) /\ Zeroed(m, b + size) /\ size >= 2 + z
    /\ count = [n |-> n, end |-> b + 2 + z] /\ Elements(m, size, count)[n].rc = "OK"

\* If an element of w bytes, its length of d digits, o bytes behind the count of z digits,
\* is within the size bytes by the loop's count, then its length has arrived.
LengthFits(b, size, z, o, d, w) ==
    /\ 3 + (o + 5 + d + w) <= size => size >= (3 + z + o) + (1 + d)
    /\ b + (3 + z + o) = b + 3 + z + o

\* The loop counts one digit for the count of the elements, but three bytes more for each
\* element than its length takes: a count of at most four digits is made up for.
LEMMA LengthHasArrived ==
    ASSUME NEW b \in Nat, NEW size \in Nat, NEW z \in Nat, z <= 4, NEW o \in Nat,
           NEW d \in Nat, NEW w \in Nat
    PROVE  LengthFits(b, size, z, o, d, w)
BY DEF LengthFits

\* An array that is taken has arrived up to its last element, if the memory behind it is
\* zeroed: had an earlier element not arrived, the turn at it would have counted too much
\* and the turn after it would have ended the loop.
LEMMA EarlyCount ==
    ASSUME NEW m \in Seq(Byte), NEW b \in Nat, NEW size \in Nat, NEW r \in Replies, NEW enc,
           NEW off, NEW n \in Nat, n >= 1, NEW z, z <= 4, NEW count,
           TakenEarly(m, b, size, r, enc, off, n, z, count)
    PROVE  3 + off[n - 1] <= size
<1> DEFINE turn == Elements(m, size, count)
           T == {k \in 1 .. n - 1 : size < 3 + off[k]}
<1>0. n \in Nat /\ n >= 1
  OBVIOUS
<1>1. /\ r.kind = "*" /\ n = Len(r.elems) /\ ArrayLays(enc, r, off)
      /\ \A k \in 1 .. n : r.elems[k] # Nil
  BY Zenon DEF TakenEarly
<1>2. z \in Nat /\ z >= 1 /\ z <= 4 /\ z = NumSize(n)
  BY NumSizeOf, Zenon DEF TakenEarly
<1>3. size >= 2 + z /\ off[0] = 0 /\ turn[n].rc = "OK"
  BY Zenon DEF TakenEarly, ArrayLays
<1>14. count = [n |-> n, end |-> b + 2 + z] /\ Sees(m, b, enc, size) /\ Zeroed(m, b + size)
  BY Zenon DEF TakenEarly
<1>15. count.n = n
  BY <1>14
<1>4. ASSUME NEW k \in 1 .. n
      PROVE  LET a == 3 + z + off[k - 1]
                 w == Len(r.elems[k])
                 d == NumSize(w)
             IN  /\ a \in Nat /\ w \in Nat /\ d \in Nat /\ d >= 1
                 /\ off[k] = off[k - 1] + 5 + d + w /\ off[k - 1] \in Nat /\ off[k] \in Nat
                 /\ LengthAt(enc, a, w)
  BY <1>1, <1>2, ElementLays, Zenon
<1> SUFFICES ASSUME ~(3 + off[n - 1] <= size) PROVE FALSE
  OBVIOUS
<1> HIDE DEF turn
<1>5. n - 1 \in T
  <2>1. n - 1 # 0
    <3> SUFFICES ASSUME n - 1 = 0 PROVE FALSE
      OBVIOUS
    <3>1. off[n - 1] = 0
      BY <1>3, Zenon
    <3> QED BY <1>2, <1>3, <3>1
  <2>2. n - 1 \in 1 .. n - 1 /\ n - 1 \in 1 .. n /\ n \in 1 .. n
    BY <1>0, <2>1
  <2>3. off[n - 1] \in Nat
    BY <1>4, <2>2, Zenon
  <2> QED BY <2>2, <2>3
<1>6. PICK k \in T : \A j \in T : ~(j < k)
  <2>1. T \subseteq Nat
    BY <1>0
  <2> HIDE DEF T
  <2> QED BY <1>5, <2>1, NoDescent, Zenon
<1>7. k \in 1 .. n - 1 /\ k \in 1 .. n /\ size < 3 + off[k]
  BY <1>0, <1>6
<1> HIDE DEF T
<1>8. ASSUME NEW j \in 0 .. k - 1 PROVE 3 + off[j] <= size
  <2>1. CASE j = 0
    BY <1>2, <1>3, <2>1
  <2>2. CASE j # 0
    <3>1. j \in 1 .. n - 1 /\ j \in 1 .. n /\ j < k
      BY <1>0, <1>7, <2>2
    <3>2. off[j] \in Nat
      BY <1>4, <3>1, Zenon
    <3>3. ~(size < 3 + off[j])
      BY <1>6, <3>1, Zenon DEF T
    <3> QED BY <3>2, <3>3
  <2> QED BY <2>1, <2>2
<1>9. \A j \in 1 .. k - 1 :
        /\ r.elems[j] # Nil /\ 3 + off[j - 1] <= size
        /\ Strtol(m, (b + 3 + z + off[j - 1]) + 2) =
             [n |-> Len(r.elems[j]),
              end |-> (b + 3 + z + off[j - 1]) + 2 + NumSize(Len(r.elems[j]))]
  <2> TAKE j \in 1 .. k - 1
  <2> DEFINE o == off[j - 1]
             a == 3 + z + o
             w == Len(r.elems[j])
             d == NumSize(w)
  <2>1. j \in 1 .. n /\ j \in 0 .. k - 1 /\ j - 1 \in 0 .. k - 1
    BY <1>0, <1>7
  <2>2. /\ a \in Nat /\ w \in Nat /\ d \in Nat /\ off[j] = o + 5 + d + w /\ o \in Nat
        /\ LengthAt(enc, a, w)
    BY <1>4, <2>1, Zenon
  <2>3. 3 + off[j] <= size /\ 3 + o <= size /\ r.elems[j] # Nil
    BY <1>1, <1>8, <2>1, Zenon
  <2> HIDE DEF o, w, d
  <2>4. size >= a + (1 + d) /\ b + a = b + 3 + z + o
    <3>1. 3 + (o + 5 + d + w) <= size
      BY <2>2, <2>3, Zenon
    <3>2. LengthFits(b, size, z, o, d, w)
      BY <1>2, <2>2, LengthHasArrived, Zenon
    <3> QED BY <3>1, <3>2, Zenon DEF LengthFits
  <2> HIDE DEF a
  <2>5. Strtol(m, (b + a) + 2) = [n |-> w, end |-> ((b + a) + 2) + d]
    BY <1>14, <2>2, <2>4, LengthSeen, SMTT(60) DEF d
  <2> QED BY <2>3, <2>4, <2>5, Zenon DEF o, w, d
<1>10. turn[k - 1] = [rest |-> b + 4 + z + off[k - 1], len |-> 3 + off[k - 1], rc |-> "OK"]
  <2>1. k - 1 \in 0 .. n /\ size \in Int
    BY <1>0, <1>7
  <2> DEFINE l == Len(r.elems)
  <2>3. l = n /\ z = NumSize(l)
    BY <1>1, <1>2, Zenon
  <2>4. k - 1 \in 0 .. l /\ count = [n |-> l, end |-> b + 2 + NumSize(l)]
    BY <1>14, <2>1, <2>3, ZenonT(40)
  <2>5. turn[k - 1] = [rest |-> b + 4 + NumSize(l) + off[k - 1], len |-> 3 + off[k - 1], rc |-> "OK"]
    <3>1. Readable(m, size, b, r, enc, off, k - 1, count)
      BY <1>1, <1>9, <2>3, <2>4, Zenon DEF Readable
    <3>2. StandsBehind(m, size, b, r, off, k - 1, count)
      BY <2>1, <3>1, ElementsExact, Zenon
    <3> QED BY <3>2, Zenon DEF StandsBehind, turn
  <2> QED BY <2>3, <2>5, Zenon
<1>11. turn[k] = Element(m, size, turn[k - 1])
  <2>1. count.n \in Nat
    BY <1>0, <1>15, ZenonT(40)
  <2>2. \A i \in 0 .. count.n :
          turn[i] = IF i = 0 THEN [rest |-> count.end + 2, len |-> 3, rc |-> "OK"]
                             ELSE Element(m, size, turn[i - 1])
    BY <2>1, ElementsDefined, SMTT(30) DEF turn
  <2>3. k \in 0 .. n /\ k # 0
    BY <1>0, <1>7
  <2> QED BY <1>15, <2>2, <2>3, Zenon
<1>12. PICK x \in Int, y \in Int : y > size /\ turn[k] = [rest |-> x, len |-> y, rc |-> "OK"]
  <2> DEFINE o == off[k - 1]
             a == 3 + z + o
             w == Len(r.elems[k])
             d == NumSize(w)
  <2>1. /\ a \in Nat /\ w \in Nat /\ d \in Nat /\ off[k] = o + 5 + d + w /\ o \in Nat
        /\ LengthAt(enc, a, w)
    BY <1>4, <1>7, Zenon
  <2>2. k - 1 \in 0 .. k - 1
    BY <1>7
  <2>3. 3 + o <= size /\ size < 3 + (o + 5 + d + w)
    BY <1>7, <1>8, <2>1, <2>2, Zenon
  <2>4. turn[k] = Element(m, size, [rest |-> b + 4 + z + o, len |-> 3 + o, rc |-> "OK"])
    BY <1>10, <1>11, Zenon
  <2>5. CutAt(m, b, size, enc, z, o, w)
    BY <1>2, <1>14, <2>1, <2>3, Zenon DEF CutAt
  <2> HIDE DEF o, a, w, d
  <2>6. Overshoots(m, size, [rest |-> b + 4 + z + o, len |-> 3 + o, rc |-> "OK"])
    BY <1>2, <2>1, <2>5, CutElement, SMTT(30)
  <2> QED BY <2>4, <2>6, Zenon DEF Overshoots
<1>13. turn[n].rc = "AGAIN"
  <2>1. count.n \in Nat /\ k \in 0 .. count.n /\ n \in k + 1 .. count.n /\ size \in Int
    BY <1>0, <1>15, <1>7
  <2>2. \A i \in k + 1 .. count.n : turn[i].rc = "AGAIN"
    BY <1>12, <2>1, ElementsStuck, Zenon DEF turn
  <2> QED BY <2>1, <2>2, Zenon
<1> QED BY <1>3, <1>13

-----------------------------------------------------------------------------
(* The decoders on a reply. *)

\* The bytes of any reply: at least its type byte, and that first.
LEMMA EncodeLays ==
    ASSUME NEW r \in Replies
    PROVE  /\ Encode(r) \in Seq(Byte) /\ Len(Encode(r)) \in Nat /\ Len(Encode(r)) >= 1
           /\ Encode(r)[1] = r.kind /\ (r.kind = "$" => Encode(r) = Bulk(r.elems[1]))
<1>1. CASE r.kind = "$"
  <2> DEFINE v == r.elems[1]
             d == NumSize(Len(v))
             x == Bulk(v)
             lx == Len(x)
  <2>1. v \in Seq(Byte)
    BY <1>1, ReplyTypes, Zenon
  <2>2. Encode(r) = x
    BY <1>1, Zenon DEF Encode
  <2> HIDE DEF v, x, lx
  <2>3. CASE v = Nil
    <3>1. x \in Seq(Byte) /\ lx = 5 /\ x[1] = "$"
      BY <2>3, NullLays, Zenon DEF x, lx
    <3>2. lx \in Nat /\ lx >= 1
      BY <3>1
    <3> QED BY <1>1, <2>2, <3>1, <3>2, Zenon DEF lx, x, v
  <2>4. CASE v # Nil
    <3>1. /\ x \in Seq(Byte) /\ Len(v) \in Nat /\ Heads(x, "$", Len(v))
          /\ lx = 1 + d + 2 + Len(v) + 2
      BY <2>1, <2>4, BulkLays, Zenon DEF x, lx
    <3>2. d \in Nat
      BY <3>1, NumSizeOf, Zenon
    <3>3. x[1] = "$"
      BY <3>1, Zenon DEF Heads
    <3> HIDE DEF d
    <3>4. lx \in Nat /\ lx >= 1
      BY <3>1, <3>2
    <3> QED BY <1>1, <2>2, <3>1, <3>3, <3>4, Zenon DEF lx, x, v
  <2> QED BY <2>3, <2>4, Zenon
<1>2. CASE r.kind = "*"
  <2> DEFINE e == Encode(r)
             z == NumSize(Len(r.elems))
             le == Len(e)
  <2>1. e \in Seq(Byte) /\ Heads(e, "*", Len(r.elems)) /\ Len(r.elems) \in Nat
    BY <1>2, EncodeArray, Zenon
  <2>2. PICK off : ArrayLays(e, r, off)
    BY <1>2, EncodeArray, Zenon
  <2>3. e[1] = "*"
    BY <2>1, Zenon DEF Heads
  <2>4. z \in Nat
    BY <2>1, NumSizeOf, Zenon
  <2>5. off \in [0 .. Len(r.elems) -> Nat] /\ le = 3 + z + off[Len(r.elems)]
    BY <2>2, Zenon DEF ArrayLays
  <2>6. Len(r.elems) \in 0 .. Len(r.elems)
    BY <2>1
  <2>7. off[Len(r.elems)] \in Nat
    BY <2>5, <2>6, Zenon
  <2> HIDE DEF z, le
  <2>8. le \in Nat /\ le >= 1
    BY <2>4, <2>5, <2>7
  <2> QED BY <1>2, <2>1, <2>3, <2>8, Zenon DEF le
<1>3. CASE r.kind \in {"+", "-", ":"}
  <2> DEFINE h == <<r.kind, "1">>
  <2>1. Encode(r) = h \o CRLF
    BY <1>3 DEF Encode
  <2>2. h \in Seq(Byte) /\ Len(h) = 2 /\ h[1] = r.kind
    BY <1>3, Bytes
  <2> HIDE DEF h
  <2>3. /\ h \o CRLF \in Seq(Byte) /\ Len(h \o CRLF) = Len(h) + Len(CRLF)
        /\ \A i \in 1 .. Len(h) : (h \o CRLF)[i] = h[i]
    BY <2>2, Bytes, ConcatLays, Zenon
  <2>4. 1 \in 1 .. 2
    OBVIOUS
  <2>5. Len(h \o CRLF) = 2 + 2 /\ (h \o CRLF)[1] = r.kind
    BY <2>2, <2>3, <2>4, Bytes, Zenon
  <2>6. 2 + 2 \in Nat /\ 2 + 2 >= 1
    OBVIOUS
  <2> QED BY <1>3, <2>1, <2>3, <2>5, <2>6, SMTT(30)
<1> QED BY <1>1, <1>2, <1>3, ReplyTypes, Zenon

\* A bulk string whose header has arrived is complete exactly when ngx_parse_bulk says so.
LEMMA BulkCounts ==
    ASSUME NEW m \in Seq(Byte), NEW b \in Nat, NEW size \in Int, NEW r \in Replies, r.kind = "$",
           r.elems[1] # Nil, Sees(m, b, Encode(r), size), size >= 2 + NumSize(Len(r.elems[1]))
    PROVE  ProtoDecode(m, 1 + b, size) = "OK" <=> Len(Encode(r)) <= size
<1> DEFINE v == r.elems[1]
           w == Len(v)
           d == NumSize(w)
           x == Bulk(v)
<1>1. v \in Seq(Byte) /\ v # Nil /\ Encode(r) = x
  BY ReplyTypes, EncodeLays, Zenon
<1>2. w \in Nat /\ Heads(x, "$", w) /\ Len(x) = 1 + d + 2 + w + 2
  BY <1>1, BulkLays, Zenon
<1>3. d \in Nat
  BY <1>2, NumSizeOf, Zenon
<1>4. size >= 2 + d /\ Sees(m, b, x, size)
  BY <1>1, Zenon
<1> HIDE DEF v, w, d, x
<1>5. \A i \in 1 .. 2 + d : i \in 1 .. size
  BY <1>3, <1>4
<1>6. Sees(m, b, x, 2 + d)
  BY <1>4, <1>5, Zenon DEF Sees
<1>7. At(m, b + 1) = "$" /\ Strtol(m, b + 2) = [n |-> w, end |-> b + 2 + d]
  BY <1>2, <1>6, HeadRead, Zenon DEF d
<1>8. Strtol(m, b + 2).n = w /\ w # -1
  BY <1>2, <1>7
<1>9. ParseBulk(m, b + 2, size) = IF 1 + d + 2 + w + 2 <= size THEN "OK" ELSE "AGAIN"
  BY <1>8, Zenon DEF ParseBulk, d
<1>10. 1 + b = b + 1 /\ (b + 1) + 1 = b + 2
  OBVIOUS
<1>11. ProtoDecode(m, 1 + b, size) = ParseBulk(m, b + 2, size)
  BY <1>7, <1>10 DEF ProtoDecode
<1> QED BY <1>1, <1>2, <1>9, <1>11

\* What strtol returns for the count of an array behind position b.
CountOf(b, r) == [n |-> Len(r.elems), end |-> b + 2 + NumSize(Len(r.elems))]

\* ngx_parse_multibulk reads the count of an array whose header has arrived.
LEMMA ArrayHeader ==
    ASSUME NEW m \in Seq(Byte), NEW b \in Nat, NEW size \in Int, NEW r \in Replies, r.kind = "*",
           Sees(m, b, Encode(r), size), size >= 2 + NumSize(Len(r.elems))
    PROVE  /\ At(m, b + 1) = "*" /\ Strtol(m, b + 2) = CountOf(b, r) /\ Len(r.elems) \in Nat
           /\ ProtoDecode(m, 1 + b, size) =
                IF Len(r.elems) = 0 THEN "OK" ELSE Elements(m, size, CountOf(b, r))[Len(r.elems)].rc
<1> DEFINE x == Encode(r)
           l == Len(r.elems)
           d == NumSize(l)
           c == CountOf(b, r)
<1>1. l \in Nat /\ Heads(x, "*", l)
  BY EncodeArray, Zenon
<1>2. d \in Nat
  BY <1>1, NumSizeOf, Zenon
<1>3. size >= 2 + d /\ Sees(m, b, x, size)
  OBVIOUS
<1>4. c = [n |-> l, end |-> b + 2 + d]
  BY Zenon DEF CountOf
<1> HIDE DEF x, l, d, c
<1>5. \A i \in 1 .. 2 + d : i \in 1 .. size
  BY <1>2, <1>3
<1>6. Sees(m, b, x, 2 + d)
  BY <1>3, <1>5, Zenon DEF Sees
<1>7. At(m, b + 1) = "*" /\ Strtol(m, b + 2) = c
  BY <1>1, <1>4, <1>6, HeadRead, Zenon DEF d
<1>8. c.n = l /\ (l <= 0 <=> l = 0)
  BY <1>1, <1>4
<1>9. ParseMultibulk(m, b + 2, size) = IF l = 0 THEN "OK" ELSE Elements(m, size, c)[l].rc
  BY <1>7, <1>8, Zenon DEF ParseMultibulk
<1>10. 1 + b = b + 1 /\ (b + 1) + 1 = b + 2
  OBVIOUS
<1>11. ProtoDecode(m, 1 + b, size) = ParseMultibulk(m, b + 2, size)
  BY <1>7, <1>10 DEF ProtoDecode
<1> QED BY <1>1, <1>7, <1>9, <1>11, Zenon DEF l, c

NoNulls(r) == \A k \in 1 .. Len(r.elems) : r.elems[k] # Nil

\* An array without null elements that has arrived is taken.
LEMMA ArrayArrives ==
    ASSUME NEW m \in Seq(Byte), NEW b \in Nat, NEW size \in Int, NEW r \in Replies, r.kind = "*",
           NoNulls(r), Sees(m, b, Encode(r), size), size = Len(Encode(r))
    PROVE  ProtoDecode(m, 1 + b, size) = "OK"
<1> DEFINE x == Encode(r)
           l == Len(r.elems)
           z == NumSize(l)
           c == CountOf(b, r)
<1>1. l \in Nat
  BY EncodeArray, Zenon
<1>2. z \in Nat
  BY <1>1, NumSizeOf, Zenon
<1>3. PICK off : ArrayLays(x, r, off)
  BY EncodeArray, Zenon
<1>4. /\ off \in [0 .. l -> Nat] /\ off[0] = 0 /\ size = 3 + z + off[l]
      /\ \A k \in 1 .. l : off[k] <= off[l]
  BY <1>3, Zenon DEF ArrayLays
<1>5. l \in 0 .. l /\ 0 \in 0 .. l
  BY <1>1
<1>6. off[l] \in Nat
  BY <1>4, <1>5, Zenon
<1>7. Sees(m, b, x, size)
  OBVIOUS
<1> HIDE DEF x, l, z, c
<1>8. size >= 2 + z /\ size \in Nat
  BY <1>2, <1>4, <1>6
<1>9. ASSUME NEW k \in 1 .. l
      PROVE  /\ r.elems[k] # Nil /\ 3 + off[k - 1] <= size
             /\ Strtol(m, (b + 3 + z + off[k - 1]) + 2) =
                  [n |-> Len(r.elems[k]),
                   end |-> (b + 3 + z + off[k - 1]) + 2 + NumSize(Len(r.elems[k]))]
  <2> DEFINE o == off[k - 1]
             a == 3 + z + o
             w == Len(r.elems[k])
             d == NumSize(w)
  <2>1. r.elems[k] # Nil
    BY Zenon DEF NoNulls, l
  <2>2. /\ a \in Nat /\ w \in Nat /\ d \in Nat /\ off[k] = o + 5 + d + w /\ o \in Nat
        /\ off[k] \in Nat /\ LengthAt(x, a, w)
    BY <1>3, <2>1, ElementLays, Zenon DEF l, z
  <2>3. off[k] <= off[l]
    BY <1>4, Zenon
  <2> HIDE DEF o, w, d
  <2>4. size >= a + (2 + d) /\ b + a = b + 3 + z + o /\ 3 + o <= size
    <3>1. o + 5 + d + w <= off[l] /\ size = 3 + z + off[l]
      BY <1>4, <2>2, <2>3, Zenon
    <3> QED BY <1>2, <1>6, <2>2, <3>1, SMTT(30)
  <2> HIDE DEF a
  <2>5. Strtol(m, (b + a) + 2) = [n |-> w, end |-> ((b + a) + 2) + d]
    BY <1>7, <1>8, <2>2, <2>4, LengthSeen, SMTT(60) DEF d
  <2> QED BY <2>1, <2>4, <2>5, Zenon DEF o, w, d
<1>10. Readable(m, size, b, r, x, off, l, c)
  BY <1>3, <1>5, <1>9, Zenon DEF Readable, CountOf, l, z, c
<1>11. Elements(m, size, c)[l] =
         [rest |-> b + 4 + NumSize(Len(r.elems)) + off[l], len |-> 3 + off[l], rc |-> "OK"]
  <2>1. StandsBehind(m, size, b, r, off, l, c)
    BY <1>10, ElementsExact, Zenon
  <2> QED BY <2>1, Zenon DEF StandsBehind
<1>12. Elements(m, size, c)[l].rc = "OK"
  BY <1>11
<1>13. ProtoDecode(m, 1 + b, size) = IF l = 0 THEN "OK" ELSE Elements(m, size, c)[l].rc
  BY <1>8, ArrayHeader, ZenonT(40) DEF l, c, z
<1> QED BY <1>12, <1>13, Zenon

\* What is missing of an array that is taken.
LEMMA ArrayEarly ==
    ASSUME NEW m \in Seq(Byte), NEW b \in Nat, NEW size \in Nat, NEW r \in Replies, r.kind = "*",
           NoNulls(r), Sees(m, b, Encode(r), size), Zeroed(m, b + size),
           Len(r.elems) >= 1, NumSize(Len(r.elems)) <= 4, size >= 2 + NumSize(Len(r.elems)),
           ProtoDecode(m, 1 + b, size) = "OK"
    PROVE  size >= Len(Encode(r)) - Len(Bulk(r.elems[Len(r.elems)])) - NumSize(Len(r.elems))
<1> DEFINE x == Encode(r)
           l == Len(r.elems)
           z == NumSize(l)
           c == CountOf(b, r)
           v == Len(Bulk(r.elems[l]))
           lx == Len(x)
<1>1. l \in Nat
  BY EncodeArray, Zenon
<1>2. z \in Nat
  BY <1>1, NumSizeOf, Zenon
<1>3. PICK off : ArrayLays(x, r, off)
  BY EncodeArray, Zenon
<1>4. l >= 1 /\ z <= 4 /\ size >= 2 + z
  OBVIOUS
<1>5. l \in 1 .. l /\ l # 0
  BY <1>1, <1>4
<1>6. off[l - 1] \in Nat /\ v \in Nat /\ off[l] = off[l - 1] + v
  BY <1>3, <1>5, Offsets, Zenon
<1>7. lx = 3 + z + off[l]
  BY <1>3, Zenon DEF ArrayLays
<1>8. Elements(m, size, c)[l].rc = "OK"
  <2>1. size \in Int
    OBVIOUS
  <2> QED BY <1>4, <1>5, <2>1, ArrayHeader, Zenon
<1>9. TakenEarly(m, b, size, r, x, off, l, z, c)
  BY <1>3, <1>4, <1>8, Zenon DEF TakenEarly, NoNulls, CountOf
<1> HIDE DEF x, l, z, c, v, lx
<1>10. 3 + off[l - 1] <= size
  BY <1>1, <1>4, <1>9, EarlyCount, SMTT(30)
<1>11. size >= lx - v - z
  <2>1. lx = 3 + z + (off[l - 1] + v)
    BY <1>6, <1>7, Zenon
  <2> QED BY <1>2, <1>6, <1>10, <2>1, SMTT(60)
<1> QED BY <1>11, Zenon DEF x, l, z, v, lx

\* What the plugin takes from a whole reply.
LEMMA WholeDecoded ==
    ASSUME NEW m \in Seq(Byte), NEW r \in Replies, Sees(m, 0, Encode(r), Len(Encode(r)))
    PROVE  RedisProtoDecode(m) = r.elems
<1> DEFINE x == Encode(r)
           lx == Len(x)
<1>1. lx \in Nat /\ lx >= 1 /\ x[1] = r.kind
  BY EncodeLays, Zenon
<1>2. \A i \in 1 .. lx : At(m, 0 + i) = x[i]
  BY Zenon DEF Sees
<1> HIDE DEF x, lx
<1>3. At(m, 1) = r.kind
  <2>1. 1 \in 1 .. lx /\ 0 + 1 = 1
    BY <1>1
  <2> QED BY <1>1, <1>2, <2>1
<1>4. 0 \in Nat /\ 0 + 2 = 2 /\ 0 + 1 = 1 /\ 0 + 4 = 4
  OBVIOUS
<1>5. CASE r.kind = "$"
  <2> DEFINE v == r.elems[1]
             bulk == Strtol(m, 2)
  <2>1. v \in Seq(Byte) /\ r.elems = <<v>> /\ x = Bulk(v)
    BY <1>5, ReplyTypes, EncodeLays, Zenon DEF x
  <2>2. RedisProtoDecode(m) = IF bulk.n = -1 THEN <<Nil>> ELSE << Take(m, bulk.end + 2, bulk.n) >>
    BY <1>3, <1>5 DEF RedisProtoDecode, GetString
  <2> HIDE DEF v
  <2>3. Sees(m, 0, Bulk(v), Len(Bulk(v)))
    BY <2>1, Zenon DEF x
  <2>4. CASE v = Nil
    <3>1. Strtol(m, 0 + 2) = [n |-> -1, end |-> 0 + 4]
      BY <1>4, <2>3, <2>4, NullLays, NullRead, Zenon
    <3>2. bulk.n = -1
      BY <1>4, <3>1
    <3> QED BY <2>1, <2>2, <2>4, <3>2, Zenon
  <2>5. CASE v # Nil
    <3>1. /\ Strtol(m, 0 + 2) = [n |-> Len(v), end |-> 0 + 2 + NumSize(Len(v))]
          /\ Take(m, Strtol(m, 0 + 2).end + 2, Strtol(m, 0 + 2).n) = v
      BY <1>4, <2>1, <2>3, <2>5, BulkRead, Zenon
    <3>2. Take(m, bulk.end + 2, bulk.n) = v /\ bulk.n = Len(v)
      BY <1>4, <3>1
    <3>3. Len(v) # -1
      BY <2>1
    <3> QED BY <2>1, <2>2, <3>2, <3>3, Zenon
  <2> QED BY <2>4, <2>5, Zenon
<1>6. CASE r.kind = "*"
  <2> DEFINE l == Len(r.elems)
             z == NumSize(l)
             c == CountOf(0, r)
  <2>1. l \in Nat
    BY <1>6, EncodeArray, Zenon
  <2>2. z \in Nat
    BY <2>1, NumSizeOf, Zenon
  <2>3. PICK off : ArrayLays(x, r, off)
    BY <1>6, EncodeArray, Zenon DEF x
  <2>4. off \in [0 .. l -> Nat] /\ lx = 3 + z + off[l]
    BY <2>3, Zenon DEF ArrayLays, lx
  <2>5. l \in 0 .. l
    BY <2>1
  <2>6. off[l] \in Nat
    BY <2>4, <2>5, Zenon
  <2> HIDE DEF z
  <2>7. lx >= 2 + z /\ lx \in Int
    BY <2>2, <2>4, <2>6
  <2>8. Strtol(m, 2) = c
    BY <1>4, <1>6, <2>7, ArrayHeader, Zenon DEF x, lx, z
  <2>9. c.n = l
    BY Zenon DEF CountOf
  <2>10. RedisProtoDecode(m) = IF l <= 0 THEN <<>> ELSE Steps(m, c)[l].out
    BY <1>3, <1>6, <2>8, <2>9 DEF RedisProtoDecode, GetArray
  <2>11. Steps(m, c)[l].out = r.elems
    BY <1>4, <1>6, <2>3, StepsExact, Zenon DEF x, lx, CountOf
  <2>12. l <= 0 => r.elems = <<>>
    BY <1>6, <2>1, ReplyTypes
  <2> QED BY <2>10, <2>11, <2>12, Zenon
<1>7. CASE r.kind \in {"+", "-", ":"}
  <2>1. r.elems = <<>>
    BY <1>7, ReplyTypes, Zenon
  <2> QED BY <1>3, <1>7, <2>1 DEF RedisProtoDecode
<1> QED BY <1>5, <1>6, <1>7, ReplyTypes, Zenon

-----------------------------------------------------------------------------
(* The buffer, and the invariants. *)

\* The bytes p + 1 .. n of what was sent, and what the memory holds behind them.
Memory(w, p, n, t) == SubSeq(w, 1 + p, n) \o t

\* Where those bytes are, and that NUL is behind them in zeroed memory.
LEMMA MemoryLays ==
    ASSUME NEW w \in Seq(Byte), NEW n \in 0 .. Len(w), NEW p \in 0 .. n, NEW t \in Seq(Byte)
    PROVE  /\ Memory(w, p, n, t) \in Seq(Byte)
           /\ \A i \in 1 .. n - p : At(Memory(w, p, n, t), i) = w[p + i]
           /\ t = <<>> => Zeroed(Memory(w, p, n, t), n - p)
<1> DEFINE m == Memory(w, p, n, t)
           s == SubSeq(w, 1 + p, n)
<1>1. s \in Seq(Byte) /\ Len(s) = n - p /\ \A i \in 1 .. n - p : s[i] = w[p + i]
  <2>1. 1 + p \in 1 .. Len(w) + 1 /\ n \in 0 .. Len(w) /\ 1 + p <= n + 1
    OBVIOUS
  <2>2. s = [i \in 1 .. n - p |-> w[p + i]]
    OBVIOUS
  <2>3. \A i \in 1 .. n - p : p + i \in 1 .. Len(w)
    OBVIOUS
  <2>4. n - p \in Nat /\ \A i \in 1 .. n - p : w[p + i] \in Byte
    BY <2>3
  <2> HIDE DEF s
  <2>5. s \in [1 .. n - p -> Byte]
    BY <2>2, <2>4
  <2> QED BY <2>2, <2>4, <2>5
<1>2. m = s \o t
  BY Zenon DEF Memory
<1> HIDE DEF m, s
<1>3. /\ m \in Seq(Byte) /\ Len(m) = Len(s) + Len(t)
      /\ \A i \in 1 .. Len(s) : m[i] = s[i]
  <2>1. /\ s \o t \in Seq(Byte) /\ Len(s \o t) = Len(s) + Len(t)
        /\ \A i \in 1 .. Len(s) : (s \o t)[i] = s[i]
    BY <1>1, ConcatLays, Zenon
  <2> QED BY <1>2, <2>1, Zenon
<1>4. DOMAIN m = 1 .. Len(m) /\ Len(t) \in Nat /\ n - p \in Nat
  BY <1>3
<1>5. \A i \in 1 .. n - p : i \in DOMAIN m
  BY <1>1, <1>3, <1>4
<1>6. \A i \in 1 .. n - p : At(m, i) = w[p + i]
  BY <1>1, <1>3, <1>5, Zenon DEF At
<1>7. ASSUME t = <<>> PROVE Zeroed(m, n - p)
  <2>1. Len(t) = 0
    BY <1>7
  <2>2. \A i \in Nat : i > n - p => i \notin DOMAIN m
    BY <1>1, <1>3, <1>4, <2>1
  <2> QED BY <2>2, Zenon DEF Zeroed, At
<1> QED BY <1>3, <1>6, <1>7, Zenon DEF m

\* What the node sends: the reply, behind the one to ASKING if there is one.
LEMMA WireLays ==
    ASSUME reply \in Replies, asking \in BOOLEAN
    PROVE  /\ Wire \in Seq(Byte) /\ Skipped \in Nat /\ Len(Encode(reply)) \in Nat
           /\ Len(Encode(reply)) >= 1 /\ Len(Wire) = Skipped + Len(Encode(reply))
           /\ \A i \in 1 .. Len(Encode(reply)) : Wire[Skipped + i] = Encode(reply)[i]
<1> DEFINE x == Encode(reply)
           o == <<"+", "O", "K">>
           h == IF asking THEN o \o CRLF ELSE <<>>
<1>1. x \in Seq(Byte) /\ Len(x) \in Nat /\ Len(x) >= 1
  BY EncodeLays, Zenon
<1>2. o \in Seq(Byte) /\ Len(o) = 3
  BY Bytes
<1> HIDE DEF o
<1>3. o \o CRLF \in Seq(Byte) /\ Len(o \o CRLF) = 3 + 2
  BY <1>2, Bytes, ConcatLays, ZenonT(40)
<1>4. h \in Seq(Byte) /\ Len(h) = Skipped /\ Skipped \in Nat
  BY <1>3 DEF Skipped
<1>5. Wire = h \o x
  BY Zenon DEF Wire, o
<1> HIDE DEF h, x
<1> QED BY <1>1, <1>4, <1>5, ConcatLays, Zenon DEF x

\* The buffer as process_header and, behind the reply to ASKING, the plugin see it.
LEMMA BufferSees ==
    ASSUME reply \in Replies, asking \in BOOLEAN, got \in 0 .. Len(Wire),
           tail \in Tails \cup {<<>>}
    PROVE  LET m == SubSeq(Wire, 1, got) \o tail
               d == SubSeq(Wire, 1 + Skipped, got) \o tail
               size == got - Skipped
               x == Encode(reply)
           IN  /\ m \in Seq(Byte) /\ Sees(m, Skipped, x, size) /\ size <= Len(x)
               /\ ProcessHeader(Wire, got, tail) = ProtoDecode(m, 1 + Skipped, size)
               /\ tail = <<>> => Zeroed(m, Skipped + size)
               /\ size \in Int /\ (got = Len(Wire) <=> size = Len(x))
               /\ size >= 0 => d \in Seq(Byte) /\ Sees(d, 0, x, size)
<1> DEFINE w == Wire
           x == Encode(reply)
           b == Skipped
           size == got - b
           lx == Len(x)
           lw == Len(w)
           m == SubSeq(w, 1, got) \o tail
           d == SubSeq(w, 1 + b, got) \o tail
<1>1. /\ w \in Seq(Byte) /\ b \in Nat /\ lx \in Nat /\ lw = b + lx
      /\ \A i \in 1 .. lx : w[b + i] = x[i]
  BY WireLays, Zenon
<1>2. tail \in Seq(Byte)
  <2>1. <<>> \in Seq(Byte)
    OBVIOUS
  <2> QED BY <2>1, FramingAssumption, Zenon
<1>3. got \in 0 .. lw
  OBVIOUS
<1>4. ProcessHeader(w, got, tail) = ProtoDecode(m, 1 + b, size)
  BY Zenon DEF ProcessHeader
<1> HIDE DEF w, x, b, lx
<1>5. /\ got \in Nat /\ size \in Int /\ size <= lx /\ (got = lw <=> size = lx) /\ b + size = got
      /\ got - 0 = got /\ 0 \in 0 .. got /\ 1 + 0 = 1 /\ \A i \in 1 .. size : i \in 1 .. lx
  BY <1>1, <1>3
<1>6. /\ m \in Seq(Byte) /\ \A i \in 1 .. got : At(m, i) = w[0 + i]
      /\ tail = <<>> => Zeroed(m, got)
  <2> DEFINE u == Memory(w, 0, got, tail)
  <2>1. m = u
    BY <1>5, Zenon DEF Memory
  <2>2. /\ u \in Seq(Byte) /\ \A i \in 1 .. got - 0 : At(u, i) = w[0 + i]
        /\ tail = <<>> => Zeroed(u, got - 0)
    BY <1>1, <1>2, <1>3, <1>5, MemoryLays, Zenon
  <2> HIDE DEF u, m
  <2> QED BY <1>5, <2>1, <2>2, Zenon
<1> HIDE DEF m
<1>7. \A i \in 1 .. size : At(m, b + i) = x[i]
  <2>1. \A i \in 1 .. size : b + i \in 1 .. got /\ 0 + (b + i) = b + i
    BY <1>1, <1>5
  <2> QED BY <1>1, <1>5, <1>6, <2>1, Zenon
<1>8. Sees(m, b, x, size)
  BY <1>7, Zenon DEF Sees
<1>9. ASSUME size >= 0 PROVE d \in Seq(Byte) /\ Sees(d, 0, x, size)
  <2>1. b \in 0 .. got
    BY <1>1, <1>5, <1>9
  <2>2. d \in Seq(Byte) /\ \A i \in 1 .. got - b : At(d, i) = w[b + i]
    <3>1. d = Memory(w, b, got, tail)
      BY Zenon DEF Memory
    <3> HIDE DEF d
    <3> QED BY <1>1, <1>2, <1>3, <2>1, <3>1, MemoryLays, Zenon
  <2> HIDE DEF d
  <2>3. \A i \in 1 .. size : 0 + i = i
    BY <1>5
  <2> QED BY <1>1, <1>5, <2>2, <2>3, Zenon DEF Sees
<1> QED BY <1>4, <1>5, <1>6, <1>8, <1>9, Zenon DEF w, x, b, lx, lw, m

\* The inductive invariant.  The verdict is always the one of ngx_redis_proto_decode on
\* the bytes that are in the buffer and the memory that lay behind them, and what was
\* decoded came from the same bytes.
Framed ==
    /\ reply \in Replies /\ asking \in BOOLEAN
    /\ got \in 0 .. Len(Wire) /\ tail \in Tails \cup {<<>>}
    /\ IF got = 0
         THEN verdict \in {"AGAIN", "CLOSED", "TIMEDOUT"}
         ELSE /\ verdict = "OK" <=> ProcessHeader(Wire, got, tail) = "OK"
              /\ verdict = "OK" =>
                   decoded = RedisProtoDecode(SubSeq(Wire, 1 + Skipped, got) \o tail)

\* However the bytes of a reply are cut into pieces, and whether or not the connection is
\* lost, Framed holds.
THEOREM AlwaysFramed == Spec => []Framed
<1>1. Init => Framed
  <2> SUFFICES ASSUME Init PROVE Framed
    OBVIOUS
  <2>1. /\ reply \in Replies /\ asking \in BOOLEAN /\ got = 0 /\ tail = <<>> /\ verdict = "AGAIN"
    BY Zenon DEF Init
  <2>2. Wire \in Seq(Byte)
    BY <2>1, WireLays, Zenon
  <2>3. 0 \in 0 .. Len(Wire)
    BY <2>2
  <2> QED BY <2>1, <2>3, Zenon DEF Framed
<1>2. Framed /\ [Next]_vars => Framed'
  <2> SUFFICES ASSUME Framed, [Next]_vars PROVE Framed'
    OBVIOUS
  <2>1. ASSUME UNCHANGED <<reply, asking>> PROVE Wire' = Wire /\ Skipped' = Skipped
    BY <2>1, Zenon DEF Wire, Skipped
  <2>2. CASE Recv
    <3>1. PICK n \in got + 1 .. Len(Wire), t \in Tails :
            LET rc == ProcessHeader(Wire, n, t)
            IN  /\ got' = n /\ tail' = t
                /\ verdict' = IF rc = "AGAIN" /\ n = BufferSize THEN "TOOBIG" ELSE rc
                /\ decoded' = IF rc = "OK"
                              THEN RedisProtoDecode(SubSeq(Wire, 1 + Skipped, n) \o t)
                              ELSE decoded
      BY <2>2, Zenon DEF Recv
    <3>2. UNCHANGED <<reply, asking>>
      BY <2>2, Zenon DEF Recv
    <3>3. Wire' = Wire /\ Skipped' = Skipped
      BY <2>1, <3>2, Zenon
    <3>4. reply \in Replies /\ asking \in BOOLEAN /\ got \in 0 .. Len(Wire)
      BY Zenon DEF Framed
    <3>5. Wire \in Seq(Byte)
      BY <3>4, WireLays, Zenon
    <3>6. n \in 0 .. Len(Wire) /\ n # 0
      BY <3>4, <3>5
    <3>7. ProcessHeader(Wire, got, tail)' = ProcessHeader(Wire, n, t)
      BY <3>1, <3>3, Zenon DEF ProcessHeader
    <3>8. /\ verdict' = "OK" <=> ProcessHeader(Wire, n, t) = "OK"
          /\ verdict' = "OK" => decoded' = RedisProtoDecode(SubSeq(Wire, 1 + Skipped, n) \o t)
      BY <3>1
    <3>9. reply' = reply /\ asking' = asking
      BY <3>2, Zenon
    <3> QED BY <3>1, <3>3, <3>4, <3>6, <3>7, <3>8, <3>9, Zenon DEF Framed
  <2>3. CASE Lose
    <3>1. /\ verdict = "AGAIN" /\ verdict' \in {"CLOSED", "TIMEDOUT"}
          /\ UNCHANGED <<reply, asking>> /\ got' = got /\ tail' = tail /\ decoded' = decoded
          /\ reply' = reply /\ asking' = asking
      BY <2>3, Zenon DEF Lose
    <3>2. Wire' = Wire /\ Skipped' = Skipped
      BY <2>1, <3>1, Zenon
    <3>3. ProcessHeader(Wire, got, tail)' = ProcessHeader(Wire, got, tail)
      BY <3>1, <3>2, Zenon DEF ProcessHeader
    <3>4. verdict # "OK" /\ verdict' # "OK"
      BY <3>1
    <3> QED BY <3>1, <3>2, <3>3, <3>4, Zenon DEF Framed
  <2>4. CASE UNCHANGED vars
    <3>1. /\ UNCHANGED <<reply, asking>> /\ got' = got /\ tail' = tail /\ decoded' = decoded
          /\ reply' = reply /\ asking' = asking /\ verdict' = verdict
      BY <2>4, Zenon DEF vars
    <3>2. Wire' = Wire /\ Skipped' = Skipped
      BY <2>1, <3>1, Zenon
    <3>3. ProcessHeader(Wire, got, tail)' = ProcessHeader(Wire, got, tail)
      BY <3>1, <3>2, Zenon DEF ProcessHeader
    <3> QED BY <3>1, <3>2, <3>3, Zenon DEF Framed
  <2> QED BY <2>2, <2>3, <2>4, Zenon DEF Next
<1> QED BY <1>1, <1>2, PTL DEF Spec

\* Framed in terms of the encoded reply: what every proof below starts from.
LEMMA Judged ==
    ASSUME Framed, got # 0
    PROVE  LET m == SubSeq(Wire, 1, got) \o tail
               size == got - Skipped
               x == Encode(reply)
           IN  /\ m \in Seq(Byte) /\ Skipped \in Nat /\ size \in Int /\ got \in Nat
               /\ Sees(m, Skipped, x, size) /\ size <= Len(x) /\ Len(x) \in Nat
               /\ verdict = "OK" <=> ProtoDecode(m, 1 + Skipped, size) = "OK"
               /\ tail = <<>> => Zeroed(m, Skipped + size)
               /\ Complete <=> size = Len(x)
               /\ Len(Wire) = Skipped + Len(x) /\ reply \in Replies
<1>1. /\ reply \in Replies /\ asking \in BOOLEAN /\ got \in 0 .. Len(Wire)
      /\ tail \in Tails \cup {<<>>} /\ (verdict = "OK" <=> ProcessHeader(Wire, got, tail) = "OK")
  BY Zenon DEF Framed
<1>2. got \in Nat
  BY <1>1
<1> QED BY <1>1, <1>2, WireLays, BufferSees, Zenon DEF Complete

\* The header of a bulk string or of an array has arrived.
LEMMA HeaderArrived ==
    ASSUME Framed, HeaderSeen, reply.kind \in {"$", "*"}
    PROVE  /\ Count(reply) \in Nat /\ NumSize(Count(reply)) \in Nat
           /\ got # 0 /\ got - Skipped >= 2 + NumSize(Count(reply))
<1> DEFINE n == Count(reply)
<1>1. reply \in Replies /\ asking \in BOOLEAN /\ got \in 0 .. Len(Wire)
  BY Zenon DEF Framed
<1>2. ASSUME reply.kind = "$" PROVE Count(reply) \in Nat
  <2>1. reply.elems[1] \in Seq(Byte)
    BY <1>1, <1>2, ReplyTypes, Zenon
  <2>2. Len(reply.elems[1]) \in Nat
    BY <2>1
  <2> QED BY <1>2, <2>2 DEF Count
<1>3. ASSUME reply.kind = "*" PROVE Count(reply) \in Nat
  <2>1. Len(reply.elems) \in Nat
    BY <1>1, <1>3, EncodeArray, Zenon
  <2> QED BY <1>3, <2>1 DEF Count
<1>4. n \in Nat
  BY <1>2, <1>3
<1>5. NumSize(n) \in Nat /\ Len(Decimal(n)) = NumSize(n)
  BY <1>4, NumSizeOf, Zenon
<1>6. got >= Skipped + 1 + NumSize(n) + 1 /\ Skipped \in Nat
  BY <1>1, <1>5, WireLays, Zenon DEF HeaderSeen
<1> HIDE DEF n
<1>7. got \in Nat
  BY <1>1
<1>8. got # 0 /\ got - Skipped >= 2 + NumSize(n)
  BY <1>5, <1>6, <1>7
<1> QED BY <1>4, <1>5, <1>8, Zenon DEF n

\* ngx_parse_bulk: once its header is there, a bulk string is taken exactly when its last
\* byte is there, whatever the values, the cuts and the memory behind the buffer.
THEOREM BulkIsExact == Spec => []BulkExact
<1>1. Framed => BulkExact
  <2> SUFFICES ASSUME Framed, reply.kind = "$", NoNil, HeaderSeen
               PROVE  verdict = "OK" <=> Complete
    BY Zenon DEF BulkExact
  <2> DEFINE b == Skipped
             m == SubSeq(Wire, 1, got) \o tail
             size == got - b
             x == Encode(reply)
             lx == Len(x)
             v == reply.elems[1]
  <2>1. got # 0 /\ size >= 2 + NumSize(Count(reply))
    BY HeaderArrived, Zenon
  <2>2. /\ m \in Seq(Byte) /\ b \in Nat /\ size \in Int /\ Sees(m, b, x, size) /\ size <= lx
        /\ lx \in Nat /\ (verdict = "OK" <=> ProtoDecode(m, 1 + b, size) = "OK")
        /\ (Complete <=> size = lx) /\ reply \in Replies
    BY <2>1, Judged, Zenon
  <2>3. size >= 2 + NumSize(Len(v))
    BY <2>1, Zenon DEF Count
  <2>4. v # Nil
    <3>1. reply.elems = <<v>>
      BY <2>2, ReplyTypes, Zenon
    <3>2. DOMAIN <<v>> = {1} /\ <<v>>[1] = v
      OBVIOUS
    <3> HIDE DEF v
    <3>3. 1 \in DOMAIN reply.elems /\ reply.elems[1] = v
      BY <3>1, <3>2, SMTT(30)
    <3> QED BY <3>3, Zenon DEF NoNil
  <2> HIDE DEF b, m, size, x, lx
  <2>5. ProtoDecode(m, 1 + b, size) = "OK" <=> Len(Encode(reply)) <= size
    BY <2>2, <2>3, <2>4, BulkCounts, SMTT(30) DEF x
  <2>6. lx <= size <=> size = lx
    BY <2>2
  <2> QED BY <2>2, <2>5, <2>6, Zenon DEF lx, x
<1> QED BY <1>1, AlwaysFramed, PTL

\* NoNil for an array, element by element.
LEMMA NoNilElements ==
    ASSUME NoNil, reply \in Replies, reply.kind = "*"
    PROVE  NoNulls(reply)
<1>1. reply.elems \in Seq(Seq(Byte))
  BY ReplyTypes, Zenon
<1>2. DOMAIN reply.elems = 1 .. Len(reply.elems)
  BY <1>1
<1> QED BY <1>2, Zenon DEF NoNulls, NoNil

\* ngx_parse_multibulk: an array without null elements that has arrived is taken.
THEOREM ArrayIsNeverLate == Spec => []NoLateArray
<1>1. Framed => NoLateArray
  <2> SUFFICES ASSUME Framed, reply.kind = "*", NoNil, Complete
               PROVE  verdict = "OK"
    BY Zenon DEF NoLateArray
  <2> DEFINE b == Skipped
             m == SubSeq(Wire, 1, got) \o tail
             size == got - b
  <2>0. reply \in Replies /\ asking \in BOOLEAN /\ got = Len(Wire)
    BY Zenon DEF Framed, Complete
  <2>1. got # 0
    <3>1. Skipped \in Nat /\ Len(Encode(reply)) \in Nat /\ Len(Encode(reply)) >= 1
          /\ got = Skipped + Len(Encode(reply))
      BY <2>0, WireLays, Zenon
    <3> QED BY <3>1
  <2>2. /\ m \in Seq(Byte) /\ b \in Nat /\ size \in Int /\ Sees(m, b, Encode(reply), size)
        /\ (verdict = "OK" <=> ProtoDecode(m, 1 + b, size) = "OK")
        /\ size = Len(Encode(reply)) /\ reply \in Replies
    BY <2>1, Judged, Zenon
  <2>3. NoNulls(reply)
    BY <2>2, NoNilElements, Zenon
  <2> HIDE DEF b, m, size
  <2>4. ProtoDecode(m, 1 + b, size) = "OK"
    BY <2>2, <2>3, ArrayArrives, Zenon
  <2> QED BY <2>2, <2>4, Zenon
<1> QED BY <1>1, AlwaysFramed, PTL

\* A count below 10000 has at most four digits.
LEMMA CountDigits ==
    ASSUME reply \in Replies, reply.kind = "*", FourDigitCount
    PROVE  Len(reply.elems) >= 1 /\ NumSize(Len(reply.elems)) <= 4
<1> DEFINE l == Len(reply.elems)
<1>1. l \in Nat
  BY EncodeArray, Zenon
<1>2. l >= 1 /\ l < 10000
  BY DEF FourDigitCount
<1> HIDE DEF l
<1>3. NumSize(l) <= 4
  BY <1>1, <1>2, FourDigits, SMTT(30)
<1> QED BY <1>2, <1>3 DEF l

\* ngx_parse_multibulk: with zeroed memory behind the buffer an array is taken early by at
\* most its last element and the digits of its count.
THEOREM ArrayIsEarlyByLast == Spec => []EarlyByLastElement
<1>1. Framed => EarlyByLastElement
  <2> SUFFICES ASSUME Framed, reply.kind = "*", NoNil, HeaderSeen, tail = <<>>, verdict = "OK",
                      FourDigitCount
               PROVE  got >= Len(Wire) - Len(Bulk(reply.elems[Len(reply.elems)]))
                                - Len(Decimal(Len(reply.elems)))
    BY Zenon DEF EarlyByLastElement
  <2> DEFINE b == Skipped
             m == SubSeq(Wire, 1, got) \o tail
             size == got - b
             lx == Len(Encode(reply))
             l == Len(reply.elems)
             z == NumSize(l)
             v == Len(Bulk(reply.elems[l]))
  <2>1. Count(reply) = l
    BY DEF Count
  <2>2. l \in Nat /\ z \in Nat /\ got # 0 /\ size >= 2 + z
    BY <2>1, HeaderArrived, Zenon
  <2>3. /\ m \in Seq(Byte) /\ b \in Nat /\ size \in Int /\ Sees(m, b, Encode(reply), size)
        /\ ProtoDecode(m, 1 + b, size) = "OK" /\ Zeroed(m, b + size)
        /\ lx \in Nat /\ Len(Wire) = b + lx /\ reply \in Replies /\ got \in Nat
    BY <2>2, Judged, Zenon
  <2>4. NoNulls(reply)
    BY <2>3, NoNilElements, Zenon
  <2>6. Len(Decimal(l)) = z
    BY <2>2, NumSizeOf, Zenon
  <2>7. l >= 1 /\ z <= 4
    BY <2>3, CountDigits, Zenon
  <2>8. v \in Nat
    <3>1. l \in 1 .. l
      BY <2>2, <2>7
    <3>2. PICK off : ArrayLays(Encode(reply), reply, off)
      BY <2>3, EncodeArray, Zenon
    <3> QED BY <2>3, <3>1, <3>2, Offsets, Zenon
  <2> HIDE DEF m, b, size
  <2>9. size \in Nat
    BY <2>2, <2>3
  <2>10. size >= lx - v - z
    BY <2>2, <2>3, <2>4, <2>7, <2>9, ArrayEarly, Zenon
  <2> HIDE DEF lx, z, v, l
  <2>11. got = b + size
    BY <2>3 DEF size
  <2>12. got >= (b + lx) - v - z
    BY <2>2, <2>3, <2>8, <2>9, <2>10, <2>11, SMTT(30)
  <2> QED BY <2>3, <2>6, <2>12, Zenon DEF v, l
<1> QED BY <1>1, AlwaysFramed, PTL

\* RedisProtoDecodeGetString and ...GetArray: what the plugin takes from a complete reply is
\* what the node sent, null elements included, also behind the reply to ASKING.
THEOREM DecodedIsWhatWasSent == Spec => []DecodedIsSent
<1>1. Framed => DecodedIsSent
  <2> SUFFICES ASSUME Framed, Complete, verdict = "OK" PROVE decoded = reply.elems
    BY Zenon DEF DecodedIsSent
  <2> DEFINE d == SubSeq(Wire, 1 + Skipped, got) \o tail
             x == Encode(reply)
             lx == Len(x)
  <2>1. /\ reply \in Replies /\ asking \in BOOLEAN /\ got \in 0 .. Len(Wire) /\ got = Len(Wire)
        /\ tail \in Tails \cup {<<>>}
    BY Zenon DEF Framed, Complete
  <2>2. Skipped \in Nat /\ lx \in Nat /\ lx >= 1 /\ got = Skipped + lx
    BY <2>1, WireLays, Zenon
  <2> HIDE DEF x, lx
  <2>3. got # 0 /\ got - Skipped = lx /\ got - Skipped >= 0
    BY <2>2
  <2>4. decoded = RedisProtoDecode(d)
    BY <2>3, Zenon DEF Framed
  <2>5. d \in Seq(Byte) /\ Sees(d, 0, x, lx)
    BY <2>1, <2>3, BufferSees, Zenon DEF x
  <2> HIDE DEF d
  <2>6. RedisProtoDecode(d) = reply.elems
    BY <2>1, <2>5, WholeDecoded, Zenon DEF x, lx
  <2> QED BY <2>4, <2>6, Zenon
<1> QED BY <1>1, AlwaysFramed, PTL
=============================================================================
