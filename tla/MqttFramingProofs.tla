------------------------- MODULE MqttFramingProofs -------------------------
(***************************************************************************)
(* Proofs about the reader task of both bridges: whatever the base, the    *)
(* number of length bytes, the size of a read and the capacity of the      *)
(* command channel, the stream is cut exactly where the packets end, and   *)
(* the reader does with bytes what CommandFeed says of packets.            *)
(***************************************************************************)
EXTENDS MqttFraming, TLAPS, SequenceTheorems, WellFoundedInduction

\* Every set of numbers that is not empty has a least one: induction without an operator.
LEMMA Least ==
  ASSUME NEW T \in SUBSET Nat, T # {}
  PROVE  \E n \in T : \A m \in T : n <= m
<1>1. \E R : IsWellFoundedOn(R, Nat) /\ \A x, y \in Nat : y < x => <<y, x>> \in R
  <2>1. IsWellFoundedOn(OpToRel(<, Nat), Nat)
    BY NatLessThanWellFounded
  <2>2. \A x, y \in Nat : y < x => <<y, x>> \in OpToRel(<, Nat)
    BY DEF OpToRel
  <2> WITNESS OpToRel(<, Nat)
  <2> QED BY <2>1, <2>2
<1>2. PICK R : IsWellFoundedOn(R, Nat) /\ \A x, y \in Nat : y < x => <<y, x>> \in R
  BY <1>1
<1>3. PICK x \in T : \A y \in T : ~ (<<y, x>> \in R)
  BY <1>2, WFMin
<1>4. \A y \in T : ~ (y < x)
  BY <1>2, <1>3
<1> QED BY <1>4

-----------------------------------------------------------------------------
(* Recursive functions *)

\* What is defined for the numbers of base, and for any other through a lower one, is
\* defined for all.
Solves(g, m, base, lower, step) ==
  \A n \in 0 .. m :
    g[n] = IF n \in DOMAIN base THEN base[n] ELSE step[<<n, g[lower[n]]>>]

Recurs(f, S, B, base, lower, step) ==
  /\ f \in [Nat -> S]
  /\ \A n \in Nat : f[n] = IF n \in B THEN base[n] ELSE step[<<n, f[lower[n]]>>]

\* A recursive function over the numbers exists: of each bound there is a solution below
\* it, of a least bound without one there would be one, and the solutions agree.
LEMMA Recursion ==
  ASSUME NEW S, NEW B \in SUBSET Nat, NEW base \in [B -> S],
         NEW lower \in [Nat -> Nat], \A n \in Nat \ B : lower[n] < n,
         NEW step \in [Nat \X S -> S]
  PROVE  \E f : Recurs(f, S, B, base, lower, step)
<1>0. B = DOMAIN base
  OBVIOUS
<1> DEFINE Good(m, g) == g \in [0 .. m -> S] /\ Solves(g, m, base, lower, step)
<1>1. \A m \in Nat : \E g : Good(m, g)
  <2> DEFINE T == {m \in Nat : ~ \E g : Good(m, g)}
  <2> SUFFICES ASSUME T # {} PROVE FALSE
    OBVIOUS
  <2>0. T \in SUBSET Nat
    OBVIOUS
  <2> HIDE DEF T
  <2>1. PICK m \in T : \A k \in T : m <= k
    BY <2>0, Least
  <2>2. m \in Nat /\ ~ \E g : Good(m, g)
    BY <2>1 DEF T
  <2>3. CASE m = 0
    <3> DEFINE h == [n \in 0 .. 0 |-> base[0]]
    <3>1. 0 \in B
      OBVIOUS
    <3>2. h \in [0 .. 0 -> S] /\ h[0] = base[0]
      BY <3>1
    <3>3. Good(0, h)
      BY <1>0, <3>1, <3>2 DEF Solves
    <3> QED BY <2>2, <2>3, <3>3
  <2>4. CASE m # 0
    <3>1. m - 1 \in Nat /\ ~(m <= m - 1)
      BY <2>2, <2>4
    <3>2. PICK g : Good(m - 1, g)
      BY <2>1, <3>1 DEF T
    <3> DEFINE x == IF m \in B THEN base[m] ELSE step[<<m, g[lower[m]]>>]
               h == [n \in 0 .. m |-> IF n = m THEN x ELSE g[n]]
    <3>3. \A n \in 0 .. m : n = m \/ n \in 0 .. m - 1
      BY <2>2
    <3>3b. \A n \in 0 .. m - 1 : n \in 0 .. m /\ n # m /\ n \in Nat
      BY <2>2
    <3>3c. \A n \in 0 .. m : n \in Nat /\ n <= m
      BY <2>2
    <3>4. \A n \in 0 .. m : n \notin B => lower[n] \in 0 .. m - 1
      BY <2>2
    <3>5. x \in S
      <4>1. CASE m \in B
        BY <4>1
      <4>2. CASE m \notin B
        <5>1. lower[m] \in 0 .. m - 1
          BY <2>2, <3>4, <4>2
        <5>2. g[lower[m]] \in S
          BY <3>2, <5>1
        <5>3. <<m, g[lower[m]]>> \in Nat \X S
          BY <2>2, <5>2
        <5> QED BY <4>2, <5>3
      <4> QED BY <4>1, <4>2
    <3>6. h \in [0 .. m -> S]
      BY <3>2, <3>3, <3>5
    <3>7. h[m] = x /\ \A n \in 0 .. m - 1 : h[n] = g[n]
      BY <2>2, <3>3b
    <3> HIDE DEF h
    <3>8. ASSUME NEW n \in 0 .. m
          PROVE  h[n] = IF n \in B THEN base[n] ELSE step[<<n, h[lower[n]]>>]
      <4>1. n \notin B => h[lower[n]] = g[lower[n]]
        BY <3>4, <3>7
      <4>2. CASE n = m
        BY <3>7, <4>1, <4>2
      <4>3. CASE n \in 0 .. m - 1
        <5>1. g[n] = IF n \in B THEN base[n] ELSE step[<<n, g[lower[n]]>>]
          BY <1>0, <3>2, <4>3 DEF Solves
        <5> QED BY <3>7, <4>1, <4>3, <5>1
      <4> QED BY <3>3, <4>2, <4>3
    <3>9. Good(m, h)
      BY <1>0, <3>6, <3>8 DEF Solves
    <3> QED BY <2>2, <3>9
  <2> QED BY <2>3, <2>4
<1>2. ASSUME NEW m \in Nat, NEW k \in Nat, m <= k, NEW g, NEW h, Good(m, g), Good(k, h)
      PROVE  \A n \in 0 .. m : g[n] = h[n]
  <2> DEFINE T == {n \in 0 .. m : g[n] # h[n]}
  <2> SUFFICES ASSUME T # {} PROVE FALSE
    OBVIOUS
  <2>0. T \in SUBSET Nat
    OBVIOUS
  <2> HIDE DEF T
  <2>1. PICK n \in T : \A j \in T : n <= j
    BY <2>0, Least
  <2>2. n \in 0 .. m /\ n \in 0 .. k /\ n \in Nat /\ g[n] # h[n]
    BY <1>2, <2>1 DEF T
  <2>3. /\ g[n] = IF n \in B THEN base[n] ELSE step[<<n, g[lower[n]]>>]
        /\ h[n] = IF n \in B THEN base[n] ELSE step[<<n, h[lower[n]]>>]
    BY <1>0, <1>2, <2>2 DEF Solves
  <2>4. n \notin B => lower[n] \in 0 .. m /\ ~(n <= lower[n])
    BY <2>2
  <2>5. n \notin B => g[lower[n]] = h[lower[n]]
    BY <2>1, <2>4 DEF T
  <2> QED BY <2>2, <2>3, <2>5
<1> DEFINE G(m) == CHOOSE g : Good(m, g)
           f == [n \in Nat |-> G(n)[n]]
<1>3. \A m \in Nat : Good(m, G(m))
  BY <1>1
<1> HIDE DEF G
<1>4. \A n \in Nat : n \in 0 .. n
  OBVIOUS
<1>5. f \in [Nat -> S]
  BY <1>3, <1>4
<1>6. ASSUME NEW n \in Nat
      PROVE  f[n] = IF n \in B THEN base[n] ELSE step[<<n, f[lower[n]]>>]
  <2>1. G(n)[n] = IF n \in B THEN base[n] ELSE step[<<n, G(n)[lower[n]]>>]
    BY <1>0, <1>3, <1>4 DEF Solves
  <2>2. CASE n \in B
    BY <2>1, <2>2
  <2>3. CASE n \notin B
    <3> DEFINE l == lower[n]
    <3>1. l \in Nat /\ l <= n
      BY <2>3
    <3> HIDE DEF l
    <3>2. G(l)[l] = G(n)[l]
      <4>1. Good(l, G(l)) /\ Good(n, G(n)) /\ l \in 0 .. l
        BY <1>3, <1>4, <3>1
      <4> HIDE DEF Good
      <4> QED BY <1>2, <3>1, <4>1
    <3>3. f[l] = G(l)[l] /\ f[n] = G(n)[n]
      BY <3>1
    <3> QED BY <2>1, <2>3, <3>2, <3>3 DEF l
  <2> QED BY <2>2, <2>3
<1> QED BY <1>5, <1>6 DEF Recurs

-----------------------------------------------------------------------------
(* The remaining length *)

\* A number is its lowest digit and the rest, and the rest is smaller.
LEMMA Digit ==
  ASSUME NEW n \in Nat
  PROVE  /\ n % Radix \in 0 .. Radix - 1 /\ n \div Radix \in Nat
         /\ n = (n % Radix) + Radix * (n \div Radix)
         /\ n >= Radix => n \div Radix < n /\ n \div Radix > 0
         /\ (Radix + (n % Radix)) % Radix = n % Radix
         /\ n < Radix => n % Radix = n
<1>1. Radix \in Nat /\ Radix > 1
  BY FramingAssumption
<1> DEFINE q == n \div Radix
           d == n % Radix
<1>2. q \in Nat /\ d \in 0 .. Radix - 1 /\ n = d + Radix * q
  BY <1>1
<1>3. n < Radix => d = n
  BY <1>1
<1>4. (Radix + d) % Radix = d
  BY <1>1, <1>2
<1> HIDE DEF q, d
<1>5. ASSUME n >= Radix PROVE q < n /\ q > 0
  <2>1. q # 0
    BY <1>1, <1>2, <1>5
  <2>2. Radix * q >= 2 * q
    BY <1>1, <1>2
  <2> DEFINE p == Radix * q
  <2>3. p \in Nat /\ n = d + p /\ p >= 2 * q
    BY <1>1, <1>2, <2>2
  <2> HIDE DEF p
  <2> QED BY <1>2, <2>1, <2>3
<1> QED BY <1>2, <1>3, <1>4, <1>5 DEF q, d

\* A digit is a number.
LEMMA DigitNat == \A n \in Nat : n % Radix \in Nat
<1> SUFFICES ASSUME NEW n \in Nat PROVE n % Radix \in Nat
  OBVIOUS
<1> QED BY FramingAssumption, Digit

\* Multiplier is the function its equation asks for.
LEMMA MultiplierIs ==
  /\ Multiplier \in [Nat -> Nat]
  /\ \A i \in Nat : Multiplier[i] = IF i = 0 THEN 1 ELSE Radix * Multiplier[i - 1]
<1>1. Radix \in Nat
  BY FramingAssumption
<1> DEFINE B == {0}
           base == [i \in B |-> 1]
           lower == [i \in Nat |-> IF i = 0 THEN 0 ELSE i - 1]
           step == [a \in Nat \X Nat |-> Radix * a[2]]
<1>2. /\ B \in SUBSET Nat /\ base \in [B -> Nat]
      /\ lower \in [Nat -> Nat] /\ step \in [Nat \X Nat -> Nat]
  BY <1>1
<1>3. \A i \in Nat \ B : lower[i] < i /\ lower[i] = i - 1
  OBVIOUS
<1>3b. \A i : i \in B <=> i = 0
  OBVIOUS
<1>4. \A i \in Nat, x \in Nat : step[<<i, x>>] = Radix * x
  OBVIOUS
<1>5. base[0] = 1
  OBVIOUS
<1> HIDE DEF B, base, lower, step
<1>6a. PICK f : Recurs(f, Nat, B, base, lower, step)
  BY <1>2, <1>3, Recursion
<1>6. /\ f \in [Nat -> Nat]
      /\ \A i \in Nat : f[i] = IF i \in B THEN base[i] ELSE step[<<i, f[lower[i]]>>]
  BY <1>6a DEF Recurs
<1>7. ASSUME NEW i \in Nat PROVE f[i] = IF i = 0 THEN 1 ELSE Radix * f[i - 1]
  <2>1. CASE i = 0
    BY <1>3b, <1>5, <1>6, <2>1
  <2>2. CASE i # 0
    <3>1. f[i] = step[<<i, f[i - 1]>>] /\ f[i - 1] \in Nat
      BY <1>3, <1>3b, <1>6, <2>2
    <3> QED BY <1>4, <2>2, <3>1
  <2> QED BY <2>1, <2>2
<1>8. f = [i \in Nat |-> IF i = 0 THEN 1 ELSE Radix * f[i - 1]]
  BY <1>6, <1>7
<1>9. Multiplier = [i \in Nat |-> IF i = 0 THEN 1 ELSE Radix * Multiplier[i - 1]]
  BY <1>8 DEF Multiplier
<1> DEFINE M == Multiplier
<1>10. \A i \in Nat : M[i] = IF i = 0 THEN 1 ELSE Radix * M[i - 1]
  BY <1>9
<1> HIDE DEF M
<1>11. \A i \in Nat : M[i] \in Nat
  <2> DEFINE T == {i \in Nat : M[i] \notin Nat}
  <2> SUFFICES ASSUME T # {} PROVE FALSE
    OBVIOUS
  <2>0. T \in SUBSET Nat
    OBVIOUS
  <2> HIDE DEF T
  <2>1. PICK i \in T : \A j \in T : i <= j
    BY <2>0, Least
  <2>2. i \in Nat /\ M[i] \notin Nat
    BY <2>1 DEF T
  <2>3. i # 0
    BY <1>10, <2>2
  <2>4. i - 1 \in Nat /\ ~(i <= i - 1)
    BY <2>2, <2>3
  <2>5. M[i - 1] \in Nat
    BY <2>1, <2>4 DEF T
  <2>6. Radix * M[i - 1] \in Nat
    BY <1>1, <2>5
  <2> QED BY <1>10, <2>2, <2>3, <2>6
<1> QED BY <1>9, <1>10, <1>11 DEF M

\* mqtt_encode_remaining_length gives bytes, at least one, digit by digit.
LEMMA EncodeIs ==
  /\ Encode \in [Nat -> Seq(Nat)]
  /\ \A n \in Nat : Encode[n] = IF n < Radix THEN <<n>>
                                ELSE <<Radix + (n % Radix)>> \o Encode[n \div Radix]
<1>1. Radix \in Nat
  BY FramingAssumption
<1> DEFINE B == 0 .. Radix - 1
           base == [n \in B |-> <<n>>]
           lower == [n \in Nat |-> n \div Radix]
           step == [a \in Nat \X Seq(Nat) |-> <<Radix + (a[1] % Radix)>> \o a[2]]
<1>2. base \in [B -> Seq(Nat)] /\ B \in SUBSET Nat
  OBVIOUS
<1>3. lower \in [Nat -> Nat] /\ \A n \in Nat : lower[n] = n \div Radix
  BY Digit
<1>4. \A n \in Nat \ B : lower[n] < n
  BY <1>1, <1>3, Digit
<1>5. \A n \in Nat, x \in Seq(Nat) :
        step[<<n, x>>] = <<Radix + (n % Radix)>> \o x
  OBVIOUS
<1>6. step \in [Nat \X Seq(Nat) -> Seq(Nat)]
  <2>1. ASSUME NEW a \in Nat \X Seq(Nat)
        PROVE  <<Radix + (a[1] % Radix)>> \o a[2] \in Seq(Nat)
    <3>1. a[1] \in Nat /\ a[2] \in Seq(Nat)
      BY <2>1
    <3>2. Radix + (a[1] % Radix) \in Nat
      <4>1. \A n \in Nat : Radix + (n % Radix) \in Nat
        BY <1>1, Digit
      <4> QED BY <3>1, <4>1
    <3>3. <<Radix + (a[1] % Radix)>> \in Seq(Nat)
      BY <3>2
    <3> QED BY <3>1, <3>3, ConcatProperties
  <2> QED BY <2>1
<1>7. \A n \in B : base[n] = <<n>>
  OBVIOUS
<1>7b. \A n \in Nat : n \in B <=> n < Radix
  BY <1>1
<1> HIDE DEF base, lower, step, B
<1>8a. PICK f : Recurs(f, Seq(Nat), B, base, lower, step)
  BY <1>2, <1>3, <1>4, <1>6, Recursion
<1>8. /\ f \in [Nat -> Seq(Nat)]
      /\ \A n \in Nat : f[n] = IF n \in B THEN base[n] ELSE step[<<n, f[lower[n]]>>]
  BY <1>8a DEF Recurs
<1>9. ASSUME NEW n \in Nat
      PROVE  f[n] = IF n < Radix THEN <<n>> ELSE <<Radix + (n % Radix)>> \o f[n \div Radix]
  <2>1. CASE n \in B
    BY <1>7, <1>7b, <1>8, <2>1
  <2>2. CASE n \notin B
    <3>1. f[n] = step[<<n, f[n \div Radix]>>] /\ f[n \div Radix] \in Seq(Nat)
      BY <1>3, <1>8, <2>2
    <3> QED BY <1>5, <1>7b, <2>2, <3>1
  <2> QED BY <2>1, <2>2
<1>10. f = [n \in Nat |-> IF n < Radix THEN <<n>>
                          ELSE <<Radix + (n % Radix)>> \o f[n \div Radix]]
  BY <1>8, <1>9
<1>11. Encode = [n \in Nat |-> IF n < Radix THEN <<n>>
                               ELSE <<Radix + (n % Radix)>> \o Encode[n \div Radix]]
  BY <1>10 DEF Encode
<1> DEFINE E == Encode
<1>12. \A n \in Nat : E[n] = IF n < Radix THEN <<n>>
                             ELSE <<Radix + (n % Radix)>> \o E[n \div Radix]
  BY <1>11
<1> HIDE DEF E
<1>13. \A n \in Nat : E[n] \in Seq(Nat)
  <2> DEFINE T == {n \in Nat : E[n] \notin Seq(Nat)}
  <2> SUFFICES ASSUME T # {} PROVE FALSE
    OBVIOUS
  <2>0. T \in SUBSET Nat
    OBVIOUS
  <2> HIDE DEF T
  <2>1. PICK n \in T : \A j \in T : n <= j
    BY <2>0, Least
  <2>2. n \in Nat /\ E[n] \notin Seq(Nat)
    BY <2>1 DEF T
  <2>3. ~(n < Radix)
    <3>1. <<n>> \in Seq(Nat)
      BY <2>2
    <3> QED BY <1>12, <2>2, <3>1
  <2>4. n \div Radix \in Nat /\ ~(n <= n \div Radix)
    BY <1>1, <2>2, <2>3, Digit
  <2>5. E[n \div Radix] \in Seq(Nat)
    BY <2>1, <2>4 DEF T
  <2>6. Radix + (n % Radix) \in Nat
    BY <1>1, <2>2, Digit
  <2>7. <<Radix + (n % Radix)>> \in Seq(Nat)
    BY <2>6
  <2>8. <<Radix + (n % Radix)>> \o E[n \div Radix] \in Seq(Nat)
    BY <2>5, <2>7, ConcatProperties
  <2> QED BY <1>12, <2>2, <2>3, <2>8
<1> QED BY <1>11, <1>12, <1>13 DEF E

\* All digits of a number but the last have the continuation bit.
LEMMA EncodeDigits ==
  ASSUME NEW n \in Nat
  PROVE  /\ Len(Encode[n]) \in Nat \ {0}
         /\ \A i \in 1 .. Len(Encode[n]) : /\ Encode[n][i] \in Nat
                                           /\ Encode[n][i] < Radix <=> i = Len(Encode[n])
<1>1. Radix \in Nat /\ Radix > 0
  BY FramingAssumption
<1> DEFINE Good(m) == /\ Len(Encode[m]) \in Nat \ {0}
                      /\ \A i \in 1 .. Len(Encode[m]) :
                           /\ Encode[m][i] \in Nat
                           /\ Encode[m][i] < Radix <=> i = Len(Encode[m])
           T == {m \in Nat : ~Good(m)}
<1> SUFFICES ASSUME T # {} PROVE FALSE
  OBVIOUS
<1>0. T \in SUBSET Nat
  OBVIOUS
<1> HIDE DEF T
<1>2. PICK m \in T : \A j \in T : m <= j
  BY <1>0, Least
<1>3. m \in Nat /\ ~Good(m)
  BY <1>2 DEF T
<1>4. CASE m < Radix
  <2>1. Encode[m] = <<m>>
    BY <1>3, <1>4, EncodeIs
  <2>2. Len(<<m>>) = 1 /\ <<m>>[1] = m
    BY <1>3
  <2> QED BY <1>3, <1>4, <2>1, <2>2
<1>5. CASE ~(m < Radix)
  <2> DEFINE r == m \div Radix
             d == Radix + (m % Radix)
             e == Encode[r]
             f == Encode[m]
  <2>1. r \in Nat /\ ~(m <= r) /\ d \in Nat /\ d >= Radix
    BY <1>1, <1>3, <1>5, Digit
  <2>2. e \in Seq(Nat) /\ f = <<d>> \o e
    BY <1>3, <1>5, <2>1, EncodeIs
  <2>3. Good(r)
    BY <1>2, <2>1 DEF T
  <2>4. /\ Len(e) \in Nat \ {0}
        /\ \A i \in 1 .. Len(e) : e[i] \in Nat /\ (e[i] < Radix <=> i = Len(e))
    BY <2>3
  <2> HIDE DEF d, e, f
  <2>5. <<d>> \in Seq(Nat) /\ Len(<<d>>) = 1 /\ <<d>>[1] = d
    BY <2>1
  <2>6. /\ Len(f) = 1 + Len(e)
        /\ \A i \in 1 .. 1 + Len(e) : f[i] = IF i <= 1 THEN <<d>>[i] ELSE e[i - 1]
    BY <2>2, <2>5, ConcatProperties
  <2>7. ASSUME NEW i \in 1 .. Len(f)
        PROVE  f[i] \in Nat /\ (f[i] < Radix <=> i = Len(f))
    <3>1. CASE i = 1
      <4>1. f[1] = d
        BY <2>4, <2>5, <2>6, <3>1
      <4> QED BY <1>1, <2>1, <2>4, <2>6, <3>1, <4>1
    <3>2. CASE i # 1
      <4>1. i - 1 \in 1 .. Len(e) /\ f[i] = e[i - 1] /\ (i - 1 = Len(e) <=> i = Len(f))
        BY <2>4, <2>6, <3>2
      <4> QED BY <2>4, <4>1
    <3> QED BY <3>1, <3>2
  <2>8. Len(f) \in Nat \ {0}
    BY <2>4, <2>6
  <2>9. Good(m)
    BY <2>7, <2>8 DEF f
  <2> QED BY <1>3, <2>9
<1> QED BY <1>4, <1>5

\* A number below the multiplier of a byte is told in the bytes before it.
LEMMA EncodeFits ==
  ASSUME NEW l \in Nat, l # 0, NEW n \in Nat, n < Multiplier[l]
  PROVE  Len(Encode[n]) <= l
<1>1. Radix \in Nat /\ Radix > 0
  BY FramingAssumption
<1> DEFINE T == {k \in Nat \ {0} : \E m \in Nat : m < Multiplier[k] /\ ~(Len(Encode[m]) <= k)}
<1> SUFFICES ASSUME T # {} PROVE FALSE
  OBVIOUS
<1>0. T \in SUBSET Nat
  OBVIOUS
<1> HIDE DEF T
<1>2. PICK k \in T : \A j \in T : k <= j
  BY <1>0, Least
<1>3. k \in Nat \ {0}
  BY <1>2 DEF T
<1>4. PICK m \in Nat : m < Multiplier[k] /\ ~(Len(Encode[m]) <= k)
  BY <1>2 DEF T
<1>5. CASE m < Radix
  <2>1. Encode[m] = <<m>>
    BY <1>5, EncodeIs
  <2>2. Len(<<m>>) = 1
    OBVIOUS
  <2> QED BY <1>3, <1>4, <2>1, <2>2
<1>6. CASE ~(m < Radix)
  <2> DEFINE r == m \div Radix
             d == Radix + (m % Radix)
             e == Encode[r]
             M == Multiplier[k - 1]
  <2>1. r \in Nat /\ d \in Nat /\ m >= Radix * r /\ r > 0
    <3>1. /\ m % Radix \in Nat /\ r \in Nat /\ r > 0
          /\ m = (m % Radix) + Radix * r
      BY <1>1, <1>6, Digit
    <3> DEFINE p == Radix * r
    <3>2. p \in Nat
      BY <1>1, <3>1
    <3> HIDE DEF p, r
    <3> QED BY <1>1, <3>1, <3>2 DEF p
  <2>2. e \in Seq(Nat) /\ Encode[m] = <<d>> \o e
    BY <1>6, <2>1, EncodeIs
  <2>3. Len(Encode[m]) = 1 + Len(e) /\ Len(e) \in Nat
    <3> HIDE DEF d, e
    <3>1. <<d>> \in Seq(Nat) /\ Len(<<d>>) = 1
      BY <2>1
    <3> QED BY <2>2, <3>1, ConcatProperties, LenProperties
  <2>4. M \in Nat /\ Multiplier[k] = Radix * M
    BY <1>3, MultiplierIs
  <2>5. r < M
    <3> HIDE DEF r, M
    <3>1. SUFFICES ASSUME r >= M PROVE FALSE
      BY <2>1, <2>4
    <3>2. Radix * r >= Radix * M
      BY <1>1, <2>1, <2>4, <3>1
    <3> DEFINE p == Radix * r
               q == Radix * M
    <3>3. p \in Nat /\ q \in Nat /\ m >= p /\ p >= q /\ m < q
      BY <1>1, <1>4, <2>1, <2>4, <3>2
    <3> HIDE DEF p, q
    <3> QED BY <3>3
  <2>6. k # 1
    <3>1. k = 1 => M = 1
      BY MultiplierIs
    <3> QED BY <2>1, <2>5, <3>1
  <2>7. k - 1 \in Nat \ {0} /\ ~(k <= k - 1)
    BY <1>3, <2>6
  <2>8. k - 1 \notin T
    BY <1>2, <2>7
  <2>9. Len(e) <= k - 1
    BY <2>1, <2>5, <2>7, <2>8 DEF T
  <2> HIDE DEF e
  <2> QED BY <1>3, <1>4, <2>3, <2>9
<1> QED BY <1>5, <1>6

\* What Decode reads from the digits up to place k.
Value(data, k) ==
  LET v[i \in 1 .. k + 1] == IF i > k THEN 0 ELSE (data[i] % Radix) + Radix * v[i + 1]
  IN  v

\* The values of the digits from each byte on, which Decode sums up, exist.
LEMMA ValueIs ==
  ASSUME NEW data \in Seq(Nat), NEW k \in 0 .. Len(data)
  PROVE  /\ Value(data, k)[k + 1] = 0
         /\ \A i \in 1 .. k :
              Value(data, k)[i] = (data[i] % Radix) + Radix * Value(data, k)[i + 1]
<1>1. Radix \in Nat
  BY FramingAssumption
<1>2. k \in Nat /\ \A i \in 1 .. k : data[i] \in Nat
  <2>1. Len(data) \in Nat
    BY LenProperties
  <2>2. \A i \in 1 .. k : i \in 1 .. Len(data)
    BY <2>1
  <2> QED BY <2>1, <2>2, ElementOfSeq
<1> DEFINE B == {0}
           base == [i \in B |-> 0]
           lower == [i \in Nat |-> IF i = 0 THEN 0 ELSE i - 1]
           step == [a \in Nat \X Nat |->
                      IF a[1] \in 1 .. k THEN (data[k + 1 - a[1]] % Radix) + Radix * a[2] ELSE 0]
<1>3. ASSUME NEW j \in Nat, NEW x \in Nat
      PROVE  IF j \in 1 .. k THEN (data[k + 1 - j] % Radix) + Radix * x \in Nat ELSE TRUE
  <2>1. Radix * x \in Nat
    BY <1>1
  <2>2. j \in 1 .. k => k + 1 - j \in 1 .. k
    BY <1>2
  <2>3. j \in 1 .. k => data[k + 1 - j] % Radix \in Nat
    BY <1>2, <2>2, DigitNat
  <2> DEFINE p == Radix * x
             q == data[k + 1 - j] % Radix
  <2> HIDE DEF p, q
  <2>4. p \in Nat /\ (j \in 1 .. k => q \in Nat)
    BY <2>1, <2>3 DEF p, q
  <2>5. j \in 1 .. k => q + p \in Nat
    BY <2>4
  <2> QED BY <2>5 DEF p, q
<1>4. step \in [Nat \X Nat -> Nat]
  <2>1. ASSUME NEW a \in Nat \X Nat
        PROVE  (IF a[1] \in 1 .. k THEN (data[k + 1 - a[1]] % Radix) + Radix * a[2] ELSE 0) \in Nat
    <3>1. a[1] \in Nat /\ a[2] \in Nat
      OBVIOUS
    <3> QED BY <1>3, <3>1
  <2> QED BY <2>1
<1>5. ASSUME NEW j \in 1 .. k, NEW x \in Nat
      PROVE  step[<<j, x>>] = (data[k + 1 - j] % Radix) + Radix * x
  <2>1. <<j, x>> \in Nat \X Nat /\ <<j, x>>[1] = j /\ <<j, x>>[2] = x
    BY <1>2
  <2> QED BY <2>1
<1>6. B \in SUBSET Nat /\ base \in [B -> Nat] /\ lower \in [Nat -> Nat]
  OBVIOUS
<1>7. \A i \in Nat \ B : lower[i] < i /\ lower[i] = i - 1
  OBVIOUS
<1>8. base[0] = 0 /\ \A i : i \in B <=> i = 0
  OBVIOUS
<1> HIDE DEF B, base, lower, step
<1>9. PICK f : Recurs(f, Nat, B, base, lower, step)
  BY <1>4, <1>6, <1>7, Recursion
<1>10. /\ f \in [Nat -> Nat]
       /\ \A i \in Nat : f[i] = IF i \in B THEN base[i] ELSE step[<<i, f[lower[i]]>>]
  BY <1>9 DEF Recurs
<1> DEFINE g == [i \in 1 .. k + 1 |-> f[k + 1 - i]]
<1>11. f[0] = 0
  BY <1>8, <1>10
<1>12. ASSUME NEW i \in 1 .. k PROVE g[i] = (data[i] % Radix) + Radix * g[i + 1]
  <2> DEFINE j == k + 1 - i
  <2>1. j \in 1 .. k /\ j \in Nat /\ j # 0 /\ j - 1 \in Nat /\ k + 1 - j = i
        /\ k + 1 - (i + 1) = j - 1 /\ i \in 1 .. k + 1 /\ i + 1 \in 1 .. k + 1
    BY <1>2
  <2>2. g[i] = f[j] /\ g[i + 1] = f[j - 1]
    BY <2>1
  <2> HIDE DEF j, g
  <2>3. f[j] = step[<<j, f[j - 1]>>] /\ f[j - 1] \in Nat
    BY <1>7, <1>8, <1>10, <2>1
  <2>4. f[j] = (data[k + 1 - j] % Radix) + Radix * f[j - 1]
    BY <1>5, <2>1, <2>3
  <2> QED BY <2>1, <2>2, <2>4
<1>13. g[k + 1] = 0
  <2>1. k + 1 \in 1 .. k + 1 /\ k + 1 - (k + 1) = 0
    BY <1>2
  <2> QED BY <1>11, <2>1
<1>14. \A i \in 1 .. k + 1 : (i > k <=> i = k + 1) /\ (i # k + 1 => i \in 1 .. k)
  BY <1>2
<1>15. g = [i \in 1 .. k + 1 |-> IF i > k THEN 0 ELSE (data[i] % Radix) + Radix * g[i + 1]]
  <2>1. \A i \in 1 .. k + 1 :
          g[i] = IF i > k THEN 0 ELSE (data[i] % Radix) + Radix * g[i + 1]
    <3> HIDE DEF g
    <3> QED BY <1>12, <1>13, <1>14
  <2>2. g = [i \in 1 .. k + 1 |-> g[i]]
    OBVIOUS
  <2> HIDE DEF g
  <2> QED BY <2>1, <2>2
<1> DEFINE V == Value(data, k)
<1> HIDE DEF g
<1>16. V = [i \in 1 .. k + 1 |-> IF i > k THEN 0 ELSE (data[i] % Radix) + Radix * V[i + 1]]
  BY <1>15 DEF Value
<1> HIDE DEF V
<1>17. \A i \in 1 .. k + 1 : V[i] = IF i > k THEN 0 ELSE (data[i] % Radix) + Radix * V[i + 1]
  BY <1>16
<1>18. k + 1 \in 1 .. k + 1 /\ \A i \in 1 .. k : i \in 1 .. k + 1 /\ ~(i > k)
  BY <1>2
<1>19. V[k + 1] = 0
  BY <1>14, <1>17, <1>18
<1>20. \A i \in 1 .. k : V[i] = (data[i] % Radix) + Radix * V[i + 1]
  BY <1>17, <1>18
<1> QED BY <1>19, <1>20 DEF V

\* What follows the next byte, seen from there: arithmetic of indices.
LEMMA Shift ==
  ASSUME NEW k \in Nat, NEW i \in 1 .. k, NEW l \in Nat \ {0}, 1 + l = k + 1 - i
  PROVE  /\ i + 1 \in 1 .. k /\ l = k + 1 - (i + 1)
         /\ \A j \in 1 .. k + 1 - (i + 1) :
              /\ j + 1 \in 1 .. k + 1 - i /\ j + 1 \in 1 .. 1 + l /\ ~(j + 1 <= 1)
              /\ j + 1 - 1 = j /\ i - 1 + (j + 1) = (i + 1) - 1 + j
OBVIOUS

\* A sequence that holds the digits of a number from place i to place k has that value there.
LEMMA ValueOf ==
  ASSUME NEW data \in Seq(Nat), NEW k \in 1 .. Len(data), NEW n \in Nat,
         k = Len(Encode[n]), \A j \in 1 .. k : data[j] = Encode[n][j]
  PROVE  Value(data, k)[1] = n
<1>1. Radix \in Nat /\ Radix > 0 /\ k \in Nat
  BY FramingAssumption
<1> DEFINE V == Value(data, k)
           Holds(m, i) == /\ Len(Encode[m]) = k + 1 - i
                          /\ \A j \in 1 .. k + 1 - i : data[i - 1 + j] = Encode[m][j]
           T == {m \in Nat : \E i \in 1 .. k : Holds(m, i) /\ V[i] # m}
<1>2. T = {}
  <2> SUFFICES ASSUME T # {} PROVE FALSE
    OBVIOUS
  <2>0. T \in SUBSET Nat
    OBVIOUS
  <2> HIDE DEF T
  <2>1. PICK m \in T : \A j \in T : m <= j
    BY <2>0, Least
  <2>2. m \in Nat
    BY <2>1 DEF T
  <2>3. PICK i \in 1 .. k : Holds(m, i) /\ V[i] # m
    BY <2>1 DEF T
  <2>4. i \in Nat /\ 1 \in 1 .. k + 1 - i /\ i - 1 + 1 = i /\ k + 1 \in 1 .. k + 1
    BY <1>1
  <2>5. data[i] = Encode[m][1]
    BY <2>3, <2>4
  <2> DEFINE x == V[i + 1]
  <2>6. V[i] = (data[i] % Radix) + Radix * x
    BY <1>1, ValueIs
  <2>7. V[k + 1] = 0
    BY <1>1, ValueIs
  <2> HIDE DEF V
  <2>8. CASE m < Radix
    <3>1. Encode[m] = <<m>> /\ Len(<<m>>) = 1 /\ <<m>>[1] = m
      BY <2>2, <2>8, EncodeIs
    <3>2. i = k
      BY <2>3, <2>4, <3>1
    <3>3. x = 0
      BY <2>7, <3>2
    <3>4. V[i] = (m % Radix) + Radix * 0 /\ m % Radix = m
      BY <2>2, <2>5, <2>6, <2>8, <3>1, <3>3, Digit
    <3> QED BY <1>1, <2>2, <2>3, <3>4
  <2>9. CASE ~(m < Radix)
    <3> DEFINE r == m \div Radix
               d == Radix + (m % Radix)
               e == Encode[r]
               f == Encode[m]
    <3>1. /\ r \in Nat /\ ~(m <= r) /\ d \in Nat
          /\ d % Radix = m % Radix /\ m = (m % Radix) + Radix * r
      BY <1>1, <2>2, <2>9, Digit
    <3>2. e \in Seq(Nat) /\ f = <<d>> \o e
      BY <2>2, <2>9, <3>1, EncodeIs
    <3>2b. Len(e) \in Nat \ {0}
      BY <3>1, EncodeDigits
    <3>h. Len(f) = k + 1 - i /\ \A j \in 1 .. k + 1 - i : data[i - 1 + j] = f[j]
      BY <2>3
    <3>g. data[i] = f[1]
      BY <2>5
    <3> HIDE DEF d, e, f
    <3>3. <<d>> \in Seq(Nat) /\ Len(<<d>>) = 1 /\ <<d>>[1] = d
      BY <3>1
    <3>4. /\ Len(f) = 1 + Len(e)
          /\ \A j \in 1 .. 1 + Len(e) : f[j] = IF j <= 1 THEN <<d>>[j] ELSE e[j - 1]
      BY <3>2, <3>3, ConcatProperties
    <3>5. i + 1 \in 1 .. k /\ Len(e) = k + 1 - (i + 1)
      <4> DEFINE l == Len(e)
      <4>1. l \in Nat \ {0} /\ 1 + l = k + 1 - i
        BY <3>2b, <3>4, <3>h
      <4> HIDE DEF l
      <4>2. i + 1 \in 1 .. k /\ l = k + 1 - (i + 1)
        BY <1>1, <4>1, Shift
      <4> QED BY <4>2 DEF l
    <3>6. ASSUME NEW j \in 1 .. k + 1 - (i + 1)
          PROVE  data[(i + 1) - 1 + j] = e[j]
      <4>1. /\ j + 1 \in 1 .. k + 1 - i /\ j + 1 \in 1 .. 1 + Len(e) /\ ~(j + 1 <= 1)
            /\ j + 1 - 1 = j /\ i - 1 + (j + 1) = (i + 1) - 1 + j
        <5> DEFINE l == Len(e)
        <5>1. l \in Nat \ {0} /\ 1 + l = k + 1 - i
          BY <3>2b, <3>4, <3>h
        <5> HIDE DEF l
        <5>2. /\ j + 1 \in 1 .. k + 1 - i /\ j + 1 \in 1 .. 1 + l /\ ~(j + 1 <= 1)
              /\ j + 1 - 1 = j /\ i - 1 + (j + 1) = (i + 1) - 1 + j
          BY <1>1, <5>1, Shift
        <5> QED BY <5>2 DEF l
      <4>2. data[i - 1 + (j + 1)] = f[j + 1]
        BY <3>h, <4>1
      <4>3. f[j + 1] = e[j]
        <5>1. \A a \in 1 .. 1 + Len(e) : ~(a <= 1) => f[a] = e[a - 1]
          BY <3>4
        <5>2. f[j + 1] = e[j + 1 - 1]
          BY <4>1, <5>1
        <5> QED BY <4>1, <5>2
      <4> QED BY <4>1, <4>2, <4>3
    <3>7. Holds(r, i + 1)
      BY <3>5, <3>6 DEF e
    <3>8. V[i + 1] = r
      BY <2>1, <3>1, <3>5, <3>7 DEF T
    <3>9. f[1] = d
      BY <3>3, <3>4, <3>2b
    <3>10. V[i] = (d % Radix) + Radix * r
      BY <2>6, <3>8, <3>9, <3>g
    <3>11. V[i] = (m % Radix) + Radix * r
      BY <3>1, <3>10
    <3> QED BY <2>3, <3>1, <3>11
  <2> QED BY <2>8, <2>9
<1> HIDE DEF V
<1>3. 1 \in 1 .. k /\ k + 1 - 1 = k /\ \A j \in 1 .. k : 1 - 1 + j = j
  BY <1>1
<1>4. Holds(n, 1)
  BY <1>3
<1> HIDE DEF Holds
<1>5. V[1] = n
  BY <1>2, <1>3, <1>4
<1> QED BY <1>5 DEF V

\* A stream that starts with the digits of a number is decoded to it.
LEMMA DecodeWhole ==
  ASSUME NEW n \in Nat, Len(Encode[n]) <= LengthBytes, NEW data \in Seq(Nat),
         Len(Encode[n]) <= Len(data), \A j \in 1 .. Len(Encode[n]) : data[j] = Encode[n][j]
  PROVE  Decode(data) = [value |-> n, used |-> Len(Encode[n])]
<1> DEFINE k == Len(Encode[n])
<1>1. Radix \in Nat /\ LengthBytes \in Nat /\ Len(data) \in Nat
  BY FramingAssumption, LenProperties
<1>2. /\ k \in Nat \ {0}
      /\ \A i \in 1 .. k : /\ Encode[n][i] \in Nat
                           /\ Encode[n][i] < Radix <=> i = k
  BY EncodeDigits
<1>2b. k <= LengthBytes /\ k <= Len(data) /\ \A j \in 1 .. k : data[j] = Encode[n][j]
  OBVIOUS
<1> HIDE DEF k
<1>3. k \in Ends(data)
  <2>1. k \in 1 .. k /\ k \in 1 .. Len(data)
    BY <1>1, <1>2, <1>2b
  <2> QED BY <1>2, <1>2b, <2>1 DEF Ends
<1>4. \A i \in Ends(data) : i \in Nat /\ k <= i
  <2> SUFFICES ASSUME NEW i \in Ends(data) PROVE i \in Nat /\ k <= i
    OBVIOUS
  <2>1. i \in 1 .. Len(data) /\ i \in Nat /\ data[i] < Radix
    BY <1>1 DEF Ends
  <2>2. SUFFICES ASSUME ~(k <= i) PROVE FALSE
    BY <2>1
  <2>3. i \in 1 .. k /\ i # k
    BY <1>2, <2>1, <2>2
  <2> QED BY <1>2, <1>2b, <2>1, <2>3
<1>5. Min(Ends(data)) = k
  <2>1. \A x \in Ends(data) : (\A y \in Ends(data) : x <= y) => x = k
    <3> SUFFICES ASSUME NEW x \in Ends(data), \A y \in Ends(data) : x <= y PROVE x = k
      OBVIOUS
    <3>1. x <= k /\ k <= x /\ x \in Nat
      BY <1>3, <1>4
    <3> QED BY <1>2, <3>1
  <2>2. \E x \in Ends(data) : \A y \in Ends(data) : x <= y
    BY <1>3, <1>4
  <2> QED BY <2>1, <2>2 DEF Min
<1>6. Value(data, k)[1] = n
  <2>1. k \in 1 .. Len(data)
    BY <1>1, <1>2, <1>2b
  <2>2. k = Len(Encode[n])
    BY DEF k
  <2> QED BY <1>2b, <2>1, <2>2, ValueOf
<1>7. Decode(data) = [value |-> Value(data, k)[1], used |-> k]
  BY <1>3, <1>5 DEF Decode, Value
<1> QED BY <1>6, <1>7 DEF k

\* One that holds some of the digits, but not all, is not decoded yet.
LEMMA DecodePart ==
  ASSUME NEW n \in Nat, NEW data \in Seq(Nat),
         Len(data) < Len(Encode[n]), \A j \in 1 .. Len(data) : data[j] = Encode[n][j]
  PROVE  Decode(data) = NoLength
<1>1. Len(data) \in Nat
  BY LenProperties
<1>2. /\ Len(Encode[n]) \in Nat
      /\ \A i \in 1 .. Len(Encode[n]) : Encode[n][i] < Radix <=> i = Len(Encode[n])
  BY EncodeDigits
<1>3. \A i \in 1 .. Len(data) : i \in 1 .. Len(Encode[n]) /\ i # Len(Encode[n])
  BY <1>1, <1>2
<1>4. Ends(data) = {}
  BY <1>2, <1>3 DEF Ends
<1> QED BY <1>4 DEF Decode

-----------------------------------------------------------------------------
(* Sequences joined one after the other *)

\* A function over the numbers up to n is a sequence.
LEMMA FunctionSeq ==
  ASSUME NEW S, NEW n \in Nat, NEW f \in [1 .. n -> S]
  PROVE  f \in Seq(S) /\ Len(f) = n /\ DOMAIN f = 1 .. n
<1>1. f \in Seq(S)
  BY SeqDef
<1>2. Len(f) \in Nat /\ DOMAIN f = 1 .. Len(f)
  BY <1>1, LenProperties
<1> QED BY <1>1, <1>2

\* The elements of two sequences joined.
LEMMA Concat ==
  ASSUME NEW S, NEW s \in Seq(S), NEW t \in Seq(S),
         NEW m, m = Len(s), NEW n, n = Len(t), NEW u, u = s \o t
  PROVE  /\ m \in Nat /\ n \in Nat
         /\ u \in Seq(S) /\ Len(u) = m + n
         /\ \A i \in 1 .. m : u[i] = s[i]
         /\ \A i \in 1 .. n : u[m + i] = t[i]
<1>1. m \in Nat /\ n \in Nat
  BY LenProperties
<1>2. /\ u \in Seq(S) /\ Len(u) = m + n
      /\ \A i \in 1 .. m + n : u[i] = IF i <= m THEN s[i] ELSE t[i - m]
  BY ConcatProperties
<1>3. \A i \in 1 .. m : i \in 1 .. m + n /\ i <= m
  BY <1>1
<1>4. \A i \in 1 .. n : m + i \in 1 .. m + n /\ ~(m + i <= m) /\ m + i - m = i
  BY <1>1
<1>5. \A i \in 1 .. m : u[i] = s[i]
  BY <1>2, <1>3
<1>6. ASSUME NEW i \in 1 .. n PROVE u[m + i] = t[i]
  <2>1. u[m + i] = t[m + i - m]
    BY <1>2, <1>4
  <2> QED BY <1>4, <2>1
<1> QED BY <1>1, <1>2, <1>5, <1>6

\* The elements of a part of a sequence.
LEMMA Cut ==
  ASSUME NEW S, NEW s \in Seq(S), NEW i \in Nat \ {0}, NEW j \in Nat, j <= Len(s), i <= j + 1,
         NEW u, u = SubSeq(s, i, j), NEW n, n = j + 1 - i
  PROVE  n \in Nat /\ u \in Seq(S) /\ Len(u) = n /\ \A k \in 1 .. n : u[k] = s[i - 1 + k]
<1>1. Len(s) \in Nat
  BY LenProperties
<1>2. n \in Nat /\ j - i + 1 = n /\ (i <= j <=> n # 0)
  OBVIOUS
<1>3. \A k \in i .. j : k \in 1 .. Len(s)
  BY <1>1
<1>4. \A k \in i .. j : s[k] \in S
  BY <1>3, ElementOfSeq
<1> DEFINE v == SubSeq(s, i, j)
<1>5. /\ v \in Seq(S) /\ Len(v) = IF i <= j THEN j - i + 1 ELSE 0
      /\ \A k \in 1 .. j - i + 1 : v[k] = s[i + k - 1]
  BY <1>4, SubSeqProperties
<1>6. \A k \in 1 .. n : i + k - 1 = i - 1 + k
  BY <1>2
<1> HIDE DEF v
<1>7. Len(v) = n /\ \A k \in 1 .. n : v[k] = s[i - 1 + k]
  BY <1>2, <1>5, <1>6
<1> QED BY <1>2, <1>5, <1>7 DEF v

\* f[i] is what the first i pieces make.
Joins(f, q, S) ==
  /\ f \in [Nat -> Seq(S)]
  /\ f[0] = <<>>
  /\ \A i \in 1 .. Len(q) : f[i] = f[i - 1] \o q[i]

\* The sequences of q joined up to each one exist.
LEMMA JoinsExist ==
  ASSUME NEW S, NEW q \in Seq(Seq(S))
  PROVE  \E f : Joins(f, q, S)
<1> DEFINE n == Len(q)
           B == {0}
           base == [i \in B |-> <<>>]
           lower == [i \in Nat |-> IF i = 0 THEN 0 ELSE i - 1]
           step == [a \in Nat \X Seq(S) |-> IF a[1] \in 1 .. n THEN a[2] \o q[a[1]] ELSE <<>>]
<1>1. n \in Nat /\ \A i \in 1 .. n : q[i] \in Seq(S)
  BY LenProperties, ElementOfSeq
<1>2. <<>> \in Seq(S)
  OBVIOUS
<1>3. step \in [Nat \X Seq(S) -> Seq(S)]
  <2>1. ASSUME NEW a \in Nat \X Seq(S)
        PROVE  (IF a[1] \in 1 .. n THEN a[2] \o q[a[1]] ELSE <<>>) \in Seq(S)
    <3>1. a[2] \in Seq(S)
      OBVIOUS
    <3> QED BY <1>1, <1>2, <3>1, ConcatProperties
  <2> QED BY <2>1
<1>4. ASSUME NEW i \in 1 .. n, NEW x \in Seq(S) PROVE step[<<i, x>>] = x \o q[i]
  <2>1. <<i, x>> \in Nat \X Seq(S) /\ <<i, x>>[1] = i /\ <<i, x>>[2] = x
    BY <1>1
  <2> QED BY <2>1
<1>5. B \in SUBSET Nat /\ base \in [B -> Seq(S)] /\ lower \in [Nat -> Nat]
  BY <1>2
<1>6. \A i \in Nat \ B : lower[i] < i /\ lower[i] = i - 1
  OBVIOUS
<1>7. base[0] = <<>> /\ \A i : i \in B <=> i = 0
  OBVIOUS
<1> HIDE DEF B, base, lower, step
<1>8. PICK f : Recurs(f, Seq(S), B, base, lower, step)
  BY <1>3, <1>5, <1>6, Recursion
<1>9. /\ f \in [Nat -> Seq(S)]
      /\ \A i \in Nat : f[i] = IF i \in B THEN base[i] ELSE step[<<i, f[lower[i]]>>]
  BY <1>8 DEF Recurs
<1>10. f[0] = <<>>
  BY <1>7, <1>9
<1>11. ASSUME NEW i \in 1 .. n PROVE f[i] = f[i - 1] \o q[i]
  <2>1. i \in Nat /\ i # 0 /\ i - 1 \in Nat
    BY <1>1
  <2>2. f[i] = step[<<i, f[i - 1]>>] /\ f[i - 1] \in Seq(S)
    BY <1>6, <1>7, <1>9, <2>1
  <2> QED BY <1>4, <2>2
<1> QED BY <1>9, <1>10, <1>11 DEF Joins

\* FlattenSeq is all of them joined.
LEMMA FlattenIs ==
  ASSUME NEW S, NEW q \in Seq(Seq(S)), NEW f, Joins(f, q, S)
  PROVE  FlattenSeq(q) = f[Len(q)] /\ FlattenSeq(q) \in Seq(S)
<1> DEFINE n == Len(q)
           flattens(g) == g = [i \in 1 .. n |-> IF i = 1 THEN q[i] ELSE g[i - 1] \o q[i]]
           c == CHOOSE g : flattens(g)
           h == [i \in 1 .. n |-> f[i]]
<1>1. n \in Nat /\ \A i \in 1 .. n : q[i] \in Seq(S)
  BY LenProperties, ElementOfSeq
<1>2. f \in [Nat -> Seq(S)] /\ f[0] = <<>> /\ \A i \in 1 .. n : f[i] = f[i - 1] \o q[i]
  BY DEF Joins
<1>3. n = 0 => FlattenSeq(q) = <<>>
  <2>1. n = 0 => q = <<>>
    BY EmptySeq
  <2> QED BY <2>1 DEF FlattenSeq
<1>4. n # 0 => FlattenSeq(q) = c[n]
  BY DEF FlattenSeq
<1>5. ASSUME NEW i \in 1 .. n PROVE h[i] = IF i = 1 THEN q[i] ELSE h[i - 1] \o q[i]
  <2>1. CASE i = 1
    <3>1. f[1] = f[1 - 1] \o q[1] /\ 1 - 1 = 0 /\ q[1] \in Seq(S)
      <4>1. 1 \in 1 .. n /\ 1 - 1 = 0
        BY <2>1
      <4>2. f[1] = f[1 - 1] \o q[1]
        BY <1>2, <4>1
      <4>3. q[1] \in Seq(S)
        BY <1>1, <4>1
      <4> QED BY <4>1, <4>2, <4>3
    <3>2. <<>> \o q[1] = q[1]
      BY <3>1, ConcatEmptySeq
    <3> QED BY <1>2, <2>1, <3>1, <3>2
  <2>2. CASE i # 1
    <3>1. i - 1 \in 1 .. n
      BY <1>1, <2>2
    <3> QED BY <1>2, <2>2, <3>1
  <2> QED BY <2>1, <2>2
<1>6. flattens(h)
  <2> HIDE DEF h
  <2>1. h = [i \in 1 .. n |-> h[i]]
    BY DEF h
  <2> QED BY <1>5, <2>1
<1>7. flattens(c)
  <2> HIDE DEF h, flattens
  <2> QED BY <1>6
<1>8. \A i \in 1 .. n : c[i] = IF i = 1 THEN q[i] ELSE c[i - 1] \o q[i]
  BY <1>7
<1>9. \A i \in 1 .. n : h[i] = f[i]
  OBVIOUS
<1> HIDE DEF c, h
<1>10. \A i \in 1 .. n : c[i] = h[i]
  <2> DEFINE T == {i \in 1 .. n : c[i] # h[i]}
  <2> SUFFICES ASSUME T # {} PROVE FALSE
    OBVIOUS
  <2>0. T \in SUBSET Nat
    BY <1>1
  <2> HIDE DEF T
  <2>1. PICK i \in T : \A m \in T : i <= m
    BY <2>0, Least
  <2>2. i \in 1 .. n /\ c[i] # h[i]
    BY <2>1 DEF T
  <2>3. CASE i = 1
    BY <1>5, <1>8, <2>2, <2>3
  <2>4. CASE i # 1
    <3>1. i - 1 \in 1 .. n /\ ~(i <= i - 1)
      BY <1>1, <2>2, <2>4
    <3>2. c[i - 1] = h[i - 1]
      BY <2>1, <3>1 DEF T
    <3>3. c[i] = c[i - 1] \o q[i] /\ h[i] = h[i - 1] \o q[i]
      BY <1>5, <1>8, <2>2, <2>4
    <3> QED BY <2>2, <3>2, <3>3
  <2> QED BY <2>3, <2>4
<1>11. n # 0 => n \in 1 .. n
  BY <1>1
<1>12. FlattenSeq(q) = f[n]
  BY <1>2, <1>3, <1>4, <1>9, <1>10, <1>11
<1> QED BY <1>1, <1>2, <1>12

\* One more packet at the end.
LEMMA FlattenAppend ==
  ASSUME NEW S, NEW q \in Seq(Seq(S)), NEW s \in Seq(S)
  PROVE  FlattenSeq(Append(q, s)) = FlattenSeq(q) \o s
<1> DEFINE r == Append(q, s)
           n == Len(q)
<1>1. r \in Seq(Seq(S)) /\ Len(r) = n + 1 /\ n \in Nat
  BY AppendProperties, LenProperties
<1>2. r[n + 1] = s /\ \A i \in 1 .. n : r[i] = q[i]
  BY AppendProperties
<1> HIDE DEF r
<1>3. PICK f : Joins(f, r, S)
  BY <1>1, JoinsExist
<1>4. FlattenSeq(r) = f[n + 1]
  BY <1>1, <1>3, FlattenIs
<1>5. Joins(f, q, S)
  <2>1. \A i \in 1 .. n : i \in 1 .. n + 1
    BY <1>1
  <2> QED BY <1>1, <1>2, <1>3, <2>1 DEF Joins
<1>6. FlattenSeq(q) = f[n]
  BY <1>5, FlattenIs
<1>7. n + 1 \in 1 .. Len(r) /\ n + 1 - 1 = n
  BY <1>1
<1>8. f[n + 1] = f[n] \o s
  <2>1. \A i \in 1 .. Len(r) : f[i] = f[i - 1] \o r[i]
    BY <1>3 DEF Joins
  <2> DEFINE k == n + 1
  <2>2. k \in 1 .. Len(r)
    BY <1>7
  <2> HIDE DEF k
  <2>3. f[k] = f[k - 1] \o r[k]
    BY <2>1, <2>2
  <2> QED BY <1>2, <1>7, <2>3 DEF k
<1> QED BY <1>4, <1>6, <1>8 DEF r

\* The first packet and the rest.
LEMMA FlattenHead ==
  ASSUME NEW S, NEW q \in Seq(Seq(S)), q # <<>>
  PROVE  /\ FlattenSeq(q) = q[1] \o FlattenSeq(Tail(q))
         /\ q[1] \in Seq(S) /\ FlattenSeq(Tail(q)) \in Seq(S)
<1> DEFINE n == Len(q)
           t == Tail(q)
<1>1. /\ n \in Nat \ {0} /\ t \in Seq(Seq(S)) /\ Len(t) = n - 1
      /\ \A i \in 1 .. n - 1 : t[i] = q[i + 1]
  <2>1. n \in Nat /\ n # 0
    BY LenProperties, EmptySeq
  <2> QED BY <2>1, HeadTailProperties
<1>2. \A i \in 1 .. n : q[i] \in Seq(S)
  BY ElementOfSeq
<1> HIDE DEF n, t
<1>3. PICK f : Joins(f, t, S)
  BY <1>1, JoinsExist
<1>4. FlattenSeq(t) = f[n - 1] /\ FlattenSeq(t) \in Seq(S)
  BY <1>1, <1>3, FlattenIs
<1>5. f \in [Nat -> Seq(S)] /\ f[0] = <<>> /\ \A i \in 1 .. n - 1 : f[i] = f[i - 1] \o t[i]
  BY <1>1, <1>3 DEF Joins
<1>6. 1 \in 1 .. n /\ q[1] \in Seq(S)
  BY <1>1, <1>2
<1> DEFINE g == [i \in Nat |-> IF i = 0 THEN <<>> ELSE q[1] \o f[i - 1]]
<1>7. ASSUME NEW i \in Nat \ {0} PROVE i - 1 \in Nat /\ g[i] = q[1] \o f[i - 1]
  <2>1. i \in Nat /\ i # 0 /\ i - 1 \in Nat
    OBVIOUS
  <2>2. g[i] = IF i = 0 THEN <<>> ELSE q[1] \o f[i - 1]
    BY <2>1
  <2> HIDE DEF g
  <2> QED BY <2>1, <2>2
<1>8. g[0] = <<>>
  OBVIOUS
<1>9. g \in [Nat -> Seq(S)]
  <2>1. ASSUME NEW i \in Nat PROVE (IF i = 0 THEN <<>> ELSE q[1] \o f[i - 1]) \in Seq(S)
    <3>1. CASE i = 0
      BY <3>1
    <3>2. CASE i # 0
      <4>1. f[i - 1] \in Seq(S)
        BY <1>5, <3>2
      <4> QED BY <1>6, <3>2, <4>1, ConcatProperties
    <3> QED BY <3>1, <3>2
  <2> QED BY <2>1
<1> HIDE DEF g
<1>10. ASSUME NEW i \in 1 .. n PROVE g[i] = g[i - 1] \o q[i]
  <2>1. CASE i = 1
    <3>1. g[1] = q[1] \o f[0] /\ g[1 - 1] = <<>>
      <4>1. 1 \in Nat \ {0} /\ 1 - 1 = 0
        OBVIOUS
      <4> QED BY <1>7, <1>8, <4>1
    <3>2. q[1] \o <<>> = q[1] /\ <<>> \o q[1] = q[1]
      BY <1>6, ConcatEmptySeq
    <3> QED BY <1>5, <2>1, <3>1, <3>2
  <2>2. CASE i # 1
    <3>1. /\ i \in Nat \ {0} /\ i - 1 \in Nat \ {0} /\ i - 1 \in 1 .. n - 1
          /\ (i - 1) - 1 \in Nat /\ i - 1 + 1 = i
      BY <1>1, <2>2
    <3>2. g[i] = q[1] \o f[i - 1] /\ g[i - 1] = q[1] \o f[(i - 1) - 1]
      BY <1>7, <3>1
    <3>3. f[i - 1] = f[(i - 1) - 1] \o q[i]
      <4>1. t[i - 1] = q[i - 1 + 1]
        BY <1>1, <3>1
      <4> QED BY <1>5, <3>1, <4>1
    <3>4. f[(i - 1) - 1] \in Seq(S) /\ q[i] \in Seq(S)
      BY <1>2, <1>5, <3>1
    <3>5. (q[1] \o f[(i - 1) - 1]) \o q[i] = q[1] \o (f[(i - 1) - 1] \o q[i])
      <4> DEFINE x == q[1]
                 y == f[(i - 1) - 1]
                 z == q[i]
      <4>1. x \in Seq(S) /\ y \in Seq(S) /\ z \in Seq(S)
        BY <1>6, <3>4
      <4> HIDE DEF x, y, z
      <4>2. (x \o y) \o z = x \o (y \o z)
        BY <4>1, ConcatAssociative
      <4> QED BY <4>2 DEF x, y, z
    <3> QED BY <3>2, <3>3, <3>5
  <2> QED BY <2>1, <2>2
<1>11. Joins(g, q, S)
  BY <1>8, <1>9, <1>10 DEF Joins, n
<1>12. FlattenSeq(q) = g[n]
  BY <1>11, FlattenIs DEF n
<1>13. g[n] = q[1] \o f[n - 1]
  BY <1>1, <1>7
<1> QED BY <1>4, <1>6, <1>12, <1>13 DEF t

-----------------------------------------------------------------------------
(* Packets *)

\* What a PUBLISH of the broker carries.
LEMMA PublishIs ==
  ASSUME NEW c \in 1 .. 2, NEW pad \in Padding, NEW v \in Temps \cup {NaN}
  PROVE  LET b == Publish(c, pad, v).body IN
         /\ b \in Seq(Nat) /\ Len(b) = pad + 3
         /\ b[1] = 1 /\ b[2] = c /\ b[pad + 3] = v
<1> DEFINE h == <<1, c>>
           z == [i \in 1 .. pad |-> 0]
           l == <<v>>
<1>1. pad \in Nat /\ v \in Nat /\ c \in Nat
  BY FramingAssumption DEF Padding, NaN
<1>2. h \in Seq(Nat) /\ Len(h) = 2 /\ h[1] = 1 /\ h[2] = c
  BY <1>1
<1>3. z \in Seq(Nat) /\ Len(z) = pad
  <2>1. z \in [1 .. pad -> Nat]
    OBVIOUS
  <2> HIDE DEF z
  <2> QED BY <1>1, <2>1, FunctionSeq
<1>4. l \in Seq(Nat) /\ Len(l) = 1 /\ l[1] = v
  BY <1>1
<1>5. Publish(c, pad, v).body = (h \o z) \o l
  BY DEF Publish
<1> DEFINE a == h \o z
           b == a \o l
<1> HIDE DEF h, z, l, a, b
<1>6. a \in Seq(Nat) /\ Len(a) = 2 + pad /\ \A i \in 1 .. 2 : a[i] = h[i]
  <2> DEFINE two == Len(h)
  <2>1. h \in Seq(Nat) /\ z \in Seq(Nat) /\ two = Len(h) /\ pad = Len(z) /\ a = h \o z
    BY <1>2, <1>3 DEF a
  <2>2. two = 2
    BY <1>2
  <2> HIDE DEF two
  <2>3. a \in Seq(Nat) /\ Len(a) = two + pad /\ \A i \in 1 .. two : a[i] = h[i]
    BY <2>1, Concat
  <2> QED BY <2>2, <2>3
<1>7. a[1] = 1 /\ a[2] = c
  BY <1>2, <1>6
<1>8. /\ b \in Seq(Nat) /\ Len(b) = 2 + pad + 1
      /\ \A i \in 1 .. 2 + pad : b[i] = a[i]
      /\ \A i \in 1 .. 1 : b[2 + pad + i] = l[i]
  <2>1. 2 + pad = Len(a) /\ 1 = Len(l)
    BY <1>4, <1>6
  <2> DEFINE m == Len(a)
             one == Len(l)
  <2>2. a \in Seq(Nat) /\ l \in Seq(Nat) /\ m = Len(a) /\ one = Len(l) /\ b = a \o l
    BY <1>4, <1>6 DEF b
  <2> HIDE DEF m, one
  <2>3. /\ b \in Seq(Nat) /\ Len(b) = m + one
        /\ \A i \in 1 .. m : b[i] = a[i]
        /\ \A i \in 1 .. one : b[m + i] = l[i]
    BY <2>2, Concat
  <2> QED BY <2>1, <2>3 DEF m, one
<1>9. 1 \in 1 .. 2 + pad /\ 2 \in 1 .. 2 + pad /\ pad + 3 = 2 + pad + 1 /\ 1 \in 1 .. 1
  BY <1>1
<1>10. b[1] = 1 /\ b[2] = c /\ b[pad + 3] = v
  BY <1>4, <1>7, <1>8, <1>9
<1>11. Publish(c, pad, v).body = b
  BY <1>5 DEF a, b
<1> QED BY <1>8, <1>9, <1>10, <1>11

\* Each packet is a type and a body whose length can be told.
LEMMA PacketIs ==
  ASSUME NEW p \in Packets
  PROVE  /\ p.type \in Nat /\ p.body \in Seq(Nat)
         /\ Len(p.body) \in Nat /\ Len(p.body) < Multiplier[LengthBytes]
<1>0. MaxPadding \in Nat /\ MaxPadding + 3 < Multiplier[LengthBytes]
      /\ Multiplier[LengthBytes] \in Nat
  BY FramingAssumption, MultiplierIs
<1>1. CASE \E c \in 1 .. 2, pad \in Padding, v \in Temps \cup {NaN} : p = Publish(c, pad, v)
  <2>1. PICK c \in 1 .. 2, pad \in Padding, v \in Temps \cup {NaN} : p = Publish(c, pad, v)
    BY <1>1
  <2>2. p.body \in Seq(Nat) /\ Len(p.body) = pad + 3
    BY <2>1, PublishIs
  <2>3. pad \in 0 .. MaxPadding
    BY DEF Padding
  <2>4. p.type = PUBLISH
    BY <2>1 DEF Publish
  <2> QED BY <1>0, <2>2, <2>3, <2>4 DEF PUBLISH
<1>2. CASE \E n \in 0 .. 1 : p = NotPublish(n)
  <2>1. PICK n \in 0 .. 1 : p = NotPublish(n)
    BY <1>2
  <2> DEFINE z == [i \in 1 .. n |-> 0]
  <2>2. z \in [1 .. n -> Nat] /\ n \in Nat
    OBVIOUS
  <2>3. p.body = z /\ p.type = SUBACK
    BY <2>1 DEF NotPublish
  <2> HIDE DEF z
  <2>4. z \in Seq(Nat) /\ Len(z) = n
    BY <2>2, FunctionSeq
  <2> QED BY <1>0, <2>3, <2>4 DEF SUBACK
<1> QED BY <1>1, <1>2 DEF Packets

\* The bytes of a packet: its type, the digits of its length, its body.
LEMMA BytesAre ==
  ASSUME NEW p \in Packets
  PROVE  LET e == Encode[Len(p.body)] IN
         /\ Bytes(p) \in Seq(Nat)
         /\ Len(e) \in Nat \ {0} /\ Len(e) <= LengthBytes
         /\ Len(Bytes(p)) = 1 + Len(e) + Len(p.body)
         /\ Bytes(p)[1] = p.type
         /\ \A i \in 1 .. Len(e) : Bytes(p)[1 + i] = e[i]
         /\ \A i \in 1 .. Len(p.body) : Bytes(p)[1 + Len(e) + i] = p.body[i]
<1> DEFINE b == p.body
           m == Len(b)
           e == Encode[m]
           t == <<p.type>>
           h == t \o e
<1>1. p.type \in Nat /\ b \in Seq(Nat) /\ m \in Nat /\ m < Multiplier[LengthBytes]
  BY PacketIs
<1>2. e \in Seq(Nat) /\ Len(e) \in Nat \ {0} /\ Len(e) <= LengthBytes
  BY <1>1, EncodeIs, EncodeDigits, EncodeFits, FramingAssumption
<1>3. t \in Seq(Nat) /\ Len(t) = 1 /\ t[1] = p.type
  BY <1>1
<1>4. Bytes(p) = h \o b
  BY DEF Bytes
<1> DEFINE l == Len(e)
           k == 1 + l
           x == h \o b
<1>5. l \in Nat /\ m \in Nat /\ k = 1 + l
  BY <1>1, <1>2
<1> HIDE DEF l, k, m, t, e, b, h, x
<1>6. /\ h \in Seq(Nat) /\ Len(h) = k
      /\ \A i \in 1 .. 1 : h[i] = t[i]
      /\ \A i \in 1 .. l : h[1 + i] = e[i]
  <2> DEFINE one == Len(t)
  <2>1. t \in Seq(Nat) /\ e \in Seq(Nat) /\ one = Len(t) /\ l = Len(e) /\ h = t \o e
    BY <1>2, <1>3 DEF h, l
  <2>2. one = 1
    BY <1>3
  <2> HIDE DEF one
  <2>3. /\ h \in Seq(Nat) /\ Len(h) = one + l
        /\ \A i \in 1 .. one : h[i] = t[i]
        /\ \A i \in 1 .. l : h[one + i] = e[i]
    BY <2>1, Concat
  <2> QED BY <2>2, <2>3 DEF k
<1>7. /\ x \in Seq(Nat) /\ Len(x) = k + m
      /\ \A i \in 1 .. k : x[i] = h[i]
      /\ \A i \in 1 .. m : x[k + i] = b[i]
  <2>1. h \in Seq(Nat) /\ b \in Seq(Nat) /\ k = Len(h) /\ m = Len(b) /\ x = h \o b
    BY <1>1, <1>6 DEF x, m
  <2> QED BY <2>1, Concat
<1>8. x[1] = p.type
  <2>1. 1 \in 1 .. 1 /\ 1 \in 1 .. k
    BY <1>5
  <2> QED BY <1>3, <1>6, <1>7, <2>1
<1>9. ASSUME NEW i \in 1 .. l PROVE x[1 + i] = e[i]
  <2>1. 1 + i \in 1 .. k
    BY <1>5
  <2> QED BY <1>6, <1>7, <2>1
<1>10. Bytes(p) = x
  BY <1>4 DEF x
<1>11. Len(x) = 1 + l + m /\ \A i \in 1 .. m : x[1 + l + i] = b[i]
  BY <1>5, <1>7
<1> QED BY <1>2, <1>7, <1>8, <1>9, <1>10, <1>11 DEF l, m, e, b

\* The bytes of packets one after the other.
LEMMA AllBytesAre ==
  ASSUME NEW ps \in Seq(Packets)
  PROVE  /\ AllBytes(ps) \in Seq(Nat)
         /\ ps = <<>> => AllBytes(ps) = <<>>
         /\ \A p \in Packets : AllBytes(Append(ps, p)) = AllBytes(ps) \o Bytes(p)
         /\ ps # <<>> => AllBytes(ps) = Bytes(ps[1]) \o AllBytes(Tail(ps))
<1> DEFINE q(s) == [i \in DOMAIN s |-> Bytes(s[i])]
<1>1. ASSUME NEW s \in Seq(Packets)
      PROVE  /\ q(s) \in Seq(Seq(Nat)) /\ Len(q(s)) = Len(s) /\ Len(s) \in Nat
             /\ \A i \in 1 .. Len(s) : q(s)[i] = Bytes(s[i])
  <2>1. Len(s) \in Nat /\ DOMAIN s = 1 .. Len(s)
    BY LenProperties
  <2>2. \A i \in 1 .. Len(s) : Bytes(s[i]) \in Seq(Nat)
    <3> SUFFICES ASSUME NEW i \in 1 .. Len(s) PROVE Bytes(s[i]) \in Seq(Nat)
      OBVIOUS
    <3> DEFINE p == s[i]
    <3>1. p \in Packets
      BY ElementOfSeq
    <3> HIDE DEF p
    <3>2. Bytes(p) \in Seq(Nat)
      BY <3>1, BytesAre
    <3> QED BY <3>2 DEF p
  <2>3. /\ q(s) \in [1 .. Len(s) -> Seq(Nat)]
        /\ \A i \in 1 .. Len(s) : q(s)[i] = Bytes(s[i])
    BY <2>1, <2>2
  <2> HIDE DEF q
  <2> QED BY <2>1, <2>3, FunctionSeq
<1>2. \A s : AllBytes(s) = FlattenSeq(q(s))
  BY DEF AllBytes
<1> HIDE DEF q
<1>3. AllBytes(ps) \in Seq(Nat)
  <2>1. q(ps) \in Seq(Seq(Nat))
    BY <1>1
  <2>2. PICK f : Joins(f, q(ps), Nat)
    BY <2>1, JoinsExist
  <2>3. FlattenSeq(q(ps)) \in Seq(Nat)
    BY <2>1, <2>2, FlattenIs
  <2> QED BY <1>2, <2>3
<1>4. ASSUME ps = <<>> PROVE AllBytes(ps) = <<>>
  <2>1. q(ps) \in Seq(Seq(Nat)) /\ Len(q(ps)) = 0
    BY <1>1, <1>4
  <2>2. q(ps) = <<>>
    BY <2>1, EmptySeq
  <2>3. FlattenSeq(q(ps)) = q(ps)
    BY <2>1 DEF FlattenSeq
  <2> QED BY <1>2, <2>2, <2>3
<1>5. ASSUME NEW p \in Packets PROVE AllBytes(Append(ps, p)) = AllBytes(ps) \o Bytes(p)
  <2> DEFINE as == Append(ps, p)
             x == Bytes(p)
             n == Len(ps)
  <2>1. as \in Seq(Packets) /\ Len(as) = n + 1 /\ as[n + 1] = p
        /\ \A i \in 1 .. n : as[i] = ps[i]
    BY AppendProperties
  <2>2. x \in Seq(Nat)
    BY BytesAre
  <2>3. n \in Nat /\ q(ps) \in Seq(Seq(Nat)) /\ Len(q(ps)) = n
        /\ \A i \in 1 .. n : q(ps)[i] = Bytes(ps[i])
    BY <1>1
  <2> HIDE DEF as
  <2>4. q(as) \in Seq(Seq(Nat)) /\ Len(q(as)) = n + 1
        /\ \A i \in 1 .. n + 1 : q(as)[i] = Bytes(as[i])
    BY <1>1, <2>1
  <2> HIDE DEF x, n
  <2>5. /\ Append(q(ps), x) \in Seq(Seq(Nat)) /\ Len(Append(q(ps), x)) = n + 1
        /\ Append(q(ps), x)[n + 1] = x
        /\ \A i \in 1 .. n : Append(q(ps), x)[i] = q(ps)[i]
    BY <2>2, <2>3, AppendProperties
  <2>6. ASSUME NEW i \in 1 .. n + 1 PROVE q(as)[i] = Append(q(ps), x)[i]
    <3>1. CASE i = n + 1
      BY <2>1, <2>4, <2>5, <3>1 DEF x
    <3>2. CASE i # n + 1
      <4>1. i \in 1 .. n
        BY <2>3, <3>2
      <4>2. q(as)[i] = Bytes(as[i]) /\ as[i] = ps[i]
        BY <2>1, <2>4, <4>1
      <4>3. Append(q(ps), x)[i] = Bytes(ps[i])
        BY <2>3, <2>5, <4>1
      <4> QED BY <4>2, <4>3
    <3> QED BY <3>1, <3>2
  <2>7. q(as) = Append(q(ps), x)
    <3> DEFINE u == q(as)
               w == Append(q(ps), x)
    <3>1. u \in Seq(Seq(Nat)) /\ w \in Seq(Seq(Nat)) /\ Len(u) = Len(w)
          /\ \A i \in 1 .. Len(u) : u[i] = w[i]
      BY <2>4, <2>5, <2>6
    <3> HIDE DEF u, w
    <3>2. u = w
      BY <3>1, SeqEqual
    <3> QED BY <3>2 DEF u, w
  <2>8. FlattenSeq(Append(q(ps), x)) = FlattenSeq(q(ps)) \o x
    BY <2>2, <2>3, FlattenAppend
  <2> QED BY <1>2, <2>7, <2>8 DEF as, x
<1>6. ASSUME ps # <<>> PROVE AllBytes(ps) = Bytes(ps[1]) \o AllBytes(Tail(ps))
  <2> DEFINE t == Tail(ps)
             n == Len(ps)
             r == q(ps)
  <2>1. n \in Nat /\ r \in Seq(Seq(Nat)) /\ Len(r) = n
        /\ \A i \in 1 .. n : r[i] = Bytes(ps[i])
    BY <1>1
  <2>2. t \in Seq(Packets) /\ Len(t) = n - 1 /\ \A i \in 1 .. n - 1 : t[i] = ps[i + 1]
    BY <1>6, HeadTailProperties
  <2>3. n # 0
    BY <1>6, EmptySeq
  <2> HIDE DEF t
  <2>4. q(t) \in Seq(Seq(Nat)) /\ Len(q(t)) = n - 1
        /\ \A i \in 1 .. n - 1 : q(t)[i] = Bytes(t[i])
    BY <1>1, <2>2
  <2> HIDE DEF n, r
  <2>5. r # <<>>
    BY <2>1, <2>3, EmptySeq
  <2>6. Tail(r) \in Seq(Seq(Nat)) /\ Len(Tail(r)) = n - 1
        /\ \A i \in 1 .. n - 1 : Tail(r)[i] = r[i + 1]
    BY <2>1, <2>5, HeadTailProperties
  <2>7. ASSUME NEW i \in 1 .. n - 1 PROVE q(t)[i] = Tail(r)[i]
    <3>1. i + 1 \in 1 .. n
      BY <2>1
    <3>2. Tail(r)[i] = Bytes(ps[i + 1])
      BY <2>1, <2>6, <3>1
    <3> QED BY <2>2, <2>4, <3>2
  <2>8. q(t) = Tail(r)
    <3> DEFINE u == q(t)
               w == Tail(r)
    <3>1. u \in Seq(Seq(Nat)) /\ w \in Seq(Seq(Nat)) /\ Len(u) = Len(w)
          /\ \A i \in 1 .. Len(u) : u[i] = w[i]
      BY <2>4, <2>6, <2>7
    <3> HIDE DEF u, w
    <3>2. u = w
      BY <3>1, SeqEqual
    <3> QED BY <3>2 DEF u, w
  <2>9. FlattenSeq(r) = r[1] \o FlattenSeq(Tail(r))
    BY <2>1, <2>5, FlattenHead
  <2>10. r[1] = Bytes(ps[1])
    <3>1. 1 \in 1 .. n
      BY <2>1, <2>3
    <3> QED BY <2>1, <3>1
  <2> QED BY <1>2, <2>8, <2>9, <2>10 DEF t, r
<1> QED BY <1>3, <1>4, <1>5, <1>6

-----------------------------------------------------------------------------
(* Cutting packets off the stream *)

\* However much of a packet was read, its length is known rightly or not at all.
LEMMA LengthKnown ==
  ASSUME NEW p \in Packets, NEW data \in Seq(Nat),
         \A i \in 1 .. Len(data) : i <= Len(Bytes(p)) => data[i] = Bytes(p)[i]
  PROVE  /\ PacketLen(data) \in {0, Len(Bytes(p))}
         /\ Len(Bytes(p)) <= Len(data) =>
              Decode(Tail(data)) = [value |-> Len(p.body), used |-> Len(Encode[Len(p.body)])]
<1> DEFINE m == Len(p.body)
           e == Encode[m]
           l == Len(e)
           L == Len(Bytes(p))
           t == Tail(data)
<1>1. /\ m \in Nat /\ l \in Nat \ {0} /\ l <= LengthBytes /\ L = 1 + l + m
      /\ \A i \in 1 .. l : Bytes(p)[1 + i] = e[i]
  BY BytesAre, PacketIs
<1>2. CASE data = <<>>
  <2>1. Len(data) = 0
    BY <1>2
  <2> HIDE DEF L, l, m
  <2>2. ~(L <= Len(data))
    BY <1>1, <2>1
  <2> QED BY <1>2, <2>2 DEF PacketLen, L
<1>3. CASE data # <<>>
  <2>1. /\ t \in Seq(Nat) /\ Len(data) \in Nat /\ Len(t) = Len(data) - 1 /\ Len(t) \in Nat
        /\ \A i \in 1 .. Len(t) : t[i] = data[i + 1]
    BY <1>3, HeadTailProperties, LenProperties
  <2> HIDE DEF t, l, e, L
  <2>2. ASSUME NEW i \in 1 .. l, i <= Len(t) PROVE t[i] = e[i]
    <3>1. i + 1 \in 1 .. Len(data) /\ i + 1 <= L /\ 1 + i = i + 1 /\ i \in 1 .. Len(t)
      <4> HIDE DEF m
      <4> QED BY <1>1, <2>1, <2>2
    <3>2. data[i + 1] = Bytes(p)[i + 1]
      BY <3>1 DEF L
    <3>3. Bytes(p)[i + 1] = e[i]
      BY <1>1, <3>1
    <3> QED BY <2>1, <3>1, <3>2, <3>3
  <2>3. CASE Len(t) < l
    <3>1. \A j \in 1 .. Len(t) : j \in 1 .. l /\ j <= Len(t)
      BY <1>1, <2>1, <2>3
    <3>2. \A j \in 1 .. Len(t) : t[j] = e[j]
      BY <2>2, <3>1
    <3>3. Decode(t) = NoLength
      <4>1. m \in Nat /\ Len(t) < Len(Encode[m]) /\ \A j \in 1 .. Len(t) : t[j] = Encode[m][j]
        BY <1>1, <2>3, <3>2 DEF l, e
      <4> HIDE DEF m
      <4> QED BY <2>1, <4>1, DecodePart
    <3>4. PacketLen(data) = 0
      BY <3>3 DEF PacketLen, t
    <3>5. ~(L <= Len(data))
      <4> HIDE DEF m
      <4> QED BY <1>1, <2>1, <2>3
    <3> QED BY <3>4, <3>5 DEF L
  <2>4. CASE ~(Len(t) < l)
    <3>1. \A j \in 1 .. l : j <= Len(t)
      BY <1>1, <2>1, <2>4
    <3>2. \A j \in 1 .. l : t[j] = e[j]
      BY <2>2, <3>1
    <3>3. Decode(t) = [value |-> m, used |-> l]
      <4>1. /\ m \in Nat /\ Len(Encode[m]) <= LengthBytes /\ Len(Encode[m]) <= Len(t)
            /\ \A j \in 1 .. Len(Encode[m]) : t[j] = Encode[m][j]
        BY <1>1, <2>1, <2>4, <3>2 DEF l, e
      <4> HIDE DEF m
      <4> QED BY <2>1, <4>1, DecodeWhole DEF l, e
    <3>4. Decode(t) # NoLength
      BY <1>1, <3>3 DEF NoLength
    <3>5. PacketLen(data) = 1 + l + m
      BY <1>3, <3>3, <3>4 DEF PacketLen, t
    <3> QED BY <1>1, <3>3, <3>5 DEF L, t, l, e
  <2> QED BY <2>3, <2>4
<1> QED BY <1>2, <1>3

\* What was read starts with a packet, and goes on with the next when it is whole.
SameTail(b, y, w, r) == (b \o y) \o w = b \o r => y \o w = r

\* Equal beginnings of equal streams have equal rests.
LEMMA SameRest ==
  ASSUME NEW S, NEW b \in Seq(S), NEW y \in Seq(S), NEW w \in Seq(S), NEW r \in Seq(S)
  PROVE  SameTail(b, y, w, r)
<1>1. (b \o y) \o w = b \o (y \o w)
  BY ConcatAssociative
<1>2. y \o w \in Seq(S)
  BY ConcatProperties
<1>3. b \o (y \o w) = b \o r => y \o w = r
  BY <1>2, ConcatSimplifications
<1> QED BY <1>1, <1>3 DEF SameTail

WholeIn(d) == PacketLen(d) > 0 /\ Len(d) >= PacketLen(d)
CutTo(d, w, b, rest) ==
  /\ SubSeq(d, 1, PacketLen(d)) = b
  /\ SubSeq(d, Len(b) + 1, Len(d)) \in Seq(Nat)
  /\ SubSeq(d, Len(b) + 1, Len(d)) \o w = rest

\* A packet whose length is told is cut off whole, and nothing more.
LEMMA CutOff ==
  ASSUME NEW p \in Packets, NEW rest \in Seq(Nat), NEW d \in Seq(Nat), NEW w \in Seq(Nat),
         d \o w = Bytes(p) \o rest, WholeIn(d)
  PROVE  CutTo(d, w, Bytes(p), rest)
<1> DEFINE b == Bytes(p)
           L == Len(b)
           D == Len(d)
           u == d \o w
<1>1. b \in Seq(Nat) /\ L \in Nat /\ L > 0
  <2> DEFINE m == Len(p.body)
             l == Len(Encode[m])
  <2>1. b \in Seq(Nat) /\ m \in Nat /\ l \in Nat /\ L = 1 + l + m
    BY BytesAre, PacketIs
  <2> HIDE DEF m, l, L, b
  <2> QED BY <2>1
<1>2. D \in Nat
  BY LenProperties
<1>3. ASSUME NEW i \in 1 .. D PROVE i <= L => d[i] = b[i]
  <2> DEFINE r == Len(rest)
             ww == Len(w)
  <2>1. d \in Seq(Nat) /\ w \in Seq(Nat) /\ D = Len(d) /\ ww = Len(w) /\ u = d \o w
    OBVIOUS
  <2>2. b \in Seq(Nat) /\ rest \in Seq(Nat) /\ L = Len(b) /\ r = Len(rest) /\ u = b \o rest
    BY <1>1
  <2> HIDE DEF D, L, b, u, r, ww
  <2>3. \A j \in 1 .. D : u[j] = d[j]
    BY <2>1, Concat
  <2>4. \A j \in 1 .. L : u[j] = b[j]
    BY <2>2, Concat
  <2>5. i <= L => i \in 1 .. L
    BY <1>1, <1>2
  <2> QED BY <2>3, <2>4, <2>5
<1>4. PacketLen(d) = L
  <2>1. PacketLen(d) \in {0, Len(Bytes(p))}
    BY <1>3, LengthKnown
  <2> QED BY <2>1 DEF WholeIn
<1>5. L <= D
  BY <1>1, <1>2, <1>4 DEF WholeIn
<1> DEFINE x == SubSeq(d, 1, L)
           y == SubSeq(d, L + 1, D)
<1>6. x \in Seq(Nat) /\ Len(x) = L /\ \A i \in 1 .. L : x[i] = d[i]
  <2> HIDE DEF L, D, b
  <2>1. \A i \in 1 .. L : i \in 1 .. D
    BY <1>1, <1>2, <1>5
  <2>2. \A i \in 1 .. L : d[i] \in Nat
    <3>1. \A i \in 1 .. D : d[i] \in Nat
      BY ElementOfSeq DEF D
    <3> QED BY <2>1, <3>1
  <2>3. 1 \in Int /\ L \in Int /\ 1 <= L /\ L - 1 + 1 = L
    BY <1>1
  <2>4. /\ x \in Seq(Nat) /\ Len(x) = L - 1 + 1
        /\ \A i \in 1 .. L - 1 + 1 : x[i] = d[1 + i - 1]
    BY <2>2, <2>3, SubSeqProperties
  <2>5. \A i \in 1 .. L : 1 + i - 1 = i
    BY <1>1
  <2> QED BY <2>3, <2>4, <2>5
<1>7. y \in Seq(Nat) /\ x \o y = d
  <2>1. /\ 1 \in 1 .. Len(d) + 1 /\ L \in 1 - 1 .. Len(d) /\ D \in L .. Len(d)
    BY <1>1, <1>2, <1>5
  <2>2. x \o y = SubSeq(d, 1, D)
    <3> HIDE DEF L, D
    <3> QED BY <2>1, ConcatAdjacentSubSeq
  <2>3. SubSeq(d, 1, D) = d
    BY SubSeqFull
  <2>4. y \in Seq(Nat)
    <3> HIDE DEF L
    <3>1. \A i \in L + 1 .. D : i \in 1 .. Len(d)
      BY <1>1, <1>2
    <3>2. \A i \in L + 1 .. D : d[i] \in Nat
      BY <3>1, ElementOfSeq
    <3> HIDE DEF D
    <3> QED BY <1>1, <1>2, <3>2, SubSeqProperties
  <2> QED BY <2>2, <2>3, <2>4
<1>8. x = b
  <2>1. \A i \in 1 .. L : i \in 1 .. D /\ i <= L
    BY <1>1, <1>2, <1>5
  <2>2. Len(x) = Len(b) /\ \A i \in 1 .. Len(x) : x[i] = b[i]
    BY <1>3, <1>6, <2>1
  <2> HIDE DEF x, b
  <2> QED BY <1>1, <1>6, <2>2, SeqEqual
<1>9. y \o w = rest
  <2>1. (b \o y) \o w = b \o rest
    BY <1>7, <1>8
  <2>2. b \in Seq(Nat) /\ y \in Seq(Nat)
    BY <1>1, <1>7
  <2> HIDE DEF b, x, y
  <2>3. SameTail(b, y, w, rest)
    BY <2>2, SameRest
  <2> QED BY <2>1, <2>3 DEF SameTail
<1> QED BY <1>4, <1>7, <1>8, <1>9 DEF CutTo

\* What the reader makes of the bytes of a packet is the command in it.
LEMMA ParsedIs ==
  ASSUME NEW p \in Packets
  PROVE  /\ Parsed(Bytes(p)) = CommandIn(p)
         /\ CommandIn(p) # NoCommand => CommandIn(p) \in (1 .. 2) \X Temps
<1> DEFINE b == p.body
           m == Len(b)
           e == Encode[m]
           l == Len(e)
           x == Bytes(p)
           body == SubSeq(x, 2 + Decode(Tail(x)).used, Len(x))
           payload == SubSeq(body, 2 + body[1], Len(body))
<1>1. /\ x \in Seq(Nat) /\ l \in Nat \ {0} /\ Len(x) = 1 + l + m /\ x[1] = p.type
      /\ \A i \in 1 .. m : x[1 + l + i] = b[i]
  BY BytesAre
<1>2. p.type \in Nat /\ b \in Seq(Nat) /\ m \in Nat
  BY PacketIs
<1>3. Decode(Tail(x)) = [value |-> m, used |-> l]
  <2>1. Len(Bytes(p)) <= Len(x)
    BY <1>1, <1>2
  <2> QED BY <1>1, <2>1, LengthKnown
<1>4. Decode(Tail(x)).used = l
  BY <1>3
<1>5. body = b
  <2> DEFINE y == SubSeq(x, 2 + l, 1 + l + m)
  <2>1. body = y
    BY <1>1, <1>4
  <2> HIDE DEF x, l, m, body, b, y
  <2> DEFINE i == 2 + l
             j == 1 + l + m
  <2>2. i \in Nat \ {0} /\ j \in Nat /\ j <= Len(x) /\ i <= j + 1 /\ m = j + 1 - i
        /\ i - 1 = 1 + l
    BY <1>1, <1>2
  <2>3. y = SubSeq(x, i, j)
    BY DEF y
  <2> HIDE DEF i, j, y
  <2>4. y \in Seq(Nat) /\ Len(y) = m /\ \A k \in 1 .. m : y[k] = x[i - 1 + k]
    BY <1>1, <2>2, <2>3, Cut
  <2>5. \A k \in 1 .. m : y[k] = b[k]
    BY <1>1, <2>2, <2>4
  <2>6. Len(b) = m
    BY DEF m
  <2>9. y = b
    BY <1>2, <2>4, <2>5, <2>6, SeqEqual
  <2> QED BY <2>1, <2>9
<1>6. Parsed(x) = IF \/ x[1] # PUBLISH
                     \/ body = <<>>
                     \/ Len(body) < 1 + body[1]
                     \/ payload = <<>>
                     \/ payload[Len(payload)] = NaN
                  THEN NoCommand
                  ELSE <<ChannelOf(body[2]), payload[Len(payload)]>>
  BY DEF Parsed
<1>7. CASE p.type # PUBLISH
  BY <1>1, <1>6, <1>7 DEF CommandIn
<1>8. CASE p.type = PUBLISH
  <2>1. PICK c \in 1 .. 2, pad \in Padding, v \in Temps \cup {NaN} : p = Publish(c, pad, v)
    BY <1>8 DEF Packets, NotPublish, PUBLISH, SUBACK
  <2>2. m = pad + 3 /\ b[1] = 1 /\ b[2] = c /\ b[pad + 3] = v /\ pad \in Nat
    BY <2>1, PublishIs, FramingAssumption DEF Padding
  <2>3. Len(body) = pad + 3 /\ body[1] = 1 /\ body[2] = c /\ body[pad + 3] = v
    BY <1>5, <2>2
  <2>4. body # <<>> /\ ~(Len(body) < 1 + body[1])
    <3>1. ~(pad + 3 < 1 + 1) /\ pad + 3 # 0
      BY <2>2
    <3> QED BY <2>3, <3>1
  <2>5. payload = SubSeq(body, 3, pad + 3)
    <3> HIDE DEF body
    <3>1. 2 + body[1] = 3 /\ Len(body) = pad + 3
      BY <2>3
    <3> QED BY <3>1
  <2>6. Len(payload) = pad + 1 /\ payload[pad + 1] = v
    <3> DEFINE y == SubSeq(body, 3, pad + 3)
    <3>1. body \in Seq(Nat)
      BY <1>2, <1>5
    <3> HIDE DEF body, payload
    <3> DEFINE i == 3
               j == pad + 3
               n == pad + 1
    <3>2. i \in Nat \ {0} /\ j \in Nat /\ j <= Len(body) /\ i <= j + 1 /\ n = j + 1 - i
          /\ n \in 1 .. n /\ i - 1 + n = j
      BY <2>2, <2>3
    <3>3. y = SubSeq(body, i, j)
      OBVIOUS
    <3> HIDE DEF i, j, n, y
    <3>4. Len(y) = n /\ \A k \in 1 .. n : y[k] = body[i - 1 + k]
      BY <3>1, <3>2, <3>3, Cut
    <3>5. y[n] = body[j]
      BY <3>2, <3>4
    <3> QED BY <2>3, <2>5, <3>4, <3>5 DEF j, n, y
  <2>7. payload # <<>>
    <3> HIDE DEF payload
    <3>1. pad + 1 # 0 /\ Len(<<>>) = 0
      BY <2>2
    <3> QED BY <2>6, <3>1
  <2>8. ChannelOf(c) = c
    BY DEF ChannelOf
  <2>9. Parsed(x) = IF v = NaN THEN NoCommand ELSE <<c, v>>
    <3> HIDE DEF x, body, payload
    <3> QED BY <1>1, <1>6, <1>8, <2>3, <2>4, <2>6, <2>7, <2>8
  <2>10. CommandIn(p) = IF v # NaN THEN <<c, v>> ELSE NoCommand
    <3>1. p.body[Len(p.body)] = v /\ p.body[2] = c
      BY <2>2
    <3> QED BY <1>8, <3>1 DEF CommandIn
  <2> QED BY <2>9, <2>10
<1> QED BY <1>7, <1>8

-----------------------------------------------------------------------------
(* The reader *)

\* A packet that is complete is the first that is pending.
LEMMA CompleteIs ==
  ASSUME TypeOK, InStep, Complete
  PROVE  /\ pending # <<>> /\ pending[1] \in Packets /\ Head(pending) = pending[1]
         /\ SubSeq(pending, 2, Len(pending)) = Tail(pending) /\ Tail(pending) \in Seq(Packets)
         /\ SubSeq(partial, 1, PacketLen(partial)) = Bytes(pending[1])
         /\ SubSeq(partial, Len(Bytes(pending[1])) + 1, Len(partial)) \in Seq(Nat)
         /\ SubSeq(partial, Len(Bytes(pending[1])) + 1, Len(partial)) \o wire
              = AllBytes(Tail(pending))
<1>1. wire \in Seq(Nat) /\ partial \in Seq(Nat) /\ pending \in Seq(Packets)
  BY DEF TypeOK
<1>2. PacketLen(partial) > 0 /\ Len(partial) >= PacketLen(partial)
  BY DEF Complete
<1>3. pending # <<>>
  <2>1. SUFFICES ASSUME pending = <<>> PROVE FALSE
    OBVIOUS
  <2>2. partial \o wire = <<>>
    BY <1>1, <2>1, AllBytesAre DEF InStep
  <2>3. partial = <<>>
    BY <1>1, <2>2, ConcatEqualIffEmpty
  <2>4. PacketLen(partial) = 0
    BY <2>3 DEF PacketLen
  <2> QED BY <1>2, <2>4
<1> DEFINE p == pending[1]
           t == Tail(pending)
           rest == AllBytes(t)
<1>4. p \in Packets /\ Head(pending) = p /\ t \in Seq(Packets)
      /\ SubSeq(pending, 2, Len(pending)) = t
  <2>1. Head(pending) = p
    OBVIOUS
  <2>2. Head(pending) \in Packets /\ t \in Seq(Packets)
    BY <1>1, <1>3, HeadTailProperties
  <2>3. t = SubSeq(pending, 2, Len(pending))
    BY <1>1, <1>3, TailIsSubSeq
  <2> QED BY <2>1, <2>2, <2>3
<1>5. rest \in Seq(Nat)
  BY <1>4, AllBytesAre
<1>6. partial \o wire = Bytes(p) \o rest
  BY <1>1, <1>3, AllBytesAre DEF InStep
<1> HIDE DEF p, t, rest
<1>7. /\ SubSeq(partial, 1, PacketLen(partial)) = Bytes(p)
      /\ SubSeq(partial, Len(Bytes(p)) + 1, Len(partial)) \in Seq(Nat)
      /\ SubSeq(partial, Len(Bytes(p)) + 1, Len(partial)) \o wire = rest
  <2> DEFINE d == partial
             w == wire
  <2>1. p \in Packets /\ rest \in Seq(Nat) /\ d \in Seq(Nat) /\ w \in Seq(Nat)
    BY <1>1, <1>4, <1>5
  <2>2. d \o w = Bytes(p) \o rest /\ WholeIn(d)
    BY <1>2, <1>6 DEF WholeIn
  <2> HIDE DEF d, w
  <2>3. CutTo(d, w, Bytes(p), rest)
    BY <2>1, <2>2, CutOff
  <2> QED BY <2>3 DEF CutTo, d, w
<1> QED BY <1>3, <1>4, <1>7 DEF p, t, rest

\* A round of the inner loop takes the first packet and queues the command in it.
LEMMA TakePacketIs ==
  ASSUME TypeOK, InStep, TakePacket
  PROVE  /\ pending # <<>> /\ pending' = Tail(pending) /\ pending' \in Seq(Packets)
         /\ partial' \in Seq(Nat) /\ wire' = wire /\ reader' = reader
         /\ partial' \o wire' = AllBytes(pending')
         /\ cmds' = Queued(CommandIn(Head(pending)))
         /\ Head(pending) \in Packets
<1> DEFINE p == pending[1]
           pkt == SubSeq(partial, 1, PacketLen(partial))
<1>1. Complete
  BY DEF TakePacket
<1>2. /\ pending # <<>> /\ p \in Packets /\ Head(pending) = p
      /\ SubSeq(pending, 2, Len(pending)) = Tail(pending) /\ Tail(pending) \in Seq(Packets)
      /\ pkt = Bytes(p)
      /\ SubSeq(partial, Len(Bytes(p)) + 1, Len(partial)) \in Seq(Nat)
      /\ SubSeq(partial, Len(Bytes(p)) + 1, Len(partial)) \o wire = AllBytes(Tail(pending))
  BY <1>1, CompleteIs
<1>3. /\ partial' = SubSeq(partial, Len(pkt) + 1, Len(partial))
      /\ cmds' = Queued(Parsed(pkt))
      /\ pending' = SubSeq(pending, 2, Len(pending))
      /\ wire' = wire /\ reader' = reader
  BY DEF TakePacket
<1>4. Parsed(Bytes(p)) = CommandIn(p)
  BY <1>2, ParsedIs
<1> HIDE DEF p, pkt
<1> QED BY <1>2, <1>3, <1>4

\* That what TakePacket queues is a command of the right type needs InStep.
LEMMA TypeOKStep == TypeOK /\ InStep /\ [Next]_vars => TypeOK'
<1> SUFFICES ASSUME TypeOK, InStep, [Next]_vars PROVE TypeOK'
  OBVIOUS
<1>0. /\ wire \in Seq(Nat) /\ partial \in Seq(Nat) /\ reader \in BOOLEAN
      /\ cmds \in Seq((1 .. 2) \X Temps) /\ Len(cmds) <= CmdCap /\ pending \in Seq(Packets)
  BY DEF TypeOK
<1>c. CmdCap \in Nat \ {0}
  BY FramingAssumption
<1>1. ASSUME NEW p \in Packets, Send(p) PROVE TypeOK'
  <2>1. Bytes(p) \in Seq(Nat)
    BY BytesAre
  <2>2. wire \o Bytes(p) \in Seq(Nat)
    BY <1>0, <2>1, ConcatProperties
  <2>3. Append(pending, p) \in Seq(Packets)
    BY <1>0, AppendProperties
  <2> QED BY <1>0, <1>1, <2>2, <2>3 DEF Send, TypeOK
<1>2. CASE Eof
  BY <1>0, <1>2 DEF Eof, TypeOK
<1>3. CASE Consume
  <2>1. Tail(cmds) \in Seq((1 .. 2) \X Temps) /\ Len(Tail(cmds)) = Len(cmds) - 1
        /\ Len(cmds) \in Nat
    BY <1>0, <1>3, HeadTailProperties, LenProperties DEF Consume
  <2>2. Len(Tail(cmds)) <= CmdCap
    BY <1>0, <1>c, <2>1
  <2> QED BY <1>0, <1>3, <2>1, <2>2 DEF Consume, TypeOK
<1>4. CASE Reconnect
  <2>1. Len(<<>>) <= CmdCap
    BY <1>c
  <2> QED BY <1>4, <2>1 DEF Reconnect, TypeOK
<1>5. ASSUME NEW n \in 1 .. ReadMax, Read(n) PROVE TypeOK'
  <2>1. n \in 1 .. Len(wire) + 1 /\ n + 1 \in 1 .. Len(wire) + 1
        /\ partial' = partial \o SubSeq(wire, 1, n)
        /\ wire' = SubSeq(wire, n + 1, Len(wire))
    <3>1. n \in 1 .. Min({ReadMax, Len(wire)}) /\ ReadMax \in Nat /\ Len(wire) \in Nat
      BY <1>0, <1>5, FramingAssumption, LenProperties DEF Read
    <3>2. Min({ReadMax, Len(wire)}) <= Len(wire)
      BY <3>1 DEF Min
    <3>3. Min({ReadMax, Len(wire)}) \in {ReadMax, Len(wire)}
      BY <3>1 DEF Min
    <3> QED BY <1>5, <3>1, <3>2, <3>3 DEF Read, Collected
  <2>2. SubSeq(wire, 1, n) \in Seq(Nat) /\ SubSeq(wire, n + 1, Len(wire)) \in Seq(Nat)
    <3>1. /\ \A i \in 1 .. n : i \in 1 .. Len(wire)
          /\ \A i \in n + 1 .. Len(wire) : i \in 1 .. Len(wire)
          /\ Len(wire) \in Nat /\ n \in Int /\ n + 1 \in Int /\ 1 \in Int
      BY <1>0, <2>1, LenProperties
    <3>2. /\ \A i \in 1 .. n : wire[i] \in Nat
          /\ \A i \in n + 1 .. Len(wire) : wire[i] \in Nat
      BY <1>0, <3>1, ElementOfSeq
    <3> QED BY <3>1, <3>2, SubSeqProperties
  <2>3. partial \o SubSeq(wire, 1, n) \in Seq(Nat)
    BY <1>0, <2>2, ConcatProperties
  <2> QED BY <1>0, <1>5, <2>1, <2>2, <2>3 DEF Read, TypeOK
<1>6. CASE TakePacket
  <2>1. /\ pending' \in Seq(Packets) /\ partial' \in Seq(Nat) /\ wire' = wire
        /\ reader' = reader /\ cmds' = Queued(CommandIn(Head(pending)))
        /\ Head(pending) \in Packets
    BY <1>6, TakePacketIs
  <2> DEFINE c == CommandIn(Head(pending))
  <2>2. c # NoCommand => c \in (1 .. 2) \X Temps
    BY <2>1, ParsedIs
  <2> HIDE DEF c
  <2>3. CASE c # NoCommand /\ Len(cmds) < CmdCap
    <3>1. Append(cmds, c) \in Seq((1 .. 2) \X Temps) /\ Len(Append(cmds, c)) = Len(cmds) + 1
          /\ Len(cmds) \in Nat
      BY <1>0, <2>2, <2>3, AppendProperties, LenProperties
    <3>2. Len(Append(cmds, c)) <= CmdCap
      BY <1>c, <2>3, <3>1
    <3>3. cmds' = Append(cmds, c)
      BY <2>1, <2>3 DEF Queued, c
    <3> QED BY <1>0, <2>1, <3>1, <3>2, <3>3 DEF TypeOK
  <2>4. CASE ~(c # NoCommand /\ Len(cmds) < CmdCap)
    <3>1. cmds' = cmds
      BY <2>1, <2>4 DEF Queued, c
    <3> QED BY <1>0, <2>1, <3>1 DEF TypeOK
  <2> QED BY <2>3, <2>4
<1>7. CASE UNCHANGED vars
  BY <1>0, <1>7 DEF vars, TypeOK
<1> QED BY <1>1, <1>2, <1>3, <1>4, <1>5, <1>6, <1>7 DEF Next, ReadSome

\* One step of each action.
LEMMA InStepStep == TypeOK /\ InStep /\ [Next]_vars => InStep'
<1> SUFFICES ASSUME TypeOK, InStep, [Next]_vars PROVE InStep'
  OBVIOUS
<1>0. wire \in Seq(Nat) /\ partial \in Seq(Nat) /\ pending \in Seq(Packets)
  BY DEF TypeOK
<1>e. /\ <<>> \in Seq(Packets) /\ <<>> \in Seq(Nat)
      /\ AllBytes(<<>>) = <<>> /\ <<>> \o <<>> = <<>>
  <2>1. <<>> \in Seq(Packets) /\ <<>> \in Seq(Nat)
    OBVIOUS
  <2>2. AllBytes(<<>>) = <<>>
    BY <2>1, AllBytesAre
  <2> QED BY <2>1, <2>2, ConcatEmptySeq
<1>1. ASSUME NEW p \in Packets, Send(p) PROVE InStep'
  <2> DEFINE b == Bytes(p)
  <2>1. b \in Seq(Nat)
    BY BytesAre
  <2>2. AllBytes(Append(pending, p)) = AllBytes(pending) \o b
    BY <1>0, AllBytesAre
  <2> HIDE DEF b
  <2>3. (partial \o wire) \o b = partial \o (wire \o b)
    BY <1>0, <2>1, ConcatAssociative
  <2> QED BY <1>1, <2>2, <2>3 DEF Send, InStep, b
<1>2. CASE Eof \/ Consume
  BY <1>2 DEF Eof, Consume, InStep
<1>3. CASE Reconnect
  BY <1>3, <1>e DEF Reconnect, InStep
<1>4. ASSUME NEW n \in 1 .. ReadMax, Read(n) PROVE InStep'
  <2> DEFINE x == SubSeq(wire, 1, n)
             y == SubSeq(wire, n + 1, Len(wire))
  <2>1. n \in 0 .. Len(wire) /\ Len(wire) \in n .. Len(wire) /\ 1 \in 1 .. Len(wire) + 1
        /\ partial' = partial \o x /\ wire' = y /\ pending' = pending
    <3>1. n \in 1 .. Min({ReadMax, Len(wire)}) /\ ReadMax \in Nat /\ Len(wire) \in Nat
      BY <1>0, <1>4, FramingAssumption, LenProperties DEF Read
    <3>2. Min({ReadMax, Len(wire)}) <= Len(wire)
      BY <3>1 DEF Min
    <3>3. Min({ReadMax, Len(wire)}) \in {ReadMax, Len(wire)}
      BY <3>1 DEF Min
    <3> QED BY <1>4, <3>1, <3>2, <3>3 DEF Read, Collected
  <2>2. x \o y = wire
    <3>1. n \in 1 - 1 .. Len(wire)
      BY <2>1
    <3>2. x \o y = SubSeq(wire, 1, Len(wire))
      BY <1>0, <2>1, <3>1, ConcatAdjacentSubSeq
    <3>3. SubSeq(wire, 1, Len(wire)) = wire
      BY <1>0, SubSeqFull
    <3> QED BY <3>2, <3>3
  <2>3. x \in Seq(Nat) /\ y \in Seq(Nat)
    <3>1. /\ \A i \in 1 .. n : i \in 1 .. Len(wire)
          /\ \A i \in n + 1 .. Len(wire) : i \in 1 .. Len(wire)
          /\ Len(wire) \in Nat /\ n \in Int /\ n + 1 \in Int /\ 1 \in Int
      BY <1>0, <2>1, LenProperties
    <3>2. /\ \A i \in 1 .. n : wire[i] \in Nat
          /\ \A i \in n + 1 .. Len(wire) : wire[i] \in Nat
      BY <1>0, <3>1, ElementOfSeq
    <3> QED BY <3>1, <3>2, SubSeqProperties
  <2> HIDE DEF x, y
  <2>4. (partial \o x) \o y = partial \o (x \o y)
    BY <1>0, <2>3, ConcatAssociative
  <2> QED BY <2>1, <2>2, <2>4 DEF InStep
<1>5. CASE TakePacket
  BY <1>5, TakePacketIs DEF InStep
<1>6. CASE UNCHANGED vars
  BY <1>6 DEF vars, InStep
<1> QED BY <1>1, <1>2, <1>3, <1>4, <1>5, <1>6 DEF Next, ReadSome

\* A connection starts with nothing read and nothing on the way.
LEMMA InitInStep == Init => TypeOK /\ InStep
<1> SUFFICES ASSUME Init PROVE TypeOK /\ InStep
  OBVIOUS
<1>1. Len(<<>>) <= CmdCap
  BY FramingAssumption
<1>2. <<>> \in Seq(Packets) /\ <<>> \in Seq(Nat)
  OBVIOUS
<1>3. AllBytes(<<>>) = <<>> /\ <<>> \o <<>> = <<>>
  BY <1>2, AllBytesAre, ConcatEmptySeq
<1>4. TypeOK
  BY <1>1, <1>2 DEF Init, TypeOK
<1>5. InStep
  BY <1>3 DEF Init, InStep
<1> QED BY <1>4, <1>5

\* The two are one invariant: that what is queued is a command of the right type depends
\* on packets being cut where they end.
LEMMA ReaderInvariant == Spec => [](TypeOK /\ InStep)
<1>1. Init => TypeOK /\ InStep
  BY InitInStep
<1>2. TypeOK /\ InStep /\ [Next]_vars => TypeOK' /\ InStep'
  BY TypeOKStep, InStepStep
<1> QED BY <1>1, <1>2, PTL DEF Spec

\* Whatever packets come, what the reader queues are setpoints of the two channels, never
\* more than the command channel holds (mqtt.rs:282-287).
THEOREM ReaderTypes == Spec => []TypeOK
BY ReaderInvariant, PTL

\* However the stream is cut into reads and wherever the connection ends, no byte is lost,
\* taken twice or left over: what is collected and what is on the way are the packets that
\* were not taken yet (mqtt.rs:276-281).
THEOREM ReaderInStep == Spec => []InStep
BY ReaderInvariant, PTL

\* Every number below 128 ^ 4 that mqtt_encode_remaining_length is given comes back from
\* mqtt_decode_remaining_length, with the bytes it took, whatever follows it in the stream.
THEOREM LengthsComeBack == Spec => []RoundTrip
<1>1. TypeOK => RoundTrip
  <2> SUFFICES ASSUME TypeOK, NEW n \in 0 .. Multiplier[LengthBytes] - 1
               PROVE  Decode(Encode[n] \o wire) = [value |-> n, used |-> Len(Encode[n])]
    BY DEF RoundTrip
  <2> DEFINE e == Encode[n]
             l == Len(e)
             w == Len(wire)
             u == e \o wire
  <2>1. n \in Nat /\ n < Multiplier[LengthBytes] /\ LengthBytes \in Nat /\ LengthBytes # 0
    BY FramingAssumption, MultiplierIs
  <2>2. l <= LengthBytes
    BY <2>1, EncodeFits
  <2>3. e \in Seq(Nat) /\ wire \in Seq(Nat) /\ l = Len(e) /\ w = Len(wire) /\ u = e \o wire
    BY <2>1, EncodeIs DEF TypeOK
  <2> HIDE DEF e, l, w, u
  <2>4. l \in Nat /\ w \in Nat /\ u \in Seq(Nat) /\ Len(u) = l + w /\ \A i \in 1 .. l : u[i] = e[i]
    BY <2>3, Concat
  <2>5. l <= Len(u)
    BY <2>4
  <2>6. Decode(u) = [value |-> n, used |-> Len(Encode[n])]
    BY <2>1, <2>2, <2>4, <2>5, DecodeWhole DEF l, e
  <2> QED BY <2>6 DEF u, e
<1> QED BY <1>1, ReaderTypes, PTL

\* The reader does with bytes what CommandFeed says of packets: each packet is taken once,
\* in the order of the broker, and its command, if it has one, goes to the channel unless
\* that is full.
THEOREM FeedImplemented == Spec => ImplementsFeed
<1>1. Init => Feed!Init
  BY DEF Init, Feed!Init
<1>2. TypeOK /\ InStep /\ [Next]_vars => [Feed!Next]_<<pending, cmds>>
  <2> SUFFICES ASSUME TypeOK, InStep, [Next]_vars
               PROVE  [Feed!Next]_<<pending, cmds>>
    OBVIOUS
  <2>1. ASSUME NEW p \in Packets, Send(p) PROVE Feed!Send
    BY <2>1 DEF Send, Feed!Send
  <2>2. CASE Eof \/ (\E n \in 1 .. ReadMax : Read(n)) \/ UNCHANGED vars
    BY <2>2 DEF Eof, Read, vars
  <2>3. CASE Consume
    BY <2>3 DEF Consume, Feed!Next, Feed!Consume
  <2>4. CASE Reconnect
    BY <2>4 DEF Reconnect, Feed!Next, Feed!Reset
  <2>5. CASE TakePacket
    <3>1. /\ pending # <<>> /\ pending' = Tail(pending)
          /\ cmds' = Queued(CommandIn(Head(pending)))
      BY <2>5, TakePacketIs
    <3>2. Feed!Take
      BY <3>1 DEF Queued, Feed!Take, Feed!Queue
    <3> QED BY <3>2 DEF Feed!Next
  <2> QED BY <2>1, <2>2, <2>3, <2>4, <2>5 DEF Next, ReadSome, Feed!Next
<1> QED BY <1>1, <1>2, ReaderInvariant, PTL DEF Spec, ImplementsFeed, Feed!Spec

=============================================================================
