---------------------------- MODULE FramesProofs ----------------------------
(* Proofs about Frames, for every length of ids, addresses and round trip  *)
(* times: what one end writes the other parses, whatever bytes follow, and *)
(* no parser is content with less.                                         *)
EXTENDS Frames, SequenceTheorems, WellFoundedInduction, TLAPS

Octets(n) == [1 .. n -> Byte]

LEMMA Lengths ==
    /\ PEER_ID_LENGTH_BYTES \in Nat \ {0}
    /\ V4Octets \in Nat \ {0} /\ V6Octets \in Nat \ {0} /\ V4Octets < V6Octets
    /\ MillisBytes \in Nat \ {0} /\ KeptMillisBytes \in Nat \ {0}
BY LengthsAssumption

(* A function on 1 .. n is a sequence of length n.                         *)
LEMMA IsSequence ==
    ASSUME NEW S, NEW n \in Nat, NEW d \in [1 .. n -> S]
    PROVE  d \in Seq(S) /\ Len(d) = n
OBVIOUS

LEMMA OneByte ==
    ASSUME NEW S, NEW x \in S
    PROVE  <<x>> \in Seq(S) /\ Len(<<x>>) = 1 /\ <<x>>[1] = x
OBVIOUS

(* An operation, its payload, and whatever follows.                        *)
LEMMA Payload ==
    ASSUME NEW S, NEW h \in Seq(S), NEW d \in Seq(S), NEW t \in Seq(S)
    PROVE  /\ (h \o d) \o t \in Seq(S)
           /\ Len((h \o d) \o t) = Len(h) + Len(d) + Len(t)
           /\ \A i \in 1 .. Len(h) : ((h \o d) \o t)[i] = h[i]
           /\ SubSeq((h \o d) \o t, Len(h) + 1, Len(h) + Len(d)) = d
<1>11. PICK b : b = (h \o d) \o t
  OBVIOUS
<1> DEFINE m == Len(h) + 1
           n == Len(h) + Len(d)
<1>1. /\ h \o d \in Seq(S) /\ Len(h \o d) = Len(h) + Len(d)
      /\ \A i \in 1 .. Len(h) + Len(d) : (h \o d)[i] = IF i <= Len(h) THEN h[i] ELSE d[i - Len(h)]
  BY ConcatProperties
<1>2. /\ b \in Seq(S) /\ Len(b) = Len(h \o d) + Len(t)
      /\ \A i \in 1 .. Len(h \o d) + Len(t) :
            b[i] = IF i <= Len(h \o d) THEN (h \o d)[i] ELSE t[i - Len(h \o d)]
  BY <1>11, <1>1, ConcatProperties
<1>3. Len(h) \in Nat /\ Len(d) \in Nat /\ Len(t) \in Nat
  BY LenProperties
<1>4. \A i \in 1 .. Len(h) : b[i] = h[i]
  BY <1>1, <1>2, <1>3
<1>5. \A i \in m .. n : b[i] = d[i - Len(h)]
  BY <1>1, <1>2, <1>3
<1>6. \A i \in m .. n : b[i] \in S
  BY <1>3, <1>5, ElementOfSeq
<1>7. /\ SubSeq(b, m, n) \in Seq(S)
      /\ Len(SubSeq(b, m, n)) = IF m <= n THEN n - m + 1 ELSE 0
      /\ \A i \in 1 .. n - m + 1 : SubSeq(b, m, n)[i] = b[m + i - 1]
  BY <1>3, <1>6, SubSeqProperties
<1>8. Len(SubSeq(b, m, n)) = Len(d)
  BY <1>3, <1>7
<1>9. \A i \in 1 .. Len(d) : SubSeq(b, m, n)[i] = d[i]
  BY <1>3, <1>5, <1>7
<1>10. SubSeq(b, m, n) = d
  BY <1>7, <1>8, <1>9, SeqEqual
<1> QED
  BY <1>1, <1>2, <1>3, <1>4, <1>10, <1>11

(* The first n elements of a sequence.                                     *)
LEMMA FirstBytes ==
    ASSUME NEW S, NEW s \in Seq(S), NEW n \in 0 .. Len(s)
    PROVE  /\ SubSeq(s, 1, n) \in Seq(S)
           /\ Len(SubSeq(s, 1, n)) = n
           /\ \A i \in 1 .. n : SubSeq(s, 1, n)[i] = s[i]
<1>1. Len(s) \in Nat /\ \A i \in 1 .. n : s[i] \in S
  BY LenProperties, ElementOfSeq
<1> QED
  BY <1>1, SubSeqProperties

-----------------------------------------------------------------------------
(* Recursive functions.  The library's induction theorems are about an     *)
(* operator, which the provers cannot instantiate; these are about a set.  *)

(* The least element of a set of natural numbers.                          *)
LEMMA Least ==
    ASSUME NEW T, T \subseteq Nat, T # {}
    PROVE  \E x \in T : \A y \in T : x <= y
<1>1. PICK R : R = {ss \in Nat \X Nat : ss[1] < ss[2]}
  OBVIOUS
<1>2. IsWellFoundedOn(R, Nat)
  BY <1>1, NatLessThanWellFounded DEF OpToRel
<1>3. PICK x \in T : \A y \in T : ~(<<y, x>> \in R)
  BY <1>2, WFMin
<1>4. ASSUME NEW y \in T, y < x PROVE FALSE
  <2>1. <<y, x>> \in Nat \X Nat /\ <<y, x>>[1] < <<y, x>>[2]
    BY <1>4
  <2> QED
    BY <1>1, <1>3, <2>1
<1> QED
  BY <1>3, <1>4

(* Induction, for a set: the library states it for an operator.            *)
LEMMA SetInduction ==
    ASSUME NEW P, 0 \in P, \A n \in Nat : n \in P => n + 1 \in P
    PROVE  \A n \in Nat : n \in P
<1> SUFFICES ASSUME Nat \ P # {} PROVE FALSE
  OBVIOUS
<1>1. PICK x \in Nat \ P : \A y \in Nat \ P : x <= y
  BY Least
<1>2. x - 1 \in Nat /\ x - 1 \in P
  BY <1>1
<1> QED
  BY <1>1, <1>2

(* A function on the natural numbers may be defined by its first value and *)
(* the step from each value to the next.                                   *)
IsRun(f, n, first, step) ==
    f[0] = first /\ \A i \in 1 .. n : f[i] = step[<<i, f[i - 1]>>]

Recurs(f, first, step) ==
    \A n \in Nat : f[n] = IF n = 0 THEN first ELSE step[<<n, f[n - 1]>>]

LEMMA Recursion ==
    ASSUME NEW S, NEW first \in S, NEW step, \A n \in Nat, v \in S : step[<<n, v>>] \in S
    PROVE  \E f \in [Nat -> S] : Recurs(f, first, step)
<1> DEFINE Runs(n) == {f \in [0 .. n -> S] : IsRun(f, n, first, step)}
           Some == {n \in Nat : Runs(n) # {}}
           Same == {n \in Nat : \A i, j \in Nat : n <= i /\ n <= j
                                   => \A f \in Runs(i), g \in Runs(j) : f[n] = g[n]}
<1>1. \A n \in Nat : n \in Some
  <2>1. 0 \in Some
    <3>1. [i \in 0 .. 0 |-> first] \in Runs(0)
      BY DEF IsRun
    <3> QED
      BY <3>1
  <2>2. ASSUME NEW n \in Nat, n \in Some PROVE n + 1 \in Some
    <3>1. PICK f \in Runs(n) : TRUE
      BY <2>2
    <3>2. f \in [0 .. n -> S] /\ f[n] \in S /\ step[<<n + 1, f[n]>>] \in S
      <4>1. f \in [0 .. n -> S] /\ n \in 0 .. n /\ n + 1 \in Nat
        BY <3>1
      <4>2. f[n] \in S
        BY <4>1
      <4> QED
        BY <4>1, <4>2
    <3> DEFINE g == [i \in 0 .. n + 1 |-> IF i = n + 1 THEN step[<<n + 1, f[n]>>] ELSE f[i]]
    <3>3. g \in [0 .. n + 1 -> S] /\ g[0] = first
      BY <3>1, <3>2 DEF IsRun
    <3>4. \A i \in 1 .. n + 1 : g[i] = step[<<i, g[i - 1]>>]
      <4> SUFFICES ASSUME NEW i \in 1 .. n + 1 PROVE g[i] = step[<<i, g[i - 1]>>]
        OBVIOUS
      <4>1. CASE i = n + 1
        <5>1. i - 1 = n /\ n \in 0 .. n + 1 /\ n # n + 1 /\ n + 1 \in 0 .. n + 1
          BY <4>1
        <5>2. g[i - 1] = f[n] /\ g[n + 1] = step[<<n + 1, f[n]>>]
          BY <5>1
        <5> QED
          BY <4>1, <5>2
      <4>2. CASE i # n + 1
        BY <3>1, <4>2 DEF IsRun
      <4> QED
        BY <4>1, <4>2
    <3>5. g \in Runs(n + 1)
      BY <3>3, <3>4 DEF IsRun
    <3> QED
      BY <3>5
  <2> HIDE DEF Some
  <2> QED
    BY <2>1, <2>2, SetInduction
<1>2. \A n \in Nat : n \in Same
  <2>1. 0 \in Same
    BY DEF IsRun
  <2>2. ASSUME NEW n \in Nat, n \in Same PROVE n + 1 \in Same
    <3> SUFFICES ASSUME NEW i \in Nat, NEW j \in Nat, n + 1 <= i, n + 1 <= j,
                        NEW f \in Runs(i), NEW g \in Runs(j)
                 PROVE  f[n + 1] = g[n + 1]
      OBVIOUS
    <3>1. f[n] = g[n]
      BY <2>2
    <3>2. f[n + 1] = step[<<n + 1, f[n]>>] /\ g[n + 1] = step[<<n + 1, g[n]>>]
      <4>1. n + 1 \in 1 .. i /\ n + 1 \in 1 .. j /\ (n + 1) - 1 = n
        OBVIOUS
      <4> QED
        BY <4>1 DEF IsRun
    <3> QED
      BY <3>1, <3>2
  <2> HIDE DEF Same
  <2> QED
    BY <2>1, <2>2, SetInduction
<1> DEFINE run == [n \in Nat |-> CHOOSE f \in Runs(n) : TRUE]
           h == [n \in Nat |-> run[n][n]]
<1>3. \A n \in Nat : run[n] \in Runs(n)
  BY <1>1
<1>4. h \in [Nat -> S]
  <2>1. ASSUME NEW n \in Nat PROVE run[n][n] \in S
    <3>1. run[n] \in [0 .. n -> S]
      BY <1>3
    <3> QED
      BY <3>1
  <2> QED
    BY <2>1
<1>6. \A n \in Nat : h[n] = run[n][n]
  OBVIOUS
<1> HIDE DEF h, run
<1>5. ASSUME NEW n \in Nat PROVE h[n] = IF n = 0 THEN first ELSE step[<<n, h[n - 1]>>]
  <2>1. run[n] \in Runs(n)
    BY <1>3
  <2>2. CASE n = 0
    BY <1>6, <2>1, <2>2 DEF IsRun
  <2>3. CASE n # 0
    <3>1. n - 1 \in Nat /\ n \in 1 .. n
      BY <2>3
    <3>2. run[n - 1] \in Runs(n - 1)
      BY <1>3, <3>1
    <3>3. run[n][n - 1] = run[n - 1][n - 1]
      BY <1>2, <2>1, <3>1, <3>2
    <3>4. run[n][n] = step[<<n, run[n][n - 1]>>]
      BY <2>1, <3>1 DEF IsRun
    <3>5. h[n] = run[n][n] /\ h[n - 1] = run[n - 1][n - 1]
      BY <1>6, <3>1
    <3> QED
      BY <2>3, <3>3, <3>4, <3>5
  <2> QED
    BY <2>2, <2>3
<1> QED
  BY <1>4, <1>5 DEF Recurs

-----------------------------------------------------------------------------
(* Numbers.                                                                *)

LEMMA PowerDef ==
    /\ Power \in [Nat -> Nat]
    /\ \A k \in Nat : Power[k] = IF k = 0 THEN 1 ELSE 256 * Power[k - 1]
<1>1. PICK step \in [Nat \X Nat -> Nat] : \A n, v \in Nat : step[<<n, v>>] = 256 * v
  <2> WITNESS [p \in Nat \X Nat |-> 256 * p[2]] \in [Nat \X Nat -> Nat]
  <2> QED OBVIOUS
<1>2. PICK f \in [Nat -> Nat] : Recurs(f, 1, step)
  <2>1. \A n, v \in Nat : step[<<n, v>>] \in Nat
    BY <1>1
  <2> QED
    BY <2>1, 1 \in Nat, Recursion
<1>3. f = [k \in Nat |-> IF k = 0 THEN 1 ELSE 256 * f[k - 1]]
  <2>1. \A k \in Nat : f[k] = IF k = 0 THEN 1 ELSE 256 * f[k - 1]
    <3> SUFFICES ASSUME NEW k \in Nat PROVE f[k] = IF k = 0 THEN 1 ELSE 256 * f[k - 1]
      OBVIOUS
    <3>1. CASE k = 0
      BY <1>2, <3>1 DEF Recurs
    <3>2. CASE k # 0
      <4>1. k - 1 \in Nat /\ f[k - 1] \in Nat
        BY <3>2
      <4>2. step[<<k, f[k - 1]>>] = 256 * f[k - 1]
        BY <1>1, <4>1
      <4> QED
        BY <1>2, <3>2, <4>2 DEF Recurs
    <3> QED
      BY <3>1, <3>2
  <2> QED
    BY <2>1
<1>4. Power = [k \in Nat |-> IF k = 0 THEN 1 ELSE 256 * Power[k - 1]]
  BY <1>3 DEF Power
<1>5. \A k \in Nat : Power[k] = IF k = 0 THEN 1 ELSE 256 * Power[k - 1]
  BY <1>4
<1> DEFINE P == {k \in Nat : Power[k] \in Nat}
<1>6. 0 \in P
  BY <1>5
<1>7. ASSUME NEW k \in Nat, k \in P PROVE k + 1 \in P
  BY <1>5, <1>7
<1> HIDE DEF P
<1>8. \A k \in Nat : k \in P
  BY <1>6, <1>7, SetInduction
<1> QED
  BY <1>4, <1>5, <1>8 DEF P

LEMMA PowerPositive == \A n \in Nat : Power[n] \in Nat \ {0}
<1> DEFINE P == {n \in Nat : Power[n] \in Nat \ {0}}
<1>1. 0 \in P
  BY PowerDef
<1>2. ASSUME NEW n \in Nat, n \in P PROVE n + 1 \in P
  BY <1>2, PowerDef
<1> HIDE DEF P
<1>3. \A n \in Nat : n \in P
  BY <1>1, <1>2, SetInduction
<1> QED
  BY <1>3 DEF P

Accumulates(u, b, from, to) ==
    u[from - 1] = 0 /\ \A i \in from .. to : u[i] = 256 * u[i - 1] + b[i]

LEMMA NumberDef ==
    ASSUME NEW from \in Nat \ {0}, NEW to \in Nat, from - 1 <= to,
           NEW b, \A i \in from .. to : b[i] \in Nat
    PROVE  \E u : Accumulates(u, b, from, to) /\ Number(b, from, to) = u[to]
<1> DEFINE at(n) == n + from - 1
           next(n, v) == 256 * v + (IF at(n) \in from .. to THEN b[at(n)] ELSE 0)
           steps == [p \in Nat \X Nat |-> next(p[1], p[2])]
<1>1. \A n, v \in Nat : next(n, v) \in Nat
  OBVIOUS
<1>2. PICK step : step = steps
  OBVIOUS
<1> HIDE DEF next
<1>3. \A n, v \in Nat : step[<<n, v>>] = next(n, v)
  BY <1>2
<1>4. \A n, v \in Nat : step[<<n, v>>] \in Nat
  BY <1>1, <1>3
<1>5. PICK f \in [Nat -> Nat] : Recurs(f, 0, step)
  BY <1>4, 0 \in Nat, Recursion
<1> DEFINE g == [i \in from - 1 .. to |-> f[i - from + 1]]
           rule(u) == [i \in from - 1 .. to |-> IF i < from THEN 0 ELSE 256 * u[i - 1] + b[i]]
<1>6. g = rule(g)
  <2> SUFFICES ASSUME NEW i \in from - 1 .. to
               PROVE  f[i - from + 1] = IF i < from THEN 0 ELSE 256 * g[i - 1] + b[i]
    OBVIOUS
  <2>1. CASE i < from
    <3>1. i - from + 1 = 0
      BY <2>1
    <3> QED
      BY <1>5, <2>1, <3>1 DEF Recurs
  <2>2. CASE ~(i < from)
    <3>1. PICK n \in Nat : n = i - from + 1 /\ n # 0 /\ at(n) = i /\ i \in from .. to
      BY <2>2
    <3>2. g[i - 1] = f[n - 1] /\ f[n - 1] \in Nat
      BY <2>2, <3>1
    <3>3. f[n] = next(n, f[n - 1])
      BY <1>3, <1>5, <3>1, <3>2 DEF Recurs
    <3> QED
      BY <2>2, <3>1, <3>2, <3>3 DEF next
  <2> QED
    BY <2>1, <2>2
<1> HIDE DEF g
<1>7. PICK u : u = CHOOSE x : x = rule(x)
  OBVIOUS
<1>8. u = rule(u)
  <2>1. \E x : x = rule(x)
    BY <1>6
  <2> HIDE DEF rule
  <2> QED
    BY <1>7, <2>1
<1>9. Number(b, from, to) = u[to]
  BY <1>7 DEF Number
<1>10. u[from - 1] = 0
  BY <1>8
<1>11. \A i \in from .. to : u[i] = 256 * u[i - 1] + b[i]
  <2> SUFFICES ASSUME NEW i \in from .. to PROVE u[i] = 256 * u[i - 1] + b[i]
    OBVIOUS
  <2>1. i \in from - 1 .. to /\ ~(i < from)
    OBVIOUS
  <2> QED
    BY <1>8, <2>1
<1> QED
  BY <1>9, <1>10, <1>11 DEF Accumulates

LEMMA Digits ==
    ASSUME NEW v \in Nat, NEW n \in Nat
    PROVE  BigEndian(v, n) \in [1 .. n -> Byte]
<1> SUFFICES ASSUME NEW i \in 1 .. n PROVE (v \div Power[n - i]) % 256 \in Byte
  BY DEF BigEndian
<1>1. PICK q \in Nat \ {0} : q = Power[n - i]
  BY PowerPositive
<1>2. PICK d \in Nat : d = v \div q
  OBVIOUS
<1>3. d % 256 \in Byte
  BY DEF Byte
<1> QED
  BY <1>1, <1>2, <1>3

(* One digit more of v: q is a power of 256.                               *)
NextDigit(v, q, a, c) == a = v \div q /\ c = v \div (256 * q) /\ a = 256 * c + (a % 256)

LEMMA Division ==
    ASSUME NEW v \in Nat, NEW q \in Nat \ {0}
    PROVE  \E a, c \in Nat : NextDigit(v, q, a, c)
<1>1. PICK a \in Nat, r \in Nat : v = a * q + r /\ r < q /\ a = v \div q
  OBVIOUS
<1>2. PICK c \in Nat, d \in 0 .. 255 : a = 256 * c + d /\ d = a % 256
  OBVIOUS
<1>3. v = c * (256 * q) + (d * q + r) /\ d * q + r \in Nat /\ d * q + r < 256 * q
  <2>1. d * q <= 255 * q /\ d * q \in Nat
    OBVIOUS
  <2>2. a * q = c * (256 * q) + d * q
    BY <1>2
  <2> QED
    BY <1>1, <2>1, <2>2
<1>4. v \div (256 * q) = c
  <2>1. PICK m \in Nat, s \in Nat : m = 256 * q /\ s = d * q + r /\ v = c * m + s /\ s < m
    BY <1>3
  <2>2. v \div m = c
    BY <2>1
  <2> QED
    BY <2>1, <2>2
<1>5. a = 256 * c + (a % 256)
  BY <1>2
<1> QED
  BY <1>1, <1>4, <1>5 DEF NextDigit

LEMMA NumberOfDigits ==
    ASSUME NEW k \in Nat \ {0}, NEW v \in Nat, v < Power[k],
           NEW end \in Nat, k <= end,
           NEW b, \A j \in 1 .. k : b[end - k + j] = (v \div Power[k - j]) % 256
    PROVE  Number(b, end - k + 1, end) = v
<1>1. PICK from \in Nat \ {0} : from = end - k + 1
  OBVIOUS
<1>3. \A j \in 1 .. k : v \div Power[k - j] \in Nat
  <2> SUFFICES ASSUME NEW j \in 1 .. k PROVE v \div Power[k - j] \in Nat
    OBVIOUS
  <2>1. PICK q \in Nat \ {0} : q = Power[k - j]
    BY PowerPositive
  <2>2. v \div q \in Nat
    OBVIOUS
  <2> QED
    BY <2>1, <2>2
<1>4. \A i \in from .. end : b[i] \in Nat
  <2> SUFFICES ASSUME NEW i \in from .. end PROVE b[i] \in Nat
    OBVIOUS
  <2>1. PICK j \in 1 .. k : i = end - k + j
    <3>1. i - end + k \in 1 .. k /\ i = end - k + (i - end + k)
      BY <1>1
    <3> QED
      BY <3>1
  <2>2. PICK d \in Nat : d = v \div Power[k - j]
    BY <1>3
  <2>3. d % 256 \in Nat
    OBVIOUS
  <2> QED
    BY <2>1, <2>2, <2>3
<1>5. PICK u : Accumulates(u, b, from, end) /\ Number(b, from, end) = u[end]
  <2>1. end \in Nat /\ from - 1 <= end
    BY <1>1
  <2> QED
    BY <1>4, <2>1, NumberDef
<1> DEFINE P == {j \in Nat : j <= k => u[end - k + j] = v \div Power[k - j]}
<1>6. 0 \in P
  <2>1. PICK q \in Nat : q = Power[k] /\ v < q
    BY PowerDef
  <2>2. v \div q = 0
    BY <2>1
  <2>3. u[end - k + 0] = 0
    BY <1>1, <1>5 DEF Accumulates
  <2> QED
    BY <2>1, <2>2, <2>3
<1>7. ASSUME NEW j \in Nat, j \in P PROVE j + 1 \in P
  <2> SUFFICES ASSUME j + 1 <= k
               PROVE  u[end - k + (j + 1)] = v \div Power[k - (j + 1)]
    OBVIOUS
  <2>1. PICK n \in Nat : n = k - (j + 1)
    OBVIOUS
  <2>2. PICK q \in Nat \ {0} : q = Power[n]
    BY PowerPositive
  <2>3. Power[k - j] = 256 * q
    <3>1. k - j \in Nat /\ k - j # 0 /\ (k - j) - 1 = n
      BY <2>1
    <3> QED
      BY <2>2, <3>1, PowerDef
  <2>4. PICK i \in from .. end : i = end - k + (j + 1)
    BY <1>1
  <2>5. u[i] = 256 * u[i - 1] + b[i]
    BY <1>5 DEF Accumulates
  <2>6. u[i - 1] = v \div (256 * q)
    <3>1. i - 1 = end - k + j /\ j <= k
      BY <2>4
    <3> QED
      BY <1>7, <2>3, <3>1
  <2>7. b[i] = (v \div q) % 256
    <3>1. j + 1 \in 1 .. k
      OBVIOUS
    <3> QED
      BY <2>1, <2>2, <2>4, <3>1
  <2>8. PICK a, c \in Nat : NextDigit(v, q, a, c)
    BY Division
  <2>9. u[i] = a
    BY <2>5, <2>6, <2>7, <2>8 DEF NextDigit
  <2> QED
    BY <2>1, <2>2, <2>4, <2>8, <2>9 DEF NextDigit
<1> HIDE DEF P
<1>8. k \in P
  BY <1>6, <1>7, SetInduction
<1>9. u[end] = v \div Power[0]
  <2>1. end - k + k = end /\ k - k = 0 /\ k <= k
    OBVIOUS
  <2> QED
    BY <1>8, <2>1 DEF P
<1>10. v \div Power[0] = v
  BY PowerDef
<1> QED
  BY <1>1, <1>5, <1>9, <1>10

-----------------------------------------------------------------------------
(* Frames for the relay.                                                   *)

(* What follows the operation.                                             *)
RelayPayload(op) == IF op \in WithPeerId THEN Octets(PEER_ID_LENGTH_BYTES) ELSE {<<>>}

LEMMA RelayPayloadLength ==
    ASSUME NEW op, NEW d \in RelayPayload(op)
    PROVE  /\ d \in Seq(Byte)
           /\ op \in WithPeerId => Len(d) = PEER_ID_LENGTH_BYTES
           /\ op \notin WithPeerId => d = <<>> /\ Len(d) = 0
<1>1. CASE op \in WithPeerId
  <2>1. d \in [1 .. PEER_ID_LENGTH_BYTES -> Byte] /\ PEER_ID_LENGTH_BYTES \in Nat
    BY <1>1, Lengths DEF RelayPayload, Octets
  <2> QED
    BY <1>1, <2>1, IsSequence
<1>2. CASE op \notin WithPeerId
  BY <1>2, EmptySeq DEF RelayPayload
<1> QED
  BY <1>1, <1>2

(* Every byte names at most one operation.                                 *)
LEMMA RelayOperationOf ==
    ASSUME NEW op \in DOMAIN RelayOperations
    PROVE  /\ RelayOperations[op] \in Byte
           /\ Named(RelayOperations, RelayOperations[op]) = {op}
BY DEF RelayOperations, Named, Byte

LEMMA RelayDispatch ==
    ASSUME NEW op \in DOMAIN RelayOperations, NEW b, b # <<>>, b[1] = RelayOperations[op]
    PROVE  ParseRelayFrame(b) =
              IF op \in WithPeerId THEN ParsePeerId(op, b) ELSE Parsed(Frame(op, "", <<>>, 0))
<1>1. Named(RelayOperations, b[1]) = {op}
  BY RelayOperationOf
<1>2. (CHOOSE o \in Named(RelayOperations, b[1]) : TRUE) = op
  BY <1>1
<1>3. Named(RelayOperations, b[1]) # {}
  BY <1>1
<1> QED
  BY <1>2, <1>3 DEF ParseRelayFrame

(* RelayFrames::parse reads back what RelayFrames::to_be_bytes wrote, for  *)
(* every frame and whatever has arrived behind it.                         *)
THEOREM RelayRoundTrip ==
    ASSUME NEW op \in DOMAIN RelayOperations, NEW d \in RelayPayload(op),
           NEW tail \in Seq(Byte)
    PROVE  LET f == Frame(op, "", d, 0)
           IN  ParseRelayFrame(RelayFrameBytes(f) \o tail) = Parsed(f)
<1>1. PICK h : h = <<RelayOperations[op]>>
  OBVIOUS
<1>2. PICK b : b = (h \o d) \o tail
  OBVIOUS
<1>3. RelayFrameBytes(Frame(op, "", d, 0)) \o tail = b
  BY <1>1, <1>2 DEF RelayFrameBytes, Frame
<1>4. h \in Seq(Byte) /\ Len(h) = 1 /\ h[1] = RelayOperations[op]
  BY <1>1, RelayOperationOf, OneByte
<1>5. /\ b \in Seq(Byte) /\ Len(b) = Len(h) + Len(d) + Len(tail)
      /\ \A i \in 1 .. Len(h) : b[i] = h[i]
      /\ SubSeq(b, Len(h) + 1, Len(h) + Len(d)) = d
  <2>1. d \in Seq(Byte)
    BY RelayPayloadLength
  <2>2. h \in Seq(Byte)
    BY <1>4
  <2>3. /\ (h \o d) \o tail \in Seq(Byte)
        /\ Len((h \o d) \o tail) = Len(h) + Len(d) + Len(tail)
        /\ \A i \in 1 .. Len(h) : ((h \o d) \o tail)[i] = h[i]
        /\ SubSeq((h \o d) \o tail, Len(h) + 1, Len(h) + Len(d)) = d
    BY <2>1, <2>2, Payload
  <2> QED
    BY <1>2, <2>3
<1>6. Len(d) \in Nat /\ Len(tail) \in Nat
  BY RelayPayloadLength, LenProperties
<1>7. b # <<>> /\ b[1] = RelayOperations[op]
  BY <1>4, <1>5, <1>6, EmptySeq
<1>8. CASE op \in WithPeerId
  <2>1. Len(d) = PEER_ID_LENGTH_BYTES
    BY <1>8, RelayPayloadLength
  <2>2. ~(Len(b) < 1 + PEER_ID_LENGTH_BYTES) /\ SubSeq(b, 2, 1 + PEER_ID_LENGTH_BYTES) = d
    BY <1>4, <1>5, <1>6, <2>1
  <2>3. ParsePeerId(op, b) = Parsed(Frame(op, "", d, 0))
    BY <2>2 DEF ParsePeerId
  <2> QED
    BY <1>3, <1>7, <1>8, <2>3, RelayDispatch
<1>9. CASE op \notin WithPeerId
  <2>1. d = <<>>
    BY <1>9, RelayPayloadLength
  <2>2. ParseRelayFrame(b) = Parsed(Frame(op, "", <<>>, 0))
    BY <1>7, <1>9, RelayDispatch
  <2> QED
    BY <1>3, <2>1, <2>2
<1> QED
  BY <1>8, <1>9

(* No proper prefix of a frame for the relay passes for a frame or for an  *)
(* error: read_frame waits for the rest.                                   *)
THEOREM RelayPrefix ==
    ASSUME NEW op \in DOMAIN RelayOperations, NEW d \in RelayPayload(op),
           NEW n \in 0 .. Len(d)
    PROVE  ParseRelayFrame(SubSeq(RelayFrameBytes(Frame(op, "", d, 0)), 1, n)) = Incomplete
<1>1. PICK h : h = <<RelayOperations[op]>>
  OBVIOUS
<1>2. PICK s : s = h \o d
  OBVIOUS
<1>3. PICK b : b = SubSeq(s, 1, n)
  OBVIOUS
<1>4. SubSeq(RelayFrameBytes(Frame(op, "", d, 0)), 1, n) = b
  BY <1>1, <1>2, <1>3 DEF RelayFrameBytes, Frame
<1>5. h \in Seq(Byte) /\ Len(h) = 1 /\ h[1] = RelayOperations[op]
  BY <1>1, RelayOperationOf, OneByte
<1>6. d \in Seq(Byte) /\ Len(d) \in Nat
  BY RelayPayloadLength, LenProperties
<1>7. /\ s \in Seq(Byte) /\ Len(s) = Len(h) + Len(d)
      /\ \A i \in 1 .. Len(h) + Len(d) : s[i] = IF i <= Len(h) THEN h[i] ELSE d[i - Len(h)]
  BY <1>2, <1>5, <1>6, ConcatProperties
<1>8. b \in Seq(Byte) /\ Len(b) = n /\ \A i \in 1 .. n : b[i] = s[i]
  <2>1. n \in 0 .. Len(s)
    BY <1>5, <1>6, <1>7
  <2> QED
    BY <1>3, <1>7, <2>1, FirstBytes
<1>9. CASE n = 0
  <2>1. b = <<>>
    BY <1>8, <1>9, EmptySeq
  <2> QED
    BY <1>4, <2>1 DEF ParseRelayFrame
<1>10. CASE n # 0
  <2>1. n \in Nat /\ 1 <= n /\ n <= Len(d)
    BY <1>6, <1>10
  <2>2. b # <<>>
    BY <1>8, <2>1, EmptySeq
  <2>3. b[1] = RelayOperations[op]
    BY <1>5, <1>6, <1>7, <1>8, <2>1
  <2>4. op \in WithPeerId /\ Len(d) = PEER_ID_LENGTH_BYTES
    BY <2>1, RelayPayloadLength
  <2>5. ParsePeerId(op, b) = Incomplete
    <3>1. Len(b) < 1 + PEER_ID_LENGTH_BYTES
      BY <1>8, <2>1, <2>4, Lengths
    <3> QED
      BY <3>1 DEF ParsePeerId
  <2> QED
    BY <1>4, <2>2, <2>3, <2>4, <2>5, RelayDispatch
<1> QED
  BY <1>9, <1>10

-----------------------------------------------------------------------------
(* Frames for a peer.                                                      *)

LEMMA PeerOperationOf ==
    ASSUME NEW op \in DOMAIN PeerOperations
    PROVE  /\ PeerOperations[op] \in Byte
           /\ Named(PeerOperations, PeerOperations[op]) = {op}
BY DEF PeerOperations, Named, Byte

LEMMA CodeOf ==
    ASSUME NEW op \in DOMAIN PeerOperations, NEW code \in DOMAIN Codes(op)
    PROVE  /\ Codes(op)[code] \in Byte
           /\ Named(Codes(op), Codes(op)[code]) = {code}
<1>1. CASE op = "PingResult"
  BY <1>1 DEF Codes, HealthStatus, Named, Byte
<1>2. CASE op = "Commands"
  BY <1>2 DEF Codes, PeerCommands, Named, Byte
<1>3. CASE op # "PingResult" /\ op # "Commands"
  BY <1>3 DEF Codes, StatusCodes, Named, Byte
<1> QED
  BY <1>1, <1>2, <1>3

LEMMA PeerDispatch ==
    ASSUME NEW op \in DOMAIN PeerOperations, NEW code \in DOMAIN Codes(op),
           NEW b, b # <<>>, ~(Len(b) < 2),
           b[1] = PeerOperations[op], b[2] = Codes(op)[code]
    PROVE  ParsePeerFrame(b) =
              CASE op = "ProbeResult" /\ code = "SUCCESS" -> ParsePeerInfo(b)
                [] code = "DOCONNECT" -> ParseDoConnect(b)
                [] OTHER -> Parsed(Frame(op, code, <<>>, 0))
<1>1. Named(PeerOperations, b[1]) = {op} /\ Named(Codes(op), b[2]) = {code}
  BY PeerOperationOf, CodeOf
<1>2. (CHOOSE o \in Named(PeerOperations, b[1]) : TRUE) = op
  BY <1>1
<1>3. (CHOOSE c \in Named(Codes(op), b[2]) : TRUE) = code
  BY <1>1
<1>4. Named(PeerOperations, b[1]) # {} /\ Named(Codes(op), b[2]) # {}
  BY <1>1
<1> QED
  BY <1>2, <1>3, <1>4 DEF ParsePeerFrame

LEMMA TwoBytes ==
    ASSUME NEW S, NEW x \in S, NEW y \in S
    PROVE  <<x, y>> \in Seq(S) /\ Len(<<x, y>>) = 2 /\ <<x, y>>[1] = x /\ <<x, y>>[2] = y
OBVIOUS

(* |operation|code|payload| and whatever follows.                          *)
LEMMA PeerFrame ==
    ASSUME NEW op \in DOMAIN PeerOperations, NEW code \in DOMAIN Codes(op),
           NEW d \in Seq(Byte), NEW tail \in Seq(Byte),
           NEW h, h = <<PeerOperations[op], Codes(op)[code]>>
    PROVE  /\ h \in Seq(Byte) /\ Len(h) = 2
           /\ (h \o d) \o tail \in Seq(Byte) /\ (h \o d) \o tail # <<>>
           /\ Len((h \o d) \o tail) = 2 + Len(d) + Len(tail)
           /\ ((h \o d) \o tail)[1] = PeerOperations[op]
           /\ ((h \o d) \o tail)[2] = Codes(op)[code]
           /\ SubSeq((h \o d) \o tail, 3, 2 + Len(d)) = d
<1>1. PeerOperations[op] \in Byte /\ Codes(op)[code] \in Byte
  BY PeerOperationOf, CodeOf
<1>2. /\ h \in Seq(Byte) /\ Len(h) = 2
      /\ h[1] = PeerOperations[op] /\ h[2] = Codes(op)[code]
  BY <1>1, TwoBytes
<1>3. h \in Seq(Byte)
  BY <1>2
<1>4. /\ (h \o d) \o tail \in Seq(Byte)
      /\ Len((h \o d) \o tail) = Len(h) + Len(d) + Len(tail)
      /\ \A i \in 1 .. Len(h) : ((h \o d) \o tail)[i] = h[i]
      /\ SubSeq((h \o d) \o tail, Len(h) + 1, Len(h) + Len(d)) = d
  BY <1>3, Payload
<1>5. Len(d) \in Nat /\ Len(tail) \in Nat
  BY LenProperties
<1>6. (h \o d) \o tail # <<>>
  BY <1>2, <1>4, <1>5, EmptySeq
<1>7. /\ SubSeq((h \o d) \o tail, 3, 2 + Len(d)) = d
      /\ Len((h \o d) \o tail) = 2 + Len(d) + Len(tail)
  <2>1. Len(h) + 1 = 3
    BY <1>2
  <2> QED
    BY <1>2, <1>4, <2>1
<1> QED
  BY <1>2, <1>4, <1>6, <1>7

(* The frames of two bytes: a status, a health, SYNC, and the ProbeResult  *)
(* of a probe that failed.                                                 *)
HasPayload(op, code) == (op = "ProbeResult" /\ code = "SUCCESS") \/ code = "DOCONNECT"

(* PeerFrames::parse reads back every frame without a payload, whatever    *)
(* has arrived behind it.                                                  *)
THEOREM PeerCodeRoundTrip ==
    ASSUME NEW op \in DOMAIN PeerOperations, NEW code \in DOMAIN Codes(op),
           ~HasPayload(op, code), NEW tail \in Seq(Byte)
    PROVE  LET f == Frame(op, code, <<>>, 0)
           IN  ParsePeerFrame(PeerFrameBytes(f) \o tail) = Parsed(f)
<1>1. PICK h : h = <<PeerOperations[op], Codes(op)[code]>>
  OBVIOUS
<1>2. PICK b : b = (h \o <<>>) \o tail
  OBVIOUS
<1>3. PeerFrameBytes(Frame(op, code, <<>>, 0)) \o tail = b
  BY <1>1, <1>2 DEF PeerFrameBytes, HasInfo, Frame, HasPayload
<1>4. <<>> \in Seq(Byte) /\ Len(<<>>) = 0
  BY EmptySeq
<1>5. /\ b # <<>> /\ Len(b) = 2 + Len(tail)
      /\ b[1] = PeerOperations[op] /\ b[2] = Codes(op)[code]
  <2>1. /\ (h \o <<>>) \o tail # <<>>
        /\ Len((h \o <<>>) \o tail) = 2 + Len(<<>>) + Len(tail)
        /\ ((h \o <<>>) \o tail)[1] = PeerOperations[op]
        /\ ((h \o <<>>) \o tail)[2] = Codes(op)[code]
    BY <1>1, <1>4, PeerFrame
  <2> QED
    BY <1>2, <1>4, <2>1
<1>6. ~(Len(b) < 2)
  <2>1. Len(tail) \in Nat
    BY LenProperties
  <2> QED
    BY <1>5, <2>1
<1> QED
  BY <1>3, <1>5, <1>6, PeerDispatch DEF HasPayload

(* Where the payload d of a frame lies in the buffer b.                    *)
LEMMA Inside ==
    ASSUME NEW S, NEW b \in Seq(S), NEW d \in Seq(S),
           Len(d) <= Len(b) - 2, SubSeq(b, 3, 2 + Len(d)) = d, NEW n \in 1 .. Len(d) - 1
    PROVE  /\ SubSeq(b, 4, 3 + n) = SubSeq(d, 2, 1 + n)
           /\ \A i \in 1 .. Len(d) : b[2 + i] = d[i]
<1>1. Len(d) \in Nat /\ Len(b) \in Nat
  BY LenProperties
<1>2. PICK m : m = 2 + Len(d)
  OBVIOUS
<1>3. 3 \in 1 .. Len(b) /\ m \in 1 .. Len(b) /\ m - 3 + 1 = Len(d)
  BY <1>1, <1>2
<1>4. \A i \in 3 .. m : b[i] \in S
  BY <1>1, <1>3, ElementOfSeq
<1>5. \A i \in 1 .. m - 3 + 1 : SubSeq(b, 3, m)[i] = b[3 + i - 1]
  BY <1>3, <1>4, SubSeqProperties
<1>6. \A i \in 1 .. Len(d) : b[2 + i] = d[i]
  BY <1>1, <1>2, <1>3, <1>5
<1>7. PICK k : k = 1 + n
  OBVIOUS
<1>8. 2 \in 1 .. m - 3 + 1 /\ k \in 1 .. m - 3 + 1
  BY <1>1, <1>3, <1>7
<1>9. SubSeq(SubSeq(b, 3, m), 2, k) = SubSeq(b, 3 + 2 - 1, 3 + k - 1)
  BY <1>3, <1>8, SubSeqOfSubSeq
<1>10. 3 + 2 - 1 = 4 /\ 3 + k - 1 = 3 + n
  BY <1>7
<1> QED
  BY <1>2, <1>6, <1>7, <1>9, <1>10

AddressType(ip) == IF Len(ip) = V4Octets THEN 0 ELSE 1

LEMMA AddressLength ==
    ASSUME NEW ip \in Address
    PROVE  /\ ip \in Seq(Byte)
           /\ Len(ip) \in {V4Octets, V6Octets}
           /\ Len(ip) \in Nat \ {0}
           /\ V6Octets - Len(ip) \in Nat
<1>1. CASE ip \in Octets(V4Octets)
  <2>1. ip \in [1 .. V4Octets -> Byte] /\ V4Octets \in Nat
    BY <1>1, Lengths DEF Octets
  <2>2. ip \in Seq(Byte) /\ Len(ip) = V4Octets
    BY <2>1, IsSequence
  <2> QED
    BY <2>2, Lengths
<1>2. CASE ip \in Octets(V6Octets)
  <2>1. ip \in [1 .. V6Octets -> Byte] /\ V6Octets \in Nat
    BY <1>2, Lengths DEF Octets
  <2>2. ip \in Seq(Byte) /\ Len(ip) = V6Octets
    BY <2>1, IsSequence
  <2> QED
    BY <2>2, Lengths
<1> QED
  BY <1>1, <1>2 DEF Address, Octets

(* PeerInfo::to_be_bytes writes |type|address|padding and milliseconds|.   *)
LEMMA PeerInfoLayout ==
    ASSUME NEW ip \in Address, NEW rtt \in Nat
    PROVE  /\ PeerInfoBytes(ip, rtt) \in Seq(Byte)
           /\ Len(PeerInfoBytes(ip, rtt)) = 1 + V6Octets + MillisBytes
           /\ PeerInfoBytes(ip, rtt)[1] = AddressType(ip)
           /\ SubSeq(PeerInfoBytes(ip, rtt), 2, 1 + Len(ip)) = ip
           /\ \A i \in 1 .. MillisBytes :
                 PeerInfoBytes(ip, rtt)[1 + V6Octets + i] = BigEndian(rtt, MillisBytes)[i]
<1>1. PICK x : x = <<AddressType(ip)>>
  OBVIOUS
<1>2. PICK z : z = Zeros(V6Octets - Len(ip))
  OBVIOUS
<1>3. PICK m : m = BigEndian(rtt, MillisBytes)
  OBVIOUS
<1>4. x \in Seq(Byte) /\ Len(x) = 1 /\ x[1] = AddressType(ip)
  <2>1. AddressType(ip) \in Byte
    BY DEF AddressType, Byte
  <2> QED
    BY <1>1, <2>1, OneByte
<1>5. z \in Seq(Byte) /\ Len(z) = V6Octets - Len(ip)
  <2>1. V6Octets - Len(ip) \in Nat
    BY AddressLength
  <2>2. 0 \in Byte
    BY DEF Byte
  <2>3. z \in [1 .. V6Octets - Len(ip) -> Byte]
    BY <1>2, <2>2 DEF Zeros
  <2> QED
    BY <2>1, <2>3, IsSequence
<1>6. m \in Seq(Byte) /\ Len(m) = MillisBytes
  BY <1>3, Lengths, Digits, IsSequence
<1>7. /\ ip \in Seq(Byte) /\ Len(ip) \in Nat /\ V6Octets \in Nat /\ MillisBytes \in Nat
  BY AddressLength, Lengths
<1>8. z \o m \in Seq(Byte) /\ Len(z \o m) = Len(z) + Len(m)
  BY <1>5, <1>6, ConcatProperties
<1>9. x \o ip \in Seq(Byte)
  BY <1>4, <1>7, ConcatProperties
<1>10. PeerInfoBytes(ip, rtt) = (x \o ip) \o (z \o m)
  <2>1. ((x \o ip) \o z) \o m = (x \o ip) \o (z \o m)
    <3>1. z \in Seq(Byte) /\ m \in Seq(Byte)
      BY <1>5, <1>6
    <3>2. PICK y \in Seq(Byte) : y = x \o ip
      BY <1>9
    <3>3. (y \o z) \o m = y \o (z \o m)
      BY <3>1, ConcatAssociative
    <3> QED
      BY <3>2, <3>3
  <2> QED
    BY <1>1, <1>2, <1>3, <2>1 DEF PeerInfoBytes, AddressType
<1>11. x \in Seq(Byte)
  BY <1>4
<1>12. /\ (x \o ip) \o (z \o m) \in Seq(Byte)
       /\ Len((x \o ip) \o (z \o m)) = Len(x) + Len(ip) + Len(z \o m)
       /\ \A i \in 1 .. Len(x) : ((x \o ip) \o (z \o m))[i] = x[i]
       /\ SubSeq((x \o ip) \o (z \o m), Len(x) + 1, Len(x) + Len(ip)) = ip
  BY <1>7, <1>8, <1>11, Payload
<1>13. Len((x \o ip) \o (z \o m)) = 1 + V6Octets + MillisBytes
  BY <1>4, <1>5, <1>6, <1>7, <1>8, <1>12
<1>14. ((x \o ip) \o (z \o m))[1] = AddressType(ip)
  BY <1>4, <1>12
<1>15. SubSeq((x \o ip) \o (z \o m), 2, 1 + Len(ip)) = ip
  <2>1. Len(x) + 1 = 2 /\ Len(x) + Len(ip) = 1 + Len(ip)
    BY <1>4, <1>7
  <2> QED
    BY <1>12, <2>1
<1>16. \A i \in 1 .. MillisBytes : ((x \o ip) \o (z \o m))[1 + V6Octets + i] = m[i]
  <2> SUFFICES ASSUME NEW i \in 1 .. MillisBytes
               PROVE  ((x \o ip) \o (z \o m))[1 + V6Octets + i] = m[i]
    OBVIOUS
  <2>1. (z \o m)[Len(z) + i] = m[i]
    BY <1>5, <1>6, <1>7, ConcatProperties
  <2>2. PICK y \in Seq(Byte), n \in Nat : y = x \o ip /\ n = Len(z) + i
    <3>1. Len(z) \in Nat /\ i \in Nat
      BY <1>5, <1>7, LenProperties
    <3>2. x \o ip \in Seq(Byte) /\ Len(z) + i \in Nat
      BY <1>9, <3>1
    <3> QED
      BY <3>2
  <2>3. Len(y) = 1 + Len(ip)
    <3>1. x \in Seq(Byte) /\ ip \in Seq(Byte)
      BY <1>7, <1>11
    <3>2. Len(x \o ip) = Len(x) + Len(ip)
      BY <3>1, ConcatProperties
    <3> QED
      BY <1>4, <2>2, <3>2
  <2>4. n \in 1 .. Len(z \o m) /\ 1 + V6Octets + i = Len(y) + n
    BY <1>5, <1>6, <1>7, <1>8, <2>2, <2>3
  <2>5. (y \o (z \o m))[Len(y) + n] = (z \o m)[n]
    BY <1>8, <2>2, <2>4, ConcatProperties
  <2> QED
    BY <2>1, <2>2, <2>4, <2>5
<1> QED
  BY <1>3, <1>10, <1>12, <1>13, <1>14, <1>15, <1>16

(* What PeerInfo::try_from reads from a buffer that holds a whole PeerInfo *)
(* whose address begins at its second byte.                                *)
LEMMA PeerInfoParsed ==
    ASSUME NEW ip \in Address, NEW rtt \in 0 .. Power[KeptMillisBytes] - 1, NEW b,
           ~(Len(b) < 3 + V6Octets + MillisBytes),
           b[3] = AddressType(ip), SubSeq(b, 4, 3 + Len(ip)) = ip,
           \A i \in 1 .. MillisBytes : b[3 + V6Octets + i] = BigEndian(rtt, MillisBytes)[i]
    PROVE  ParsePeerInfo(b) = Parsed(Frame("ProbeResult", "SUCCESS", ip, rtt))
<1>1. rtt = Number(b, (3 + V6Octets + MillisBytes) - KeptMillisBytes + 1,
                   3 + V6Octets + MillisBytes)
  <2>1. PICK k \in Nat \ {0}, end \in Nat :
           k = KeptMillisBytes /\ end = 3 + V6Octets + MillisBytes /\ k <= MillisBytes
    BY LengthsAssumption
  <2>2. \A j \in 1 .. k : b[end - k + j] = (rtt \div Power[k - j]) % 256
    <3> SUFFICES ASSUME NEW j \in 1 .. k
                 PROVE  b[end - k + j] = (rtt \div Power[k - j]) % 256
      OBVIOUS
    <3>1. PICK i \in 1 .. MillisBytes : i = MillisBytes - k + j
      BY <2>1, Lengths
    <3>2. end - k + j = 3 + V6Octets + i /\ MillisBytes - i = k - j
      BY <2>1, <3>1, Lengths
    <3>3. b[3 + V6Octets + i] = BigEndian(rtt, MillisBytes)[i]
      OBVIOUS
    <3>4. BigEndian(rtt, MillisBytes)[i] = (rtt \div Power[MillisBytes - i]) % 256
      BY DEF BigEndian
    <3> QED
      BY <3>2, <3>3, <3>4
  <2>3. rtt \in Nat /\ rtt < Power[k] /\ k <= end
    BY <2>1, PowerPositive, Lengths
  <2>4. Number(b, end - k + 1, end) = rtt
    BY <2>2, <2>3, NumberOfDigits
  <2> QED
    BY <2>1, <2>4
<1>2. Len(ip) \in {V4Octets, V6Octets}
  BY AddressLength
<1>3. CASE Len(ip) = V4Octets
  <2>1. b[3] = 0
    BY <1>3 DEF AddressType
  <2>2. ParsePeerInfo(b) = Parsed(Frame("ProbeResult", "SUCCESS", SubSeq(b, 4, 3 + V4Octets), rtt))
    BY <1>1, <2>1 DEF ParsePeerInfo
  <2>3. SubSeq(b, 4, 3 + V4Octets) = ip
    BY <1>3
  <2> QED
    BY <2>2, <2>3
<1>4. CASE Len(ip) = V6Octets
  <2>1. b[3] = 1
    <3>1. V4Octets # V6Octets
      BY Lengths
    <3> QED
      BY <1>4, <3>1 DEF AddressType
  <2>2. ParsePeerInfo(b) = Parsed(Frame("ProbeResult", "SUCCESS", SubSeq(b, 4, 3 + V6Octets), rtt))
    BY <1>1, <2>1 DEF ParsePeerInfo
  <2>3. SubSeq(b, 4, 3 + V6Octets) = ip
    BY <1>4
  <2> QED
    BY <2>2, <2>3
<1> QED
  BY <1>2, <1>3, <1>4

(* PeerFrames::parse reads a ProbeResult back, address and round trip time,*)
(* for IPv4 and IPv6, every time that fits in a u64, and whatever has      *)
(* arrived behind the frame.                                               *)
THEOREM ProbeResultRoundTrip ==
    ASSUME NEW ip \in Address, NEW rtt \in 0 .. Power[KeptMillisBytes] - 1,
           NEW tail \in Seq(Byte)
    PROVE  LET f == Frame("ProbeResult", "SUCCESS", ip, rtt)
           IN  ParsePeerFrame(PeerFrameBytes(f) \o tail) = Parsed(f)
<1>1. rtt \in Nat
  BY PowerPositive, Lengths
<1>3. PICK h : h = <<PeerOperations["ProbeResult"], Codes("ProbeResult")["SUCCESS"]>>
  OBVIOUS
<1>4. PICK d : d = PeerInfoBytes(ip, rtt)
  OBVIOUS
<1>5. PICK b : b = (h \o d) \o tail
  OBVIOUS
<1>6. PeerFrameBytes(Frame("ProbeResult", "SUCCESS", ip, rtt)) \o tail = b
  BY <1>3, <1>4, <1>5 DEF PeerFrameBytes, HasInfo, Frame
<1>7. "ProbeResult" \in DOMAIN PeerOperations /\ "SUCCESS" \in DOMAIN Codes("ProbeResult")
  BY DEF PeerOperations, Codes, StatusCodes
<1>8. /\ d \in Seq(Byte) /\ Len(d) = 1 + V6Octets + MillisBytes
      /\ d[1] = AddressType(ip) /\ SubSeq(d, 2, 1 + Len(ip)) = ip
      /\ \A i \in 1 .. MillisBytes : d[1 + V6Octets + i] = BigEndian(rtt, MillisBytes)[i]
  BY <1>1, <1>4, PeerInfoLayout
<1>9. d \in Seq(Byte) /\ tail \in Seq(Byte)
  BY <1>8
<1>10. /\ h \in Seq(Byte) /\ Len(h) = 2
       /\ (h \o d) \o tail \in Seq(Byte) /\ (h \o d) \o tail # <<>>
       /\ SubSeq((h \o d) \o tail, 3, 2 + Len(d)) = d
       /\ Len((h \o d) \o tail) = 2 + Len(d) + Len(tail)
       /\ ((h \o d) \o tail)[1] = PeerOperations["ProbeResult"]
       /\ ((h \o d) \o tail)[2] = Codes("ProbeResult")["SUCCESS"]
  BY <1>3, <1>7, <1>9, PeerFrame, SMTT(30)
<1>11. /\ Len(tail) \in Nat /\ MillisBytes \in Nat /\ V6Octets \in Nat
       /\ Len(ip) \in Nat \ {0} /\ Len(ip) <= V6Octets
  BY LenProperties, AddressLength, Lengths
<1>12. ~(Len(b) < 3 + V6Octets + MillisBytes) /\ ~(Len(b) < 2)
  BY <1>5, <1>8, <1>10, <1>11
<1>13. /\ b[3] = AddressType(ip) /\ SubSeq(b, 4, 3 + Len(ip)) = ip
       /\ \A i \in 1 .. MillisBytes : b[3 + V6Octets + i] = BigEndian(rtt, MillisBytes)[i]
  <2>1. b \in Seq(Byte) /\ SubSeq(b, 3, 2 + Len(d)) = d
    BY <1>5, <1>10
  <2>2. Len(d) <= Len(b) - 2
    BY <1>5, <1>8, <1>10, <1>11
  <2>3. PICK n : n = Len(ip)
    OBVIOUS
  <2>4. n \in 1 .. Len(d) - 1
    BY <1>8, <1>11, <2>3
  <2>5. /\ SubSeq(b, 4, 3 + n) = SubSeq(d, 2, 1 + n)
        /\ \A i \in 1 .. Len(d) : b[2 + i] = d[i]
    BY <1>9, <2>1, <2>2, <2>4, Inside
  <2>6. b[3] = d[1]
    <3>1. 1 \in 1 .. Len(d)
      BY <1>8, <1>11
    <3> QED
      BY <2>5, <3>1
  <2>7. ASSUME NEW i \in 1 .. MillisBytes
        PROVE  b[3 + V6Octets + i] = BigEndian(rtt, MillisBytes)[i]
    <3>1. 1 + V6Octets + i \in 1 .. Len(d) /\ 2 + (1 + V6Octets + i) = 3 + V6Octets + i
      BY <1>8, <1>11
    <3> QED
      BY <1>8, <2>5, <3>1
  <2> QED
    BY <1>8, <2>3, <2>5, <2>6, <2>7
<1>14. ParsePeerFrame(b) = ParsePeerInfo(b)
  BY <1>5, <1>7, <1>10, <1>12, PeerDispatch
<1> QED
  BY <1>6, <1>12, <1>13, <1>14, PeerInfoParsed

(* A DOCONNECT arrives as the IPv4 address of the first octets, which is   *)
(* the address that was sent if that was IPv4.                             *)
THEOREM DoConnectRoundTrip ==
    ASSUME NEW ip \in Address, NEW tail \in Seq(Byte)
    PROVE  ParsePeerFrame(PeerFrameBytes(Frame("Commands", "DOCONNECT", ip, 0)) \o tail)
              = Parsed(Frame("Commands", "DOCONNECT", SubSeq(ip, 1, V4Octets), 0))
<1>1. PICK h : h = <<PeerOperations["Commands"], Codes("Commands")["DOCONNECT"]>>
  OBVIOUS
<1>2. PICK b : b = (h \o ip) \o tail
  OBVIOUS
<1>3. PeerFrameBytes(Frame("Commands", "DOCONNECT", ip, 0)) \o tail = b
  BY <1>1, <1>2 DEF PeerFrameBytes, HasInfo, Frame
<1>4. "Commands" \in DOMAIN PeerOperations /\ "DOCONNECT" \in DOMAIN Codes("Commands")
  BY DEF PeerOperations, Codes, PeerCommands
<1>5. ip \in Seq(Byte) /\ Len(ip) \in {V4Octets, V6Octets}
  BY AddressLength
<1>6. /\ h \in Seq(Byte) /\ Len(h) = 2
      /\ (h \o ip) \o tail # <<>>
      /\ Len((h \o ip) \o tail) = 2 + Len(ip) + Len(tail)
      /\ ((h \o ip) \o tail)[1] = PeerOperations["Commands"]
      /\ ((h \o ip) \o tail)[2] = Codes("Commands")["DOCONNECT"]
  BY <1>1, <1>4, <1>5, PeerFrame
<1>7. /\ Len(tail) \in Nat /\ V4Octets \in Nat \ {0} /\ Len(ip) \in Nat /\ V4Octets <= Len(ip)
  BY <1>5, LenProperties, Lengths
<1>8. ~(Len(b) < 2 + V4Octets) /\ ~(Len(b) < 2)
  BY <1>2, <1>6, <1>7
<1>9. SubSeq(b, 3, 2 + V4Octets) = SubSeq(ip, 1, V4Octets)
  <2>1. PICK s : s = h \o ip
    OBVIOUS
  <2>2. PICK to : to = 2 + V4Octets
    OBVIOUS
  <2>3. h \in Seq(Byte) /\ s \in Seq(Byte) /\ Len(s) = Len(h) + Len(ip)
    BY <1>5, <1>6, <2>1, ConcatProperties
  <2>4. 3 \in 1 .. Len(s) /\ to \in 1 .. Len(s)
    BY <1>6, <1>7, <2>2, <2>3
  <2>5. SubSeq(s \o tail, 3, to) = SubSeq(s, 3, to)
    BY <2>3, <2>4, SubSeqOfConcat1
  <2>6. 3 \in Len(h) + 1 .. Len(h) + Len(ip) /\ to \in Len(h) + 1 .. Len(h) + Len(ip)
    BY <1>6, <1>7, <2>2
  <2>7. PICK from : from = 3
    OBVIOUS
  <2>8. SubSeq(h \o ip, from, to) = SubSeq(ip, from - Len(h), to - Len(h))
    BY <1>5, <2>3, <2>6, <2>7, SubSeqOfConcat2
  <2>9. from - Len(h) = 1 /\ to - Len(h) = V4Octets
    BY <1>6, <1>7, <2>2, <2>7
  <2> QED
    BY <1>2, <2>1, <2>2, <2>5, <2>7, <2>8, <2>9
<1>10. ParsePeerFrame(b) = ParseDoConnect(b)
  BY <1>2, <1>4, <1>6, <1>8, PeerDispatch
<1> QED
  BY <1>3, <1>8, <1>9, <1>10 DEF ParseDoConnect

(* How much of a payload its parser needs.                                 *)
PayloadLength(op, code) ==
    IF op = "ProbeResult" /\ code = "SUCCESS" THEN 1 + V6Octets + MillisBytes
    ELSE IF code = "DOCONNECT" THEN V4Octets ELSE 0

PeerPayload(op, code) == IF HasPayload(op, code) THEN Address ELSE {<<>>}

(* A frame for a peer is its operation, its code and at least as much      *)
(* payload as its parser needs.                                            *)
LEMMA PeerFrameLayout ==
    ASSUME NEW op \in DOMAIN PeerOperations, NEW code \in DOMAIN Codes(op),
           NEW d \in PeerPayload(op, code), NEW rtt \in Nat
    PROVE  \E p \in Seq(Byte) :
              /\ PayloadLength(op, code) <= Len(p)
              /\ PeerFrameBytes(Frame(op, code, d, rtt))
                    = <<PeerOperations[op], Codes(op)[code]>> \o p
<1>1. CASE op = "ProbeResult" /\ code = "SUCCESS"
  <2>3. d \in Address
    BY <1>1 DEF PeerPayload, HasPayload
  <2>4. /\ PeerInfoBytes(d, rtt) \in Seq(Byte)
        /\ Len(PeerInfoBytes(d, rtt)) = 1 + V6Octets + MillisBytes
    BY <2>3, PeerInfoLayout
  <2>5. PayloadLength(op, code) <= Len(PeerInfoBytes(d, rtt))
    BY <1>1, <2>4, Lengths DEF PayloadLength
  <2>6. PeerFrameBytes(Frame(op, code, d, rtt))
           = <<PeerOperations[op], Codes(op)[code]>> \o PeerInfoBytes(d, rtt)
    BY <1>1 DEF PeerFrameBytes, HasInfo, Frame
  <2> QED
    BY <2>4, <2>5, <2>6
<1>2. CASE ~(op = "ProbeResult" /\ code = "SUCCESS")
  <2>1. d \in Seq(Byte) /\ PayloadLength(op, code) <= Len(d)
    <3>1. CASE code = "DOCONNECT"
      <4>1. d \in Address
        BY <3>1 DEF PeerPayload, HasPayload
      <4>2. d \in Seq(Byte) /\ Len(d) \in {V4Octets, V6Octets}
        BY <4>1, AddressLength
      <4>3. PayloadLength(op, code) = V4Octets
        BY <1>2, <3>1 DEF PayloadLength
      <4> QED
        BY <4>2, <4>3, Lengths
    <3>2. CASE code # "DOCONNECT"
      <4>1. d = <<>> /\ PayloadLength(op, code) = 0
        BY <1>2, <3>2 DEF PeerPayload, HasPayload, PayloadLength
      <4> QED
        BY <4>1, EmptySeq
    <3> QED
      BY <3>1, <3>2
  <2>2. PeerFrameBytes(Frame(op, code, d, rtt)) = <<PeerOperations[op], Codes(op)[code]>> \o d
    BY <1>2 DEF PeerFrameBytes, HasInfo, Frame
  <2> QED
    BY <2>1, <2>2
<1> QED
  BY <1>1, <1>2

(* No prefix that lacks a byte the parser reads passes for a frame or for  *)
(* an error.  Only a DOCONNECT of an IPv6 address is complete, for its     *)
(* parser, before its last byte.                                           *)
THEOREM PeerPrefix ==
    ASSUME NEW op \in DOMAIN PeerOperations, NEW code \in DOMAIN Codes(op),
           NEW d \in PeerPayload(op, code), NEW rtt \in Nat,
           NEW n \in 0 .. 1 + PayloadLength(op, code)
    PROVE  ParsePeerFrame(SubSeq(PeerFrameBytes(Frame(op, code, d, rtt)), 1, n)) = Incomplete
<1>2. PICK p \in Seq(Byte) :
         /\ PayloadLength(op, code) <= Len(p)
         /\ PeerFrameBytes(Frame(op, code, d, rtt)) = <<PeerOperations[op], Codes(op)[code]>> \o p
  BY PeerFrameLayout
<1>3. PICK h : h = <<PeerOperations[op], Codes(op)[code]>>
  OBVIOUS
<1>4. PICK s : s = h \o p
  OBVIOUS
<1>5. PICK b : b = SubSeq(s, 1, n)
  OBVIOUS
<1>6. SubSeq(PeerFrameBytes(Frame(op, code, d, rtt)), 1, n) = b
  BY <1>2, <1>3, <1>4, <1>5
<1>7. /\ h \in Seq(Byte) /\ Len(h) = 2
      /\ h[1] = PeerOperations[op] /\ h[2] = Codes(op)[code]
  <2>1. PeerOperations[op] \in Byte /\ Codes(op)[code] \in Byte
    BY PeerOperationOf, CodeOf
  <2> QED
    BY <1>3, <2>1, TwoBytes
<1>8. Len(p) \in Nat
  BY LenProperties
<1>9. /\ s \in Seq(Byte) /\ Len(s) = Len(h) + Len(p)
      /\ \A i \in 1 .. Len(h) + Len(p) : s[i] = IF i <= Len(h) THEN h[i] ELSE p[i - Len(h)]
  <2>1. h \in Seq(Byte)
    BY <1>7
  <2> QED
    BY <1>4, <2>1, ConcatProperties
<1>10. PayloadLength(op, code) \in Nat
  BY Lengths DEF PayloadLength
<1>11. b \in Seq(Byte) /\ Len(b) = n /\ \A i \in 1 .. n : b[i] = s[i]
  <2>1. n \in 0 .. Len(s)
    BY <1>2, <1>7, <1>8, <1>9, <1>10
  <2> QED
    BY <1>5, <1>9, <2>1, FirstBytes
<1>12. CASE n = 0
  <2>1. b = <<>>
    BY <1>11, <1>12, EmptySeq
  <2> QED
    BY <1>6, <2>1 DEF ParsePeerFrame
<1>13. CASE n = 1
  <2>1. b # <<>>
    <3>1. \A q \in Seq(Byte) : q = <<>> => Len(q) = 0
      BY EmptySeq
    <3>2. b \in Seq(Byte) /\ Len(b) # 0
      BY <1>11, <1>13
    <3> QED
      BY <3>1, <3>2
  <2>2. b[1] = PeerOperations[op]
    BY <1>7, <1>8, <1>9, <1>11, <1>13
  <2>3. Named(PeerOperations, b[1]) # {}
    BY <2>2, PeerOperationOf
  <2>4. Len(b) < 2
    BY <1>11, <1>13
  <2> QED
    BY <1>6, <2>1, <2>3, <2>4 DEF ParsePeerFrame
<1>14. CASE n # 0 /\ n # 1
  <2>1. n \in Nat /\ 2 <= n
    BY <1>10, <1>14
  <2>2. b # <<>>
    BY <1>11, <2>1, EmptySeq
  <2>3. b[1] = PeerOperations[op] /\ b[2] = Codes(op)[code]
    BY <1>7, <1>8, <1>9, <1>11, <2>1
  <2>4. ~(Len(b) < 2)
    BY <1>11, <2>1
  <2>5. PICK k : k = PayloadLength(op, code)
    OBVIOUS
  <2>6. Len(b) < 2 + k /\ k \in Nat /\ 0 < k
    BY <1>10, <1>11, <2>1, <2>5
  <2>7. CASE op = "ProbeResult" /\ code = "SUCCESS"
    <3>1. Len(b) < 3 + V6Octets + MillisBytes
      <4>1. k = 1 + V6Octets + MillisBytes
        BY <2>5, <2>7 DEF PayloadLength
      <4> QED
        BY <1>11, <2>1, <2>6, <4>1, Lengths
    <3>2. ParsePeerInfo(b) = Incomplete
      BY <3>1 DEF ParsePeerInfo
    <3> QED
      BY <1>6, <2>2, <2>3, <2>4, <2>7, <3>2, PeerDispatch
  <2>8. CASE ~(op = "ProbeResult" /\ code = "SUCCESS")
    <3>1. code = "DOCONNECT" /\ Len(b) < 2 + V4Octets
      BY <2>5, <2>6, <2>8 DEF PayloadLength
    <3>2. ParseDoConnect(b) = Incomplete
      BY <3>1 DEF ParseDoConnect
    <3> QED
      BY <1>6, <2>2, <2>3, <2>4, <2>8, <3>1, <3>2, PeerDispatch
  <2> QED
    BY <2>7, <2>8
<1> QED
  BY <1>12, <1>13, <1>14
=============================================================================
