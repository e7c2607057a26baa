---------------------------- MODULE FileReadsProofs ----------------------------
(***************************************************************************)
(* What the files hold and what a read delivers, for every size of chunks, *)
(* files and buffers. The bytes of a file are those of its chunks in their *)
(* order, and a read cuts its range out of them, whatever extents the      *)
(* chunks lie in. Every chunk of a file holds what some append or          *)
(* truncation put there (DataInv), and what the operations do to the bytes *)
(* is what FileContent says of them, one lemma per action.                 *)
(***************************************************************************)
EXTENDS FileReads, FileLogicProofs, Induction, SequenceTheorems

-----------------------------------------------------------------------------
(* Numbers *)

\* A number is so many times c and a rest below c, in one way.
LEMMA DivModIs ==
  ASSUME NEW c \in Nat \ {0}, NEW p \in Nat, NEW r \in 0 .. c - 1
  PROVE  p * c + r \in Nat /\ (p * c + r) \div c = p /\ (p * c + r) % c = r
<1>1. p * c \in Nat
  OBVIOUS
<1>2. (p * c + r) \div c = p
  OBVIOUS
<1>3. (p * c + r) % c = r
  OBVIOUS
<1>4. QED
  BY <1>1, <1>2, <1>3

LEMMA DivMod ==
  ASSUME NEW x \in Nat, NEW c \in Nat \ {0}
  PROVE  x \div c \in Nat /\ x % c \in 0 .. c - 1 /\ x = (x \div c) * c + (x % c)
<1> DEFINE T == {q \in Nat : x < (q + 1) * c}
<1>1. x \in T
  <2>1. (x + 1) * c >= x + 1
    OBVIOUS
  <2>2. QED
    BY <2>1
<1>2. PICK q \in T : \A n \in T : q <= n
  <2>1. T \in SUBSET Nat /\ T # {}
    BY <1>1
  <2> HIDE DEF T
  <2>2. QED
    BY <2>1, LeastElement
<1>3. q \in Nat /\ (q + 1) * c = q * c + c /\ x < q * c + c /\ q * c \in Nat
  <2>1. q \in Nat /\ x < (q + 1) * c
    OBVIOUS
  <2>2. (q + 1) * c = q * c + c /\ q * c \in Nat
    BY <2>1
  <2>3. QED
    BY <2>1, <2>2
<1>4. q * c <= x
  <2>1. CASE q = 0
    BY <1>3, <2>1
  <2>2. CASE q # 0
    <3>1. q - 1 \in Nat /\ q - 1 \notin T
      BY <1>2, <1>3, <2>2
    <3>2. ~(x < q * c)
      BY <3>1
    <3>3. QED
      BY <1>3, <3>2
  <2>3. QED
    BY <2>1, <2>2
<1>5. PICK r \in 0 .. c - 1 : x = q * c + r
  <2>1. x - q * c \in 0 .. c - 1 /\ x = q * c + (x - q * c)
    BY <1>3, <1>4
  <2>2. QED
    BY <2>1
<1>6. x \div c = q /\ x % c = r
  BY <1>3, <1>5, DivModIs
<1>7. (x \div c) * c + (x % c) = q * c + r
  BY <1>6, Zenon
<1>8. QED
  BY <1>3, <1>5, <1>6, <1>7

\* Chunks are counted from 0 and the bytes in them from 1.
LEMMA BytePlace ==
  ASSUME NEW c \in Nat \ {0}, NEW x \in Nat \ {0}
  PROVE  \E p \in Nat, b \in 1 .. c : x = p * c + b
<1>1. x - 1 \in Nat
  OBVIOUS
<1>2. PICK p \in Nat, r \in 0 .. c - 1 : x - 1 = p * c + r
  BY <1>1, DivMod, Zenon
<1>3. p * c \in Nat /\ r + 1 \in 1 .. c /\ x = p * c + (r + 1)
  BY <1>2
<1>4. QED
  BY <1>3

LEMMA ProductOrder ==
  ASSUME NEW c \in Nat \ {0}, NEW p \in Nat, NEW q \in Nat
  PROVE  /\ p * c \in Nat /\ (p + q) * c = p * c + q * c /\ p <= p * c
         /\ p <= q <=> p * c <= q * c
         /\ \A b \in 1 .. c : p < q <=> p * c + b <= q * c
<1>1. p * c \in Nat /\ q * c \in Nat /\ (p + q) * c = p * c + q * c /\ p <= p * c
  OBVIOUS
<1>2. p <= q <=> p * c <= q * c
  OBVIOUS
<1>3. ASSUME NEW b \in 1 .. c PROVE p < q <=> p * c + b <= q * c
  <2>1. ASSUME p < q PROVE p * c + b <= q * c
    <3>1. PICK d \in Nat : q = p + 1 + d
      <4>1. q - p - 1 \in Nat /\ q = p + 1 + (q - p - 1)
        BY <2>1
      <4>2. QED
        BY <4>1
    <3>2. q * c = p * c + c + d * c /\ d * c \in Nat
      BY <3>1
    <3>3. QED
      BY <1>1, <3>2
  <2>2. ASSUME p >= q PROVE q * c < p * c + b
    <3>1. q * c <= p * c
      BY <2>2
    <3>2. QED
      BY <1>1, <3>1
  <2>3. QED
    BY <1>1, <2>1, <2>2
<1>4. QED
  BY <1>1, <1>2, <1>3

-----------------------------------------------------------------------------
(* Sequences put together *)

\* A sequence that starts with s and goes on with t.
LEMMA ConcatIs ==
  ASSUME NEW S, NEW s \in Seq(S), NEW t \in Seq(S), NEW u \in Seq(S),
         Len(u) = Len(s) + Len(t),
         \A b \in 1 .. Len(s) : u[b] = s[b],
         \A b \in 1 .. Len(t) : u[Len(s) + b] = t[b]
  PROVE  s \o t = u
<1> DEFINE k == Len(s)
           n == Len(t)
<1>1. k \in Nat /\ n \in Nat /\ Len(u) = k + n
  OBVIOUS
<1>2. /\ s \o t \in Seq(S) /\ Len(s \o t) = k + n
      /\ \A b \in 1 .. k + n : (s \o t)[b] = IF b <= k THEN s[b] ELSE t[b - k]
  BY ConcatProperties
<1>3. (\A b \in 1 .. k : u[b] = s[b]) /\ (\A b \in 1 .. n : u[k + b] = t[b])
  OBVIOUS
<1> HIDE DEF k, n
<1>4. ASSUME NEW b \in 1 .. k + n PROVE (s \o t)[b] = u[b]
  <2>1. CASE b <= k
    BY <1>1, <1>2, <1>3, <2>1
  <2>2. CASE ~(b <= k)
    <3>1. b - k \in 1 .. n /\ k + (b - k) = b
      BY <1>1, <2>2
    <3>2. u[k + (b - k)] = t[b - k]
      BY <1>3, <3>1
    <3>3. QED
      BY <1>2, <2>2, <3>1, <3>2
  <2>3. QED
    BY <2>1, <2>2
<1>5. QED
  BY <1>1, <1>2, <1>4, SeqEqual

\* Sequences laid one behind the other, each from where the one before it ends, are
\* their concatenation.
LEMMA FlattenIs ==
  ASSUME NEW S, NEW n \in Nat, NEW parts \in [1 .. n -> Seq(S)],
         NEW at \in [0 .. n -> Nat], at[0] = 0,
         \A i \in 1 .. n : at[i] = at[i - 1] + Len(parts[i]),
         NEW whole \in Seq(S), Len(whole) = at[n],
         \A i \in 1 .. n : \A b \in 1 .. Len(parts[i]) : whole[at[i - 1] + b] = parts[i][b]
  PROVE  FlattenSeq(parts) = whole
<1>0. Len(parts) = n
  OBVIOUS
<1>1. CASE n = 0
  <2>1. parts = <<>> /\ whole = <<>>
    BY <1>1
  <2>2. QED
    BY <1>0, <1>1, <2>1 DEF FlattenSeq
<1>2. CASE n # 0
  <2> DEFINE upto(i) == [b \in 1 .. at[i] |-> whole[b]]
             Def(f) == f = [i \in 1 .. n |-> IF i = 1 THEN parts[i] ELSE f[i - 1] \o parts[i]]
             flatten == CHOOSE f : Def(f)
  <2>1. \A i \in 0 .. n : at[i] <= Len(whole)
    <3> DEFINE T == {k \in 0 .. n : at[n - k] <= at[n]}
    <3>1. 0 \in T
      OBVIOUS
    <3>2. ASSUME NEW k \in 0 .. n - 1, k \in T PROVE k + 1 \in T
      <4>1. PICK i \in 1 .. n : i = n - k /\ i - 1 = n - (k + 1)
        OBVIOUS
      <4>2. at[i - 1] \in Nat /\ Len(parts[i]) \in Nat /\ at[i] = at[i - 1] + Len(parts[i])
            /\ at[i] <= at[n] /\ at[i] \in Nat /\ at[n] \in Nat
        BY <3>2, <4>1
      <4>3. at[i - 1] <= at[n]
        BY <4>2
      <4>4. QED
        BY <4>1, <4>3
    <3> HIDE DEF T
    <3>3. \A k \in 0 .. n : k \in T
      BY <3>1, <3>2, UpTo
    <3>4. ASSUME NEW i \in 0 .. n PROVE at[i] <= at[n]
      <4>1. n - i \in 0 .. n /\ n - (n - i) = i
        OBVIOUS
      <4>2. at[n - (n - i)] <= at[n]
        BY <3>3, <4>1 DEF T
      <4>3. QED
        BY <4>1, <4>2
    <3>5. QED
      BY <3>4
  <2>2. \A i \in 0 .. n : upto(i) \in Seq(S) /\ Len(upto(i)) = at[i]
    <3> SUFFICES ASSUME NEW i \in 0 .. n PROVE upto(i) \in Seq(S) /\ Len(upto(i)) = at[i]
      OBVIOUS
    <3> DEFINE m == at[i]
    <3>1. m \in Nat /\ \A b \in 1 .. m : whole[b] \in S
      BY <2>1
    <3> HIDE DEF m
    <3>2. [b \in 1 .. m |-> whole[b]] \in Seq(S) /\ Len([b \in 1 .. m |-> whole[b]]) = m
      BY <3>1
    <3>3. QED
      BY <3>2 DEF m
  <2>3. ASSUME NEW i \in 1 .. n PROVE upto(i - 1) \o parts[i] = upto(i)
    <3> DEFINE s == upto(i - 1)
               t == parts[i]
               u == upto(i)
               k == at[i - 1]
    <3>1. /\ s \in Seq(S) /\ t \in Seq(S) /\ u \in Seq(S) /\ k \in Nat
          /\ Len(s) = k /\ Len(u) = k + Len(t) /\ Len(t) \in Nat
      BY <2>2
    <3>2. /\ \A b \in 1 .. k : s[b] = whole[b]
          /\ \A b \in 1 .. k + Len(t) : u[b] = whole[b]
          /\ \A b \in 1 .. Len(t) : whole[k + b] = t[b]
      OBVIOUS
    <3> HIDE DEF s, t, u, k
    <3>3. /\ Len(u) = Len(s) + Len(t)
          /\ \A b \in 1 .. Len(s) : u[b] = s[b]
          /\ \A b \in 1 .. Len(t) : u[Len(s) + b] = t[b]
      <4>1. ASSUME NEW b \in 1 .. k PROVE u[b] = s[b]
        <5>1. b \in 1 .. k + Len(t)
          BY <3>1
        <5>2. QED
          BY <3>2, <5>1
      <4>2. ASSUME NEW b \in 1 .. Len(t) PROVE u[k + b] = t[b]
        <5>1. k + b \in 1 .. k + Len(t)
          BY <3>1
        <5>2. QED
          BY <3>2, <5>1
      <4>3. QED
        BY <3>1, <4>1, <4>2
    <3>4. s \o t = u
      BY <3>1, <3>3, ConcatIs
    <3>5. QED
      BY <3>4 DEF s, t, u
  <2>4. upto(0) \o parts[1] = parts[1]
    <3>1. upto(0) = <<>> /\ parts[1] \in Seq(S)
      BY <1>2
    <3>2. QED
      BY <3>1
  <2>5. upto(1) = parts[1] /\ \A i \in 1 .. n : i # 1 => upto(i) = upto(i - 1) \o parts[i]
    <3> HIDE DEF upto
    <3>1. 1 \in 1 .. n /\ 1 - 1 = 0
      BY <1>2
    <3>2. upto(1 - 1) \o parts[1] = upto(1)
      BY <2>3, <3>1
    <3>3. QED
      BY <2>3, <2>4, <3>1, <3>2
  <2>6. Def([i \in 1 .. n |-> upto(i)])
    <3> DEFINE g == [i \in 1 .. n |-> upto(i)]
    <3> HIDE DEF upto
    <3>1. \A i \in 1 .. n : g[i] = upto(i)
      OBVIOUS
    <3>2. \A i \in 1 .. n : i # 1 => i - 1 \in 1 .. n
      OBVIOUS
    <3>3. \A i \in 1 .. n : upto(i) = IF i = 1 THEN parts[i] ELSE g[i - 1] \o parts[i]
      BY <2>5, <3>1, <3>2
    <3>4. QED
      BY <3>3
  <2>7. Def(flatten)
    <3> HIDE DEF Def, upto
    <3>1. QED
      BY <2>6
  <2> HIDE DEF flatten, upto
  <2>8. flatten[n] = upto(n)
    <3> DEFINE T == {i \in 0 .. n : i = 0 \/ flatten[i] = upto(i)}
    <3>1. 0 \in T
      OBVIOUS
    <3>2. ASSUME NEW i \in 0 .. n - 1, i \in T PROVE i + 1 \in T
      <4>1. PICK j \in 1 .. n : j = i + 1 /\ j - 1 = i
        <5>1. i + 1 \in 1 .. n /\ i + 1 - 1 = i
          OBVIOUS
        <5>2. QED
          BY <5>1
      <4>2. flatten[j] = IF j = 1 THEN parts[j] ELSE flatten[j - 1] \o parts[j]
        BY <2>7
      <4>3. j # 1 => flatten[j - 1] = upto(j - 1)
        BY <3>2, <4>1
      <4>4. flatten[j] = upto(j)
        BY <2>5, <4>2, <4>3
      <4>5. QED
        BY <4>1, <4>4
    <3> HIDE DEF T
    <3>3. n \in T
      <4>1. n \in 0 .. n
        OBVIOUS
      <4>2. \A i \in 0 .. n : i \in T
        BY ONLY n \in Nat, <3>1, <3>2, UpTo
      <4>3. QED
        BY <4>1, <4>2
    <3>4. QED
      BY <1>2, <3>3 DEF T
  <2>9. upto(n) = whole
    BY <2>2 DEF upto
  <2>10. FlattenSeq(parts) = flatten[n]
    BY <1>0, <1>2 DEF FlattenSeq, flatten
  <2>11. QED
    BY <2>8, <2>9, <2>10
<1>3. QED
  BY <1>1, <1>2

\* The first k parts lie one behind the other in whole, part i from at[i - 1] on.
Laid(parts, k, at, whole) ==
  /\ at \in [0 .. k -> Nat] /\ at[0] = 0
  /\ \A i \in 1 .. k : at[i] = at[i - 1] + Len(parts[i])
  /\ Len(whole) = at[k]
  /\ \A i \in 1 .. k : \A b \in 1 .. Len(parts[i]) : whole[at[i - 1] + b] = parts[i][b]

LEMMA LaidBehind ==
  ASSUME NEW S, NEW n \in Nat, NEW parts \in [1 .. n -> Seq(S)], NEW k \in 0 .. n - 1,
         NEW at, NEW whole \in Seq(S), Laid(parts, k, at, whole)
  PROVE  \E next : Laid(parts, k + 1, next, whole \o parts[k + 1])
<1> DEFINE t == parts[k + 1]
           next == [i \in 0 .. k + 1 |-> IF i = k + 1 THEN at[k] + Len(t) ELSE at[i]]
<1>1. t \in Seq(S) /\ Len(t) \in Nat /\ k + 1 \in 1 .. n /\ k \in Nat
  OBVIOUS
<1>2. /\ at \in [0 .. k -> Nat] /\ at[0] = 0 /\ Len(whole) = at[k]
      /\ \A i \in 1 .. k : at[i] = at[i - 1] + Len(parts[i])
      /\ \A i \in 1 .. k : \A b \in 1 .. Len(parts[i]) : whole[at[i - 1] + b] = parts[i][b]
  BY DEF Laid
<1>3. /\ whole \o t \in Seq(S) /\ Len(whole \o t) = Len(whole) + Len(t)
      /\ \A b \in 1 .. Len(whole) + Len(t) :
           (whole \o t)[b] = IF b <= Len(whole) THEN whole[b] ELSE t[b - Len(whole)]
  BY <1>1, ConcatProperties
<1>4. \A i \in 0 .. k : at[i] <= at[k]
  <2> DEFINE T == {j \in 0 .. k : at[k - j] <= at[k]}
  <2>1. 0 \in T
    BY <1>1, <1>2
  <2>2. ASSUME NEW j \in 0 .. k - 1, j \in T PROVE j + 1 \in T
    <3>1. PICK i \in 1 .. k : i = k - j /\ i - 1 = k - (j + 1)
      <4>1. k - j \in 1 .. k /\ k - j - 1 = k - (j + 1)
        BY <1>1
      <4>2. QED
        BY <4>1
    <3>2. /\ at[i - 1] \in Nat /\ Len(parts[i]) \in Nat /\ at[i] = at[i - 1] + Len(parts[i])
          /\ at[i] <= at[k] /\ at[i] \in Nat /\ at[k] \in Nat
      BY <1>1, <1>2, <2>2, <3>1
    <3>3. at[i - 1] <= at[k]
      BY <3>2
    <3>4. j + 1 \in 0 .. k
      BY <1>1
    <3>5. QED
      BY <3>1, <3>3, <3>4
  <2> HIDE DEF T
  <2>3. \A j \in 0 .. k : j \in T
    BY ONLY k \in Nat, <2>1, <2>2, UpTo
  <2>4. SUFFICES ASSUME NEW i \in 0 .. k PROVE at[i] <= at[k]
    OBVIOUS
  <2>5. k - i \in 0 .. k /\ k - (k - i) = i
    BY <1>1
  <2>6. at[k - (k - i)] <= at[k]
    BY <2>3, <2>5 DEF T
  <2>7. QED
    BY <2>5, <2>6
<1>5. /\ next \in [0 .. k + 1 -> Nat] /\ next[0] = 0 /\ next[k + 1] = at[k] + Len(t)
      /\ \A i \in 0 .. k : next[i] = at[i]
  <2>1. at[k] + Len(t) \in Nat
    BY <1>1, <1>2
  <2>2. QED
    BY <1>1, <1>2, <2>1
<1>6. \A i \in 1 .. k + 1 : next[i] = next[i - 1] + Len(parts[i])
  <2>1. SUFFICES ASSUME NEW i \in 1 .. k + 1 PROVE next[i] = next[i - 1] + Len(parts[i])
    OBVIOUS
  <2>2. i - 1 \in 0 .. k /\ (i # k + 1 => i \in 1 .. k /\ i \in 0 .. k)
    BY <1>1
  <2>3. QED
    BY <1>2, <1>5, <2>2
<1>7. \A i \in 1 .. k + 1 : \A b \in 1 .. Len(parts[i]) :
        (whole \o t)[next[i - 1] + b] = parts[i][b]
  <2>1. SUFFICES ASSUME NEW i \in 1 .. k + 1, NEW b \in 1 .. Len(parts[i])
                 PROVE  (whole \o t)[next[i - 1] + b] = parts[i][b]
    OBVIOUS
  <2> DEFINE w == whole \o t
             m == Len(whole)
             l == Len(t)
  <2>2. /\ m \in Nat /\ l \in Nat /\ m = at[k]
        /\ \A x \in 1 .. m + l : w[x] = IF x <= m THEN whole[x] ELSE t[x - m]
    BY <1>1, <1>2, <1>3
  <2> HIDE DEF w, m, l, next
  <2>3. ASSUME i = k + 1 PROVE w[next[i - 1] + b] = parts[i][b]
    <3>1. next[i - 1] = m /\ b \in 1 .. l /\ parts[i] = t
      <4>1. i - 1 = k /\ k \in 0 .. k /\ parts[i] = t
        BY <1>1, <2>3
      <4>2. next[k] = at[k]
        BY <1>5, <4>1
      <4>3. QED
        BY <2>2, <4>1, <4>2 DEF l
    <3> DEFINE x == m + b
    <3>2. b \in 1 .. l /\ m \in Nat /\ l \in Nat
      BY <2>2, <3>1
    <3>3. x \in 1 .. m + l /\ ~(x <= m) /\ x - m = b /\ next[i - 1] + b = x
      <4>1. m + b \in 1 .. m + l /\ ~(m + b <= m) /\ (m + b) - m = b
        BY ONLY <3>2
      <4>2. next[i - 1] = m
        BY <3>1
      <4>3. QED
        BY <4>1, <4>2
    <3> HIDE DEF x
    <3>4. w[x] = t[b]
      BY <2>2, <3>3
    <3> HIDE DEF t
    <3>5. QED
      BY <2>2, <3>1, <3>3, <3>4
  <2>4. ASSUME i # k + 1 PROVE w[next[i - 1] + b] = parts[i][b]
    <3>1. i \in 1 .. k /\ i - 1 \in 0 .. k /\ i \in 0 .. k /\ next[i - 1] = at[i - 1]
      BY <1>1, <1>5, <2>4
    <3>2. /\ at[i - 1] + Len(parts[i]) <= m /\ at[i - 1] \in Nat
          /\ whole[at[i - 1] + b] = parts[i][b]
      <4>1. at[i] = at[i - 1] + Len(parts[i]) /\ at[i - 1] \in Nat
        BY <1>2, <3>1
      <4>2. at[i] <= m
        BY <1>4, <2>2, <3>1
      <4>3. whole[at[i - 1] + b] = parts[i][b]
        BY <1>2, <3>1
      <4>4. QED
        BY <4>1, <4>2, <4>3
    <3>3. at[i - 1] + b \in 1 .. m + l /\ at[i - 1] + b <= m
      <4> DEFINE q == Len(parts[i])
                 a == at[i - 1]
      <4>1. q \in Nat /\ b \in 1 .. q /\ a \in Nat /\ a + q <= m
        BY <1>1, <3>1, <3>2
      <4> HIDE DEF q, a
      <4>2. a + b \in 1 .. m + l /\ a + b <= m
        BY <2>2, <4>1
      <4>3. QED
        BY <4>2 DEF a
    <3>4. PICK x \in 1 .. m + l : x = at[i - 1] + b /\ x <= m
      BY <3>3
    <3>5. w[x] = whole[x]
      BY <2>2, <3>4
    <3>6. QED
      BY <3>1, <3>2, <3>4, <3>5
  <2>5. QED
    BY <2>3, <2>4 DEF w
<1>8. Len(whole \o t) = next[k + 1]
  BY <1>2, <1>3, <1>5
<1> HIDE DEF next
<1>9. Laid(parts, k + 1, next, whole \o t)
  BY <1>5, <1>6, <1>7, <1>8 DEF Laid
<1>10. QED
  BY <1>9

\* One sequence more is put behind what the others make.
LEMMA FlattenGrows ==
  ASSUME NEW S, NEW n \in Nat, NEW parts \in [1 .. n + 1 -> Seq(S)]
  PROVE  /\ FlattenSeq([i \in 1 .. n |-> parts[i]]) \in Seq(S)
         /\ FlattenSeq(parts) = FlattenSeq([i \in 1 .. n |-> parts[i]]) \o parts[n + 1]
<1> DEFINE T == {k \in 0 .. n : \E at : \E whole \in Seq(S) : Laid(parts, k, at, whole)}
<1>1. 0 \in T
  <2> DEFINE at == [i \in 0 .. 0 |-> 0]
             whole == <<>>
  <2>1. whole \in Seq(S) /\ Laid(parts, 0, at, whole) /\ 0 \in 0 .. n
    BY DEF Laid
  <2> HIDE DEF at, whole
  <2>2. QED
    BY <2>1
<1>2. ASSUME NEW k \in 0 .. n - 1, k \in T PROVE k + 1 \in T
  <2>1. PICK at, whole : whole \in Seq(S) /\ Laid(parts, k, at, whole)
    BY <1>2
  <2>2. n + 1 \in Nat /\ k \in 0 .. (n + 1) - 1 /\ k + 1 \in 0 .. n /\ k + 1 \in 1 .. n + 1
    OBVIOUS
  <2>3. PICK next : Laid(parts, k + 1, next, whole \o parts[k + 1])
    BY <2>1, <2>2, LaidBehind
  <2>4. whole \o parts[k + 1] \in Seq(S)
    BY <2>1, <2>2, ConcatProperties
  <2>5. QED
    BY <2>2, <2>3, <2>4
<1>3. PICK at, whole : whole \in Seq(S) /\ Laid(parts, n, at, whole)
  <2>1. n \in 0 .. n
    OBVIOUS
  <2> HIDE DEF T
  <2>2. \A k \in 0 .. n : k \in T
    BY ONLY n \in Nat, <1>1, <1>2, UpTo
  <2>3. QED
    BY <2>1, <2>2 DEF T
<1>4. FlattenSeq([i \in 1 .. n |-> parts[i]]) = whole
  <2> DEFINE front == [i \in 1 .. n |-> parts[i]]
  <2>1. front \in [1 .. n -> Seq(S)] /\ \A i \in 1 .. n : front[i] = parts[i]
    OBVIOUS
  <2> HIDE DEF front
  <2>2. /\ at \in [0 .. n -> Nat] /\ at[0] = 0 /\ Len(whole) = at[n]
        /\ \A i \in 1 .. n : at[i] = at[i - 1] + Len(front[i])
        /\ \A i \in 1 .. n : \A b \in 1 .. Len(front[i]) : whole[at[i - 1] + b] = front[i][b]
    BY <1>3, <2>1 DEF Laid
  <2>3. FlattenSeq(front) = whole
    BY <1>3, <2>1, <2>2, FlattenIs
  <2>4. QED
    BY <2>3 DEF front
<1>5. FlattenSeq(parts) = whole \o parts[n + 1]
  <2>1. n + 1 \in Nat /\ n \in 0 .. (n + 1) - 1 /\ n + 1 \in 1 .. n + 1
    OBVIOUS
  <2>2. PICK next : Laid(parts, n + 1, next, whole \o parts[n + 1])
    BY <1>3, <2>1, LaidBehind
  <2>3. whole \o parts[n + 1] \in Seq(S)
    BY <1>3, <2>1, ConcatProperties
  <2> DEFINE w == whole \o parts[n + 1]
             m == n + 1
  <2>4. /\ next \in [0 .. m -> Nat] /\ next[0] = 0 /\ Len(w) = next[m]
        /\ \A i \in 1 .. m : next[i] = next[i - 1] + Len(parts[i])
        /\ \A i \in 1 .. m : \A b \in 1 .. Len(parts[i]) : w[next[i - 1] + b] = parts[i][b]
    BY <2>2 DEF Laid
  <2>5. m \in Nat /\ w \in Seq(S) /\ parts \in [1 .. m -> Seq(S)]
    BY <2>3
  <2> HIDE DEF w, m
  <2>6. FlattenSeq(parts) = w
    BY ONLY <2>4, <2>5, FlattenIs
  <2>7. QED
    BY <2>6 DEF w
<1>6. QED
  BY <1>3, <1>4, <1>5

-----------------------------------------------------------------------------
(* Sequences of whole chunks *)

\* A place among the bytes of n chunks is one in one of these chunks.
LEMMA PlaceInChunks ==
  ASSUME NEW n \in Nat
  PROVE  /\ n * CHUNK_SIZE \in Nat
         /\ \A p \in 0 .. n - 1, b \in Offset : p * CHUNK_SIZE + b \in 1 .. n * CHUNK_SIZE
         /\ \A x \in 1 .. n * CHUNK_SIZE : \E p \in 0 .. n - 1, b \in Offset :
              x = p * CHUNK_SIZE + b
<1> DEFINE c == CHUNK_SIZE
<1>1. c \in Nat \ {0} /\ Offset = 1 .. c
  BY StorageAssumption DEF Offset
<1> HIDE DEF c
<1>2. n * c \in Nat
  BY <1>1, ProductOrder
<1>3. ASSUME NEW p \in 0 .. n - 1, NEW b \in 1 .. c PROVE p * c + b \in 1 .. n * c
  <2>1. p \in Nat /\ p < n
    OBVIOUS
  <2>2. p * c \in Nat /\ p * c + b <= n * c
    BY <1>1, <2>1, ProductOrder
  <2>3. QED
    BY <1>1, <1>2, <2>2
<1>4. ASSUME NEW x \in 1 .. n * c PROVE \E p \in 0 .. n - 1, b \in 1 .. c : x = p * c + b
  <2>1. x \in Nat \ {0}
    BY <1>2
  <2>2. PICK p \in Nat, b \in 1 .. c : x = p * c + b
    BY <1>1, <2>1, BytePlace
  <2>3. p < n
    <3>1. p * c + b <= n * c
      BY <1>2, <2>2
    <3>2. QED
      BY <1>1, <3>1, ProductOrder
  <2>4. p \in 0 .. n - 1
    BY <2>3
  <2>5. QED
    BY <2>2, <2>4
<1>5. QED
  BY <1>1, <1>2, <1>3, <1>4 DEF c

\* Sequences of as many chunks are equal when their chunks are.
LEMMA SameChunks ==
  ASSUME NEW S, NEW n \in Nat, NEW s \in Seq(S), NEW t \in Seq(S),
         Len(s) = n * CHUNK_SIZE, Len(t) = n * CHUNK_SIZE,
         \A p \in 0 .. n - 1, b \in Offset : s[p * CHUNK_SIZE + b] = t[p * CHUNK_SIZE + b]
  PROVE  s = t
<1>1. ASSUME NEW x \in 1 .. Len(s) PROVE s[x] = t[x]
  <2>1. PICK p \in 0 .. n - 1, b \in Offset : x = p * CHUNK_SIZE + b
    BY PlaceInChunks
  <2>2. QED
    BY <2>1
<1>2. QED
  BY <1>1, SeqEqual

\* Chunks laid one behind the other.
IsChunks(s, S, chunks, n) ==
  /\ s \in Seq(S) /\ Len(s) = n * CHUNK_SIZE
  /\ \A p \in 0 .. n - 1, b \in Offset : s[p * CHUNK_SIZE + b] = chunks[p + 1][b]

LEMMA FlattenChunks ==
  ASSUME NEW S, NEW n \in Nat, NEW chunks \in [1 .. n -> [Offset -> S]]
  PROVE  IsChunks(FlattenSeq(chunks), S, chunks, n)
<1> DEFINE c == CHUNK_SIZE
           whole == [x \in 1 .. n * c |-> chunks[((x - 1) \div c) + 1][((x - 1) % c) + 1]]
           at == [i \in 0 .. n |-> i * c]
<1>1. c \in Nat \ {0} /\ Offset = 1 .. c
  BY StorageAssumption DEF Offset
<1> HIDE DEF c
<1>2. /\ n * c \in Nat
      /\ \A p \in 0 .. n - 1, b \in 1 .. c : p * c + b \in 1 .. n * c
      /\ \A x \in 1 .. n * c : \E p \in 0 .. n - 1, b \in 1 .. c : x = p * c + b
  <2>1. /\ n * CHUNK_SIZE \in Nat
        /\ \A p \in 0 .. n - 1, b \in Offset : p * CHUNK_SIZE + b \in 1 .. n * CHUNK_SIZE
        /\ \A x \in 1 .. n * CHUNK_SIZE : \E p \in 0 .. n - 1, b \in Offset :
             x = p * CHUNK_SIZE + b
    BY PlaceInChunks
  <2>2. QED
    BY <1>1, <2>1, Zenon DEF c
<1>3. ASSUME NEW p \in 0 .. n - 1, NEW b \in 1 .. c
      PROVE  p * c + b \in 1 .. n * c /\ whole[p * c + b] = chunks[p + 1][b]
  <2>1. PICK x \in 1 .. n * c : x = p * c + b
    BY <1>2
  <2>2. p \in Nat /\ b - 1 \in 0 .. c - 1 /\ x - 1 = p * c + (b - 1)
    <3>1. p \in Nat /\ p * c \in Nat
      BY <1>1, ProductOrder
    <3>2. QED
      BY <1>1, <2>1, <3>1
  <2>3. (x - 1) \div c = p /\ (x - 1) % c = b - 1
    <3>1. (p * c + (b - 1)) \div c = p /\ (p * c + (b - 1)) % c = b - 1
      BY <1>1, <2>2, DivModIs
    <3>2. QED
      BY <2>2, <3>1, Zenon
  <2>4. whole[x] = chunks[((x - 1) \div c) + 1][((x - 1) % c) + 1]
    OBVIOUS
  <2>5. whole[x] = chunks[p + 1][b - 1 + 1]
    BY <2>3, <2>4
  <2>6. b - 1 + 1 = b
    BY <1>1
  <2>7. QED
    BY <2>1, <2>5, <2>6
<1>4. whole \in Seq(S) /\ Len(whole) = n * c
  <2> DEFINE m == n * c
             cell(x) == chunks[((x - 1) \div c) + 1][((x - 1) % c) + 1]
  <2>1. ASSUME NEW x \in 1 .. m PROVE cell(x) \in S
    <3>1. PICK p \in 0 .. n - 1, b \in 1 .. c : x = p * c + b
      BY <1>2
    <3>2. whole[x] = chunks[p + 1][b] /\ whole[x] = cell(x)
      BY <1>3, <3>1
    <3>3. p + 1 \in 1 .. n /\ b \in Offset
      BY <1>1
    <3>4. chunks[p + 1][b] \in S
      BY <3>3
    <3>5. QED
      BY <3>2, <3>4
  <2>2. m \in Nat
    BY <1>2
  <2> HIDE DEF m, cell
  <2>3. [x \in 1 .. m |-> cell(x)] \in Seq(S) /\ Len([x \in 1 .. m |-> cell(x)]) = m
    BY <2>1, <2>2
  <2>4. QED
    BY <2>3 DEF m, cell
<1>5. at \in [0 .. n -> Nat] /\ at[0] = 0 /\ at[n] = n * c
  <2>1. \A i \in 0 .. n : i \in Nat /\ i * c \in Nat
    BY <1>1, ProductOrder
  <2>2. 0 * c = 0
    BY <1>1
  <2>3. QED
    BY <2>1, <2>2
<1>6. ASSUME NEW i \in 1 .. n
      PROVE  /\ at[i - 1] = (i - 1) * c
             /\ at[i] = at[i - 1] + c
  <2>1. i - 1 \in 0 .. n /\ i \in 0 .. n /\ i - 1 \in Nat
    OBVIOUS
  <2>2. i * c = (i - 1) * c + c /\ (i - 1) * c \in Nat
    <3>1. (i - 1 + 1) * c = (i - 1) * c + 1 * c /\ (i - 1) * c \in Nat
      BY <1>1, <2>1, ProductOrder
    <3>2. QED
      BY <1>1, <3>1
  <2>3. QED
    BY <2>1, <2>2
<1>7. \A i \in 1 .. n : chunks[i] \in Seq(S) /\ Len(chunks[i]) = c
  BY <1>1
<1> HIDE DEF whole, at
<1>8. chunks \in [1 .. n -> Seq(S)]
  BY <1>7
<1>9. ASSUME NEW i \in 1 .. n, NEW b \in 1 .. Len(chunks[i])
      PROVE  whole[at[i - 1] + b] = chunks[i][b]
  <2>1. i - 1 \in 0 .. n - 1 /\ b \in 1 .. c /\ i - 1 + 1 = i
    BY <1>7
  <2>2. whole[(i - 1) * c + b] = chunks[i - 1 + 1][b]
    BY <1>3, <2>1
  <2>3. QED
    BY <1>6, <2>1, <2>2
<1>10. \A i \in 1 .. n : at[i] = at[i - 1] + Len(chunks[i])
  BY <1>6, <1>7
<1>11. Len(whole) = at[n]
  BY <1>4, <1>5
<1>12. FlattenSeq(chunks) = whole
  BY <1>4, <1>5, <1>8, <1>9, <1>10, <1>11, FlattenIs
<1>13. QED
  BY <1>1, <1>3, <1>4, <1>12 DEF c, IsChunks

-----------------------------------------------------------------------------
(* The bytes in an array of extents *)

Cell == Byte \cup {Uninitialised}

\* What the slots of an array hold, in words of the array and the bytes alone, so that it
\* can be asked of one state and of the next.
SlotBytes(extents, bytes, i) ==
  IF ~extents[i].is_empty
  THEN FlattenSeq([n \in 1 .. extents[i].chunk_amount |-> bytes[extents[i].start + n - 1]])
  ELSE <<>>

SlotsBytes(extents, bytes, i) == FlattenSeq([j \in 1 .. i |-> SlotBytes(extents, bytes, j - 1)])

StartOf(extents, i) ==
  LET start[j \in 0 .. i] == IF j = 0 THEN 0 ELSE start[j - 1] + extents[j - 1].chunk_amount
  IN start[i]

Fits(extents, bytes) ==
  /\ extents \in [Index -> ChunkExtent]
  /\ bytes \in [Chunk -> [Offset -> Cell]]
  /\ \A i \in Index : ~extents[i].is_empty =>
       Span(extents[i].start, extents[i].chunk_amount) \subseteq Chunk

\* An occupied slot holds its chunks, in their order.
IsSlot(slot, extents, bytes, i) ==
  /\ slot \in Seq(Cell) /\ Len(slot) = extents[i].chunk_amount * CHUNK_SIZE
  /\ \A p \in 0 .. extents[i].chunk_amount - 1, b \in Offset :
       slot[p * CHUNK_SIZE + b] = bytes[extents[i].start + p][b]

LEMMA SlotBytesAre ==
  ASSUME NEW extents, NEW bytes, Fits(extents, bytes), NEW i \in Index, ~extents[i].is_empty
  PROVE  IsSlot(SlotBytes(extents, bytes, i), extents, bytes, i)
<1> DEFINE amount == extents[i].chunk_amount
           start == extents[i].start
           chunks == [n \in 1 .. amount |-> bytes[start + n - 1]]
<1>1. amount \in Nat /\ start \in Nat
  BY DEF Fits, ChunkExtent
<1>2. /\ \A n \in 1 .. amount : start + n - 1 \in Chunk
      /\ bytes \in [Chunk -> [Offset -> Cell]]
  <2>1. Span(start, amount) \subseteq Chunk /\ bytes \in [Chunk -> [Offset -> Cell]]
    BY DEF Fits
  <2> HIDE DEF amount, start
  <2>2. \A n \in 1 .. amount : start + n - 1 \in Span(start, amount)
    BY <1>1 DEF Span
  <2>3. QED
    BY <2>1, <2>2
<1>3. SlotBytes(extents, bytes, i) = FlattenSeq(chunks)
  BY DEF SlotBytes
<1> HIDE DEF amount, start
<1>4. chunks \in [1 .. amount -> [Offset -> Cell]]
  BY <1>2
<1>5. ASSUME NEW p \in 0 .. amount - 1 PROVE chunks[p + 1] = bytes[start + p]
  <2>1. p + 1 \in 1 .. amount /\ start + (p + 1) - 1 = start + p
    BY <1>1
  <2>2. QED
    BY <2>1
<1> HIDE DEF chunks
<1>6. /\ FlattenSeq(chunks) \in Seq(Cell) /\ Len(FlattenSeq(chunks)) = amount * CHUNK_SIZE
      /\ \A p \in 0 .. amount - 1, b \in Offset :
           FlattenSeq(chunks)[p * CHUNK_SIZE + b] = chunks[p + 1][b]
  <2>1. IsChunks(FlattenSeq(chunks), Cell, chunks, amount)
    BY <1>1, <1>4, FlattenChunks
  <2>2. QED
    BY <2>1 DEF IsChunks
<1>7. QED
  BY <1>3, <1>5, <1>6 DEF amount, start, IsSlot

\* A sum that runs along is there.
LEMMA RunningSum ==
  ASSUME NEW n \in Nat, NEW step \in [1 .. n -> Nat]
  PROVE  \E f \in [0 .. n -> Nat] : f[0] = 0 /\ \A i \in 1 .. n : f[i] = f[i - 1] + step[i]
<1> DEFINE Sums(k, f) == f[0] = 0 /\ \A i \in 1 .. k : f[i] = f[i - 1] + step[i]
           T == {k \in 0 .. n : \E f \in [0 .. k -> Nat] : Sums(k, f)}
<1>1. 0 \in T
  <2> DEFINE f == [i \in 0 .. 0 |-> 0]
  <2>1. f \in [0 .. 0 -> Nat] /\ Sums(0, f) /\ 0 \in 0 .. n
    OBVIOUS
  <2> HIDE DEF f, Sums
  <2>2. QED
    BY <2>1
<1>2. ASSUME NEW k \in 0 .. n - 1, k \in T PROVE k + 1 \in T
  <2>1. PICK f \in [0 .. k -> Nat] : Sums(k, f)
    BY <1>2
  <2> DEFINE g == [i \in 0 .. k + 1 |-> IF i = k + 1 THEN f[k] + step[k + 1] ELSE f[i]]
  <2>2. f[k] \in Nat /\ step[k + 1] \in Nat
    OBVIOUS
  <2>3. g \in [0 .. k + 1 -> Nat]
    BY <2>2
  <2>4. ASSUME NEW i \in 1 .. k + 1 PROVE g[i] = g[i - 1] + step[i]
    <3>1. CASE i = k + 1
      BY <3>1
    <3>2. CASE i \in 1 .. k
      <4>1. g[i] = f[i] /\ g[i - 1] = f[i - 1]
        BY <3>2
      <4>2. f[i] = f[i - 1] + step[i]
        BY <2>1, <3>2
      <4>3. QED
        BY <4>1, <4>2
    <3>3. QED
      BY <3>1, <3>2
  <2>5. Sums(k + 1, g)
    <3>1. g[0] = 0
      BY <2>1
    <3> HIDE DEF g
    <3>2. QED
      BY <2>4, <3>1
  <2>6. k + 1 \in 0 .. n
    OBVIOUS
  <2> HIDE DEF g, Sums
  <2>7. QED
    BY <2>3, <2>5, <2>6
<1>3. n \in T
  <2> HIDE DEF T
  <2>1. \A k \in 0 .. n : k \in T
    BY <1>1, <1>2, UpTo
  <2>2. QED
    BY <2>1
<1>4. QED
  BY <1>3

\* The slots begin where the ones before them end.
LEMMA StartIs ==
  ASSUME NEW extents \in [Index -> ChunkExtent]
  PROVE  /\ StartOf(extents, 0) = 0
         /\ \A i \in 0 .. MAX_FILE_CHUNK_EXTENTS_AMOUNT : StartOf(extents, i) \in Nat
         /\ \A i \in Index :
              /\ i + 1 \in 0 .. MAX_FILE_CHUNK_EXTENTS_AMOUNT
              /\ StartOf(extents, i + 1) = StartOf(extents, i) + extents[i].chunk_amount
<1> DEFINE n == MAX_FILE_CHUNK_EXTENTS_AMOUNT
           amount(i) == extents[i].chunk_amount
<1>1. n \in Nat \ {0} /\ Index = 0 .. n - 1 /\ \A i \in 1 .. n : i - 1 \in Index
  BY FileStorageAssumption DEF Index, LastIndex
<1>2. \A i \in Index : amount(i) \in Nat
  BY DEF ChunkExtent
<1> HIDE DEF n, amount
<1>4. PICK f \in [0 .. n -> Nat] : f[0] = 0 /\ \A i \in 1 .. n : f[i] = f[i - 1] + amount(i - 1)
  <2> DEFINE step == [i \in 1 .. n |-> amount(i - 1)]
  <2>1. n \in Nat /\ step \in [1 .. n -> Nat] /\ \A i \in 1 .. n : step[i] = amount(i - 1)
    BY <1>1, <1>2
  <2> HIDE DEF step
  <2>2. PICK f \in [0 .. n -> Nat] : f[0] = 0 /\ \A i \in 1 .. n : f[i] = f[i - 1] + step[i]
    BY <2>1, RunningSum
  <2>3. QED
    BY <2>1, <2>2
<1>5. ASSUME NEW i \in 0 .. n PROVE StartOf(extents, i) = f[i]
  <2> DEFINE Def(g) == g = [j \in 0 .. i |-> IF j = 0 THEN 0 ELSE g[j - 1] + amount(j - 1)]
             start == CHOOSE g : Def(g)
  <2>0. /\ i \in Nat /\ i <= n
        /\ \A j \in 0 .. i : j \in 0 .. n /\ (j # 0 => j \in 1 .. n /\ j - 1 \in 0 .. i)
    BY <1>1
  <2>1. Def([j \in 0 .. i |-> f[j]])
    BY <1>4, <2>0
  <2>2. Def(start)
    <3> HIDE DEF Def
    <3>1. QED
      BY <2>1
  <2>3. StartOf(extents, i) = start[i]
    BY DEF StartOf, amount
  <2> HIDE DEF start
  <2>4. \A j \in 0 .. i : start[j] = IF j = 0 THEN 0 ELSE start[j - 1] + amount(j - 1)
    BY <2>2
  <2> DEFINE T == {j \in 0 .. i : start[j] = f[j]}
  <2>5. 0 \in T
    BY <1>4, <2>0, <2>4
  <2>6. ASSUME NEW j \in 0 .. i - 1, j \in T PROVE j + 1 \in T
    <3>1. PICK k \in 0 .. i : k = j + 1 /\ k - 1 = j /\ k # 0
      <4>1. j + 1 \in 0 .. i /\ j + 1 - 1 = j /\ j + 1 # 0
        BY <2>0
      <4>2. QED
        BY <4>1
    <3>2. start[k] = start[j] + amount(j) /\ f[k] = f[j] + amount(j)
      BY <1>4, <2>0, <2>4, <3>1
    <3>3. start[k] = f[k]
      BY <2>6, <3>2
    <3>4. QED
      BY <3>1, <3>3
  <2> HIDE DEF T
  <2>7. i \in T
    <3>1. i \in Nat /\ i \in 0 .. i
      BY <2>0
    <3>2. \A j \in 0 .. i : j \in T
      BY ONLY <3>1, <2>5, <2>6, UpTo
    <3>3. QED
      BY <3>1, <3>2
  <2>8. QED
    BY <2>3, <2>7 DEF T
<1>6. ASSUME NEW i \in Index
      PROVE  /\ i + 1 \in 0 .. n
             /\ StartOf(extents, i + 1) = StartOf(extents, i) + amount(i)
  <2>1. PICK k \in 1 .. n : k = i + 1 /\ k - 1 = i
    <3>1. i \in Int /\ i + 1 \in 1 .. n /\ i + 1 - 1 = i
      BY <1>1
    <3>2. QED
      BY <3>1
  <2>2. i \in 0 .. n /\ k \in 0 .. n
    BY <1>1
  <2>3. f[k] = f[i] + amount(i)
    BY <1>4, <2>1
  <2>4. StartOf(extents, k) = f[k] /\ StartOf(extents, i) = f[i]
    BY <1>5, <2>2
  <2>5. QED
    BY <2>1, <2>2, <2>3, <2>4
<1>7. 0 \in 0 .. n
  BY <1>1
<1>8. QED
  BY <1>4, <1>5, <1>6, <1>7 DEF n, amount

\* Later slots begin later.
LEMMA StartsInOrder ==
  ASSUME NEW extents \in [Index -> ChunkExtent], NEW i \in Index,
         NEW k \in 0 .. MAX_FILE_CHUNK_EXTENTS_AMOUNT, i < k
  PROVE  StartOf(extents, i) + extents[i].chunk_amount <= StartOf(extents, k)
<1> DEFINE n == MAX_FILE_CHUNK_EXTENTS_AMOUNT
           m == k - i - 1
           T == {d \in 0 .. m : StartOf(extents, i + 1) <= StartOf(extents, i + 1 + d)}
<1>1. n \in Nat \ {0} /\ Index = 0 .. n - 1 /\ m \in Nat /\ i \in Nat /\ i + 1 + m = k
  BY FileStorageAssumption DEF Index, LastIndex
<1>2. \A d \in 0 .. m : StartOf(extents, i + 1 + d) \in Nat
  <2>1. \A d \in 0 .. m : i + 1 + d \in 0 .. n
    BY <1>1
  <2>2. QED
    BY <2>1, StartIs
<1>3. 0 \in T
  <2>1. 0 \in 0 .. m /\ i + 1 + 0 = i + 1
    BY <1>1
  <2>2. StartOf(extents, i + 1 + 0) \in Nat
    BY <1>2, <2>1
  <2>3. QED
    BY <2>1, <2>2
<1>4. ASSUME NEW d \in 0 .. m - 1, d \in T PROVE d + 1 \in T
  <2>1. PICK j \in Index : j = i + 1 + d
    <3>1. i + 1 + d \in Index
      BY <1>1
    <3>2. QED
      BY <3>1
  <2>2. j + 1 = i + 1 + (d + 1) /\ d + 1 \in 0 .. m /\ d \in 0 .. m /\ 0 \in 0 .. m
    BY <1>1, <2>1
  <2>3. StartOf(extents, j + 1) = StartOf(extents, j) + extents[j].chunk_amount
    BY StartIs
  <2>4. extents[j].chunk_amount \in Nat /\ StartOf(extents, j) \in Nat
    BY <1>2, <2>1, <2>2 DEF ChunkExtent
  <2>5. StartOf(extents, i + 1) <= StartOf(extents, j) /\ StartOf(extents, i + 1) \in Nat
    <3>1. i + 1 \in 0 .. n
      BY <1>1
    <3>2. QED
      BY <1>4, <2>1, <3>1, StartIs
  <2>6. QED
    BY <2>2, <2>3, <2>4, <2>5
<1>5. StartOf(extents, i + 1) <= StartOf(extents, k)
  <2> HIDE DEF T, m
  <2>1. m \in Nat /\ m \in 0 .. m
    BY <1>1
  <2>2. \A d \in 0 .. m : d \in T
    BY ONLY <2>1, <1>3, <1>4, UpTo
  <2>3. StartOf(extents, i + 1) <= StartOf(extents, i + 1 + m)
    BY <2>1, <2>2 DEF T
  <2>4. QED
    BY <1>1, <2>3
<1>6. QED
  BY <1>5, StartIs

\* A position among the chunks of the first slots lies in one of them.
LEMMA PositionInSlot ==
  ASSUME NEW extents \in [Index -> ChunkExtent], NEW k \in 0 .. MAX_FILE_CHUNK_EXTENTS_AMOUNT,
         NEW position \in 0 .. StartOf(extents, k) - 1
  PROVE  \E i \in Index, p \in Nat :
           /\ i < k /\ p < extents[i].chunk_amount
           /\ position = StartOf(extents, i) + p
<1> DEFINE n == MAX_FILE_CHUNK_EXTENTS_AMOUNT
           T == {i \in 0 .. n : position < StartOf(extents, i)}
<1>1. n \in Nat \ {0} /\ Index = 0 .. n - 1
  BY FileStorageAssumption DEF Index, LastIndex
<1>2. \A i \in 0 .. n : StartOf(extents, i) \in Nat
  BY StartIs
<1>3. k \in T /\ k \in Nat
  BY <1>1, <1>2
<1>4. PICK m \in T : \A i \in T : m <= i
  <2>1. T \in SUBSET Nat /\ T # {}
    BY <1>3
  <2> HIDE DEF T
  <2>2. QED
    BY <2>1, LeastElement
<1>5. m # 0 /\ m <= k /\ m \in 0 .. n
  <2>1. ~(position < StartOf(extents, 0))
    BY StartIs
  <2>2. QED
    BY <1>3, <1>4, <2>1
<1>6. PICK i \in Index : i = m - 1 /\ i + 1 = m
  <2>1. m - 1 \in Index /\ m - 1 + 1 = m
    BY <1>1, <1>5
  <2>2. QED
    BY <2>1
<1>7. i < k /\ i \notin T /\ i \in 0 .. n
  BY <1>1, <1>3, <1>4, <1>5, <1>6
<1>8. StartOf(extents, i) <= position
  BY <1>2, <1>7
<1>9. position < StartOf(extents, i) + extents[i].chunk_amount
  BY <1>4, <1>6, StartIs
<1>10. extents[i].chunk_amount \in Nat
  BY DEF ChunkExtent
<1> DEFINE p == position - StartOf(extents, i)
<1>11. p \in Nat /\ p < extents[i].chunk_amount /\ position = StartOf(extents, i) + p
  BY <1>2, <1>7, <1>8, <1>9, <1>10
<1> HIDE DEF p
<1>12. QED
  BY <1>7, <1>11

\* The bytes of one slot more come behind those of the slots before it.
LEMMA SlotsGrow ==
  ASSUME NEW extents, NEW bytes, Fits(extents, bytes), NEW i \in Index
  PROVE  /\ SlotsBytes(extents, bytes, 0) = <<>>
         /\ SlotBytes(extents, bytes, i) \in Seq(Cell)
         /\ SlotsBytes(extents, bytes, i) \in Seq(Cell)
         /\ SlotsBytes(extents, bytes, i + 1)
              = SlotsBytes(extents, bytes, i) \o SlotBytes(extents, bytes, i)
<1>1. ASSUME NEW j \in Index PROVE SlotBytes(extents, bytes, j) \in Seq(Cell)
  <2>1. CASE extents[j].is_empty
    BY <2>1 DEF SlotBytes
  <2>2. CASE ~extents[j].is_empty
    BY <2>2, SlotBytesAre DEF IsSlot
  <2>3. QED
    BY <2>1, <2>2
<1>2. i \in Nat /\ \A j \in 1 .. i + 1 : j - 1 \in Index
  BY FileStorageAssumption DEF Index, LastIndex
<1> DEFINE part(j) == SlotBytes(extents, bytes, j - 1)
           parts == [j \in 1 .. i + 1 |-> part(j)]
           front == [j \in 1 .. i |-> parts[j]]
<1>3. \A j \in 1 .. i + 1 : part(j) \in Seq(Cell)
  BY <1>1, <1>2
<1>4. SlotsBytes(extents, bytes, i + 1) = FlattenSeq(parts)
  BY DEF SlotsBytes
<1>5. SlotsBytes(extents, bytes, i) = FlattenSeq([j \in 1 .. i |-> part(j)])
  BY DEF SlotsBytes
<1>6. part(i + 1) = SlotBytes(extents, bytes, i)
  <2>1. PICK m : m = i + 1 /\ m - 1 = i
    BY <1>2
  <2>2. part(m) = SlotBytes(extents, bytes, m - 1)
    OBVIOUS
  <2> HIDE DEF part
  <2>3. QED
    BY <2>1, <2>2
<1>7. SlotsBytes(extents, bytes, 0) = <<>>
  <2> DEFINE none == [j \in 1 .. 0 |-> part(j)]
  <2>1. SlotsBytes(extents, bytes, 0) = FlattenSeq(none)
    BY DEF SlotsBytes
  <2>2. none = <<>> /\ Len(none) = 0
    OBVIOUS
  <2> HIDE DEF none
  <2>3. QED
    BY <2>1, <2>2 DEF FlattenSeq
<1> HIDE DEF part
<1>8. parts \in [1 .. i + 1 -> Seq(Cell)] /\ parts[i + 1] = part(i + 1)
  BY <1>2, <1>3
<1>9. front = [j \in 1 .. i |-> part(j)]
  BY <1>2
<1> HIDE DEF parts
<1>10. FlattenSeq(front) \in Seq(Cell) /\ FlattenSeq(parts) = FlattenSeq(front) \o parts[i + 1]
  BY <1>2, <1>8, FlattenGrows
<1> HIDE DEF front
<1>11. QED
  BY <1>1, <1>4, <1>5, <1>6, <1>7, <1>8, <1>9, <1>10

\* Slots that hold the same make the same bytes.
LEMMA SameSlot ==
  ASSUME NEW e, NEW s, NEW e2, NEW s2, NEW i, e2[i] = e[i],
         e[i].start \in Nat, e[i].chunk_amount \in Nat,
         ~e[i].is_empty => \A c \in Span(e[i].start, e[i].chunk_amount) : s2[c] = s[c]
  PROVE  SlotBytes(e2, s2, i) = SlotBytes(e, s, i)
<1>1. CASE e[i].is_empty
  BY <1>1 DEF SlotBytes
<1>2. CASE ~e[i].is_empty
  <2> DEFINE start == e[i].start
             amount == e[i].chunk_amount
  <2>1. start \in Nat /\ amount \in Nat /\ \A c \in Span(start, amount) : s2[c] = s[c]
    BY <1>2
  <2>2. /\ SlotBytes(e, s, i) = FlattenSeq([n \in 1 .. amount |-> s[start + n - 1]])
        /\ SlotBytes(e2, s2, i) = FlattenSeq([n \in 1 .. amount |-> s2[start + n - 1]])
    BY <1>2 DEF SlotBytes
  <2> HIDE DEF start, amount
  <2>3. \A n \in 1 .. amount : start + n - 1 \in Span(start, amount)
    BY <2>1 DEF Span
  <2>4. [n \in 1 .. amount |-> s[start + n - 1]] = [n \in 1 .. amount |-> s2[start + n - 1]]
    BY <2>1, <2>3
  <2>5. QED
    BY <2>2, <2>4
<1>3. QED
  BY <1>1, <1>2

LEMMA SameSlots ==
  ASSUME NEW e, NEW s, NEW e2, NEW s2, NEW i \in Nat,
         \A j \in 0 .. i - 1 : SlotBytes(e2, s2, j) = SlotBytes(e, s, j)
  PROVE  SlotsBytes(e2, s2, i) = SlotsBytes(e, s, i)
<1>1. \A j \in 1 .. i : j - 1 \in 0 .. i - 1
  OBVIOUS
<1>2. [j \in 1 .. i |-> SlotBytes(e2, s2, j - 1)] = [j \in 1 .. i |-> SlotBytes(e, s, j - 1)]
  BY <1>1
<1>3. QED
  BY <1>2 DEF SlotsBytes

\* Empty slots at the end add nothing.
LEMMA EmptySlotsEnd ==
  ASSUME NEW extents, NEW bytes, Fits(extents, bytes),
         NEW k \in 0 .. MAX_FILE_CHUNK_EXTENTS_AMOUNT,
         \A i \in Index : i >= k => extents[i].is_empty
  PROVE  SlotsBytes(extents, bytes, MAX_FILE_CHUNK_EXTENTS_AMOUNT) = SlotsBytes(extents, bytes, k)
<1> DEFINE n == MAX_FILE_CHUNK_EXTENTS_AMOUNT
           m == n - k
           all(d) == SlotsBytes(extents, bytes, k + d)
           T == {d \in 0 .. m : all(d) = SlotsBytes(extents, bytes, k)}
<1>1. n \in Nat \ {0} /\ Index = 0 .. n - 1 /\ m \in Nat /\ k \in Nat /\ k + m = n /\ k + 0 = k
  BY FileStorageAssumption DEF Index, LastIndex
<1>2. 0 \in T
  BY <1>1
<1>3. ASSUME NEW d \in 0 .. m - 1, d \in T PROVE d + 1 \in T
  <2>1. PICK i \in Index : i = k + d /\ i >= k
    <3>1. k + d \in Index /\ k + d >= k
      BY <1>1
    <3>2. QED
      BY <3>1
  <2>2. i + 1 = k + (d + 1) /\ d + 1 \in 0 .. m
    BY <1>1, <2>1
  <2>3. SlotBytes(extents, bytes, i) = <<>>
    BY <2>1 DEF SlotBytes
  <2>4. SlotsBytes(extents, bytes, i + 1) = SlotsBytes(extents, bytes, i)
    <3>1. /\ SlotsBytes(extents, bytes, i) \in Seq(Cell)
          /\ SlotsBytes(extents, bytes, i + 1) = SlotsBytes(extents, bytes, i) \o <<>>
      BY <2>3, SlotsGrow
    <3>2. QED
      BY <3>1, ConcatEmptySeq
  <2>5. QED
    BY <1>3, <2>1, <2>2, <2>4
<1>4. all(m) = SlotsBytes(extents, bytes, k)
  <2> HIDE DEF T, m
  <2>1. m \in Nat /\ m \in 0 .. m
    BY <1>1
  <2>2. \A d \in 0 .. m : d \in T
    BY ONLY <2>1, <1>2, <1>3, UpTo
  <2>3. QED
    BY <2>1, <2>2 DEF T
<1>5. QED
  BY <1>1, <1>4

\* The bytes of the first slots, when these are occupied: chunk p of slot j is where the
\* slots before j and p chunks more end.
HoldsChunks(extents, bytes, k, all) ==
  /\ all \in Seq(Cell)
  /\ Len(all) = StartOf(extents, k) * CHUNK_SIZE
  /\ \A j \in Index : j < k =>
       \A p \in 0 .. extents[j].chunk_amount - 1, b \in Offset :
         all[(StartOf(extents, j) + p) * CHUNK_SIZE + b] = bytes[extents[j].start + p][b]

LEMMA OneSlotMore ==
  ASSUME NEW extents, NEW bytes, Fits(extents, bytes), NEW k \in Index, ~extents[k].is_empty,
         NEW all, HoldsChunks(extents, bytes, k, all)
  PROVE  HoldsChunks(extents, bytes, k + 1, all \o SlotBytes(extents, bytes, k))
<1> DEFINE slot == SlotBytes(extents, bytes, k)
           start == StartOf(extents, k)
           amount == extents[k].chunk_amount
           c == CHUNK_SIZE
<1>1. /\ extents \in [Index -> ChunkExtent] /\ start \in Nat /\ amount \in Nat
      /\ StartOf(extents, k + 1) = start + amount /\ c \in Nat \ {0} /\ Offset = 1 .. c
  <2>1. extents \in [Index -> ChunkExtent]
    BY DEF Fits
  <2>2. amount \in Nat
    BY <2>1 DEF ChunkExtent
  <2>3. k \in 0 .. MAX_FILE_CHUNK_EXTENTS_AMOUNT
    BY FileStorageAssumption DEF Index, LastIndex
  <2>4. QED
    BY <2>1, <2>2, <2>3, StartIs, StorageAssumption DEF Offset
<1>2. /\ slot \in Seq(Cell) /\ Len(slot) = amount * c
      /\ \A p \in 0 .. amount - 1, b \in Offset :
           slot[p * c + b] = bytes[extents[k].start + p][b]
  <2>1. IsSlot(slot, extents, bytes, k)
    BY SlotBytesAre
  <2>2. QED
    BY <2>1 DEF IsSlot
<1>3. /\ all \in Seq(Cell) /\ Len(all) = start * c
      /\ \A j \in Index : j < k =>
           \A p \in 0 .. extents[j].chunk_amount - 1, b \in Offset :
             all[(StartOf(extents, j) + p) * c + b] = bytes[extents[j].start + p][b]
  BY DEF HoldsChunks
<1> HIDE DEF slot, start, amount, c
<1> DEFINE m == start * c
           l == amount * c
           u == all \o slot
<1>4. m \in Nat /\ l \in Nat /\ (start + amount) * c = m + l
  BY <1>1, ProductOrder
<1>5. /\ u \in Seq(Cell) /\ Len(u) = m + l
      /\ \A x \in 1 .. m + l : u[x] = IF x <= m THEN all[x] ELSE slot[x - m]
  <2>1. /\ u \in Seq(Cell) /\ Len(u) = Len(all) + Len(slot)
        /\ \A x \in 1 .. Len(all) + Len(slot) :
             u[x] = IF x <= Len(all) THEN all[x] ELSE slot[x - Len(all)]
    BY <1>2, <1>3, ConcatProperties
  <2>2. QED
    BY <1>2, <1>3, <2>1
<1> HIDE DEF u
<1>6. ASSUME NEW j \in Index, j < k + 1, NEW p \in 0 .. extents[j].chunk_amount - 1,
             NEW b \in Offset
      PROVE  u[(StartOf(extents, j) + p) * c + b] = bytes[extents[j].start + p][b]
  <2>1. j \in Nat /\ k \in Nat /\ extents[j].chunk_amount \in Nat /\ p \in Nat
        /\ StartOf(extents, j) \in Nat /\ j \in 0 .. MAX_FILE_CHUNK_EXTENTS_AMOUNT
        /\ k \in 0 .. MAX_FILE_CHUNK_EXTENTS_AMOUNT
    <3>1. /\ j \in Nat /\ k \in Nat /\ j \in 0 .. MAX_FILE_CHUNK_EXTENTS_AMOUNT
          /\ k \in 0 .. MAX_FILE_CHUNK_EXTENTS_AMOUNT
      BY FileStorageAssumption DEF Index, LastIndex
    <3>2. extents[j].chunk_amount \in Nat
      BY <1>1 DEF ChunkExtent
    <3>3. StartOf(extents, j) \in Nat
      BY <1>1, <3>1, StartIs
    <3>4. QED
      BY <3>1, <3>2, <3>3
  <2> DEFINE q == StartOf(extents, j) + p
             x == q * c + b
  <2>2. q \in Nat /\ q * c \in Nat /\ x \in Nat /\ b \in 1 .. c
    <3>1. q \in Nat
      BY <2>1
    <3> HIDE DEF q
    <3>2. q * c \in Nat
      BY <1>1, <3>1, ProductOrder
    <3>3. QED
      BY <1>1, <3>1, <3>2
  <2>3. CASE j < k
    <3>1. q < start
      <4>1. StartOf(extents, j) + extents[j].chunk_amount <= start
        BY <1>1, <2>1, <2>3, StartsInOrder DEF start
      <4>2. QED
        BY <1>1, <2>1, <4>1
    <3>2. all[x] = bytes[extents[j].start + p][b]
      BY <1>3, <2>3
    <3> HIDE DEF q
    <3>3. x <= m
      BY <1>1, <2>2, <3>1, ProductOrder
    <3>4. x \in 1 .. m + l
      BY <1>1, <1>4, <2>2, <3>3
    <3> HIDE DEF x, m, l
    <3>5. u[x] = all[x]
      BY <1>5, <3>3, <3>4
    <3>6. QED
      BY <3>2, <3>5 DEF x, q
  <2>4. CASE j = k
    <3>1. q = start + p /\ p \in 0 .. amount - 1
      BY <2>4 DEF start, amount
    <3>2. slot[p * c + b] = bytes[extents[j].start + p][b]
      BY <1>2, <2>4, <3>1
    <3>3. p * c + b \in 1 .. l
      BY <1>1, <3>1, PlaceInChunks DEF c
    <3>4. q * c = m + p * c /\ p * c \in Nat
      BY <1>1, <2>1, <3>1, ProductOrder
    <3>5. x = m + (p * c + b)
      BY <1>4, <2>2, <3>4
    <3> HIDE DEF x, m, l, q
    <3>6. x \in 1 .. m + l /\ ~(x <= m) /\ x - m = p * c + b
      BY <1>4, <3>3, <3>5
    <3>7. u[x] = slot[p * c + b]
      BY <1>5, <3>6
    <3>8. QED
      BY <3>2, <3>7 DEF x, q
  <2>5. QED
    BY <1>6, <2>1, <2>3, <2>4
<1>7. Len(u) = StartOf(extents, k + 1) * c
  BY <1>1, <1>4, <1>5
<1>8. QED
  BY <1>5, <1>6, <1>7 DEF HoldsChunks, u, slot, c

LEMMA SlotsBytesAre ==
  ASSUME NEW extents, NEW bytes, Fits(extents, bytes),
         NEW k \in 0 .. MAX_FILE_CHUNK_EXTENTS_AMOUNT,
         \A i \in Index : i < k => ~extents[i].is_empty
  PROVE  HoldsChunks(extents, bytes, k, SlotsBytes(extents, bytes, k))
<1> DEFINE T == {i \in 0 .. k : HoldsChunks(extents, bytes, i, SlotsBytes(extents, bytes, i))}
<1>1. /\ k \in Nat /\ \A i \in 0 .. k - 1 : i \in Index /\ i < k
      /\ 0 \in Index /\ \A i \in Index : i \in Nat
  BY FileStorageAssumption DEF Index, LastIndex
<1>2. 0 \in T
  <2>1. SlotsBytes(extents, bytes, 0) = <<>>
    BY <1>1, SlotsGrow
  <2>2. StartOf(extents, 0) = 0 /\ 0 * CHUNK_SIZE = 0
    BY StartIs, StorageAssumption DEF Fits
  <2>3. HoldsChunks(extents, bytes, 0, <<>>)
    BY <1>1, <2>2 DEF HoldsChunks
  <2>4. 0 \in 0 .. k
    BY <1>1
  <2>5. QED
    BY <2>1, <2>3, <2>4
<1>3. ASSUME NEW i \in 0 .. k - 1, i \in T PROVE i + 1 \in T
  <2>1. i \in Index /\ ~extents[i].is_empty /\ i + 1 \in 0 .. k
    BY <1>1
  <2>2. HoldsChunks(extents, bytes, i, SlotsBytes(extents, bytes, i))
    BY <1>3
  <2>3. SlotsBytes(extents, bytes, i + 1)
          = SlotsBytes(extents, bytes, i) \o SlotBytes(extents, bytes, i)
    BY <2>1, SlotsGrow
  <2>4. HoldsChunks(extents, bytes, i + 1, SlotsBytes(extents, bytes, i + 1))
    BY <2>1, <2>2, <2>3, OneSlotMore
  <2>5. QED
    BY <2>1, <2>4
<1> HIDE DEF T
<1>4. \A i \in 0 .. k : i \in T
  BY <1>1, <1>2, <1>3, UpTo
<1>5. QED
  BY <1>1, <1>4 DEF T

-----------------------------------------------------------------------------
(* The bytes of a file *)

\* The chunks of the first i slots.
SpansUpTo(extents, i) ==
  UNION {Span(extents[j].start, extents[j].chunk_amount) : j \in 0 .. i - 1}

LEMMA SpansTogether ==
  ASSUME NEW extents, NEW bytes, Fits(extents, bytes),
         NEW k \in 0 .. MAX_FILE_CHUNK_EXTENTS_AMOUNT,
         \A i \in Index : i < k => ~extents[i].is_empty,
         \A i, j \in Index : i < j /\ j < k =>
           Span(extents[i].start, extents[i].chunk_amount)
             \cap Span(extents[j].start, extents[j].chunk_amount) = {}
  PROVE  Cardinality(SpansUpTo(extents, k)) = StartOf(extents, k)
<1> DEFINE span(i) == Span(extents[i].start, extents[i].chunk_amount)
           T == {i \in 0 .. k : /\ SpansUpTo(extents, i) \subseteq Chunk
                                /\ Cardinality(SpansUpTo(extents, i)) = StartOf(extents, i)}
<1>1. /\ k \in Nat /\ \A i \in 0 .. k - 1 : i \in Index /\ i < k
      /\ 0 \in Index /\ \A i \in Index : i \in Nat
      /\ extents \in [Index -> ChunkExtent]
  BY FileStorageAssumption DEF Index, LastIndex, Fits
<1>2. 0 \in T
  <2>1. SpansUpTo(extents, 0) = {}
    BY DEF SpansUpTo
  <2>2. 0 \in 0 .. k
    BY <1>1
  <2>3. QED
    BY <1>1, <2>1, <2>2, StartIs, FS_EmptySet
<1>3. ASSUME NEW i \in 0 .. k - 1, i \in T PROVE i + 1 \in T
  <2>1. i \in Index /\ i < k /\ i \in Nat /\ i + 1 \in 0 .. k
    BY <1>1
  <2>2. extents[i].start \in Nat /\ extents[i].chunk_amount \in Nat /\ span(i) \subseteq Chunk
    BY <1>1, <2>1 DEF Fits, ChunkExtent
  <2>3. SpansUpTo(extents, i + 1) = SpansUpTo(extents, i) \cup span(i)
    <3>1. 0 .. i + 1 - 1 = (0 .. i - 1) \cup {i}
      BY <2>1
    <3>2. QED
      BY <3>1 DEF SpansUpTo
  <2>4. SpansUpTo(extents, i) \cap span(i) = {}
    <3>1. \A j \in 0 .. i - 1 : span(j) \cap span(i) = {}
      <4>1. \A j \in 0 .. i - 1 : j \in Index /\ j < i
        BY <1>1, <2>1
      <4>2. QED
        BY <2>1, <4>1
    <3> HIDE DEF span
    <3>2. SpansUpTo(extents, i) = UNION {span(j) : j \in 0 .. i - 1}
      BY DEF SpansUpTo, span
    <3>3. QED
      BY <3>1, <3>2
  <2>5. SpansUpTo(extents, i) \subseteq Chunk
        /\ Cardinality(SpansUpTo(extents, i)) = StartOf(extents, i)
    BY <1>3
  <2>6. Cardinality(SpansUpTo(extents, i) \cup span(i))
          = StartOf(extents, i) + extents[i].chunk_amount
    BY <2>2, <2>4, <2>5, AddSpan
  <2>7. StartOf(extents, i + 1) = StartOf(extents, i) + extents[i].chunk_amount
    BY <1>1, <2>1, StartIs
  <2>8. QED
    BY <2>1, <2>2, <2>3, <2>5, <2>6, <2>7
<1> HIDE DEF T
<1>4. \A i \in 0 .. k : i \in T
  BY <1>1, <1>2, <1>3, UpTo
<1>5. QED
  BY <1>1, <1>4 DEF T

\* The slots of a file are those of its array.
LEMMA FileFits ==
  ASSUME LayoutInv, NEW f \in File
  PROVE  Fits(files[f].data_chunk_extents, storage)
<1>1. /\ files[f].data_chunk_extents \in [Index -> ChunkExtent]
      /\ storage \in [Chunk -> [Offset -> Cell]]
  BY DEF LayoutInv, FilesTypeOK, StorageTypeOK, Cell
<1>2. \A i \in Index : Occupied(f, i) => ExtentSpan(f, i) \subseteq Chunk
  BY OwnedInChunks DEF LayoutInv
<1>3. QED
  BY <1>1, <1>2 DEF Fits, Occupied, ExtentSpan, Extent

\* The occupied slots are the first k.
LEMMA FrontSlots ==
  ASSUME ExtentsCompact, NEW f \in File
  PROVE  \E k \in 0 .. MAX_FILE_CHUNK_EXTENTS_AMOUNT :
           \A i \in Index : Occupied(f, i) <=> i < k
<1> DEFINE n == MAX_FILE_CHUNK_EXTENTS_AMOUNT
           T == {i \in 0 .. n : i = n \/ ~Occupied(f, i)}
<1>1. n \in Nat /\ Index = 0 .. n - 1
  BY FileStorageAssumption DEF Index, LastIndex
<1>2. PICK k \in T : \A i \in T : k <= i
  <2>1. T \in SUBSET Nat /\ T # {}
    BY <1>1
  <2> HIDE DEF T
  <2>2. QED
    BY <2>1, LeastElement
<1>3. ASSUME NEW i \in Index PROVE Occupied(f, i) <=> i < k
  <2>1. i < k => Occupied(f, i)
    <3>1. i \in 0 .. n /\ i # n
      BY <1>1
    <3>2. i < k => i \notin T
      BY <1>1, <1>2
    <3>3. QED
      BY <3>1, <3>2
  <2>2. Occupied(f, i) => i < k
    <3>1. ASSUME i >= k PROVE ~Occupied(f, i)
      <4>1. k \in Index /\ ~Occupied(f, k) /\ (k = i \/ k < i)
        BY <1>1, <3>1
      <4>2. QED
        BY <4>1 DEF ExtentsCompact
    <3>2. QED
      BY <1>1, <3>1
  <2>3. QED
    BY <2>1, <2>2
<1>4. QED
  BY <1>3

\* The bytes of a file are those of its chunks, and allocated_size counts these.
LEMMA FileHolds ==
  ASSUME LayoutInv, NEW f \in File
  PROVE  \E k \in 0 .. MAX_FILE_CHUNK_EXTENTS_AMOUNT :
           /\ \A i \in Index : Occupied(f, i) <=> i < k
           /\ StartOf(files[f].data_chunk_extents, k) = files[f].allocated_size
           /\ Bytes(f) = SlotsBytes(files[f].data_chunk_extents, storage, k)
           /\ HoldsChunks(files[f].data_chunk_extents, storage, k, Bytes(f))
<1> DEFINE e == files[f].data_chunk_extents
<1>1. PICK k \in 0 .. MAX_FILE_CHUNK_EXTENTS_AMOUNT : \A i \in Index : Occupied(f, i) <=> i < k
  BY FrontSlots DEF LayoutInv
<1>2. Fits(e, storage)
  BY FileFits
<1>3. \A i \in Index : ~e[i].is_empty <=> i < k
  BY <1>1 DEF Occupied, Extent
<1>4. /\ \A i \in Index : ExtentSpan(f, i) = Span(e[i].start, e[i].chunk_amount)
      /\ \A i, j \in Index : i < j /\ j < k =>
           Span(e[i].start, e[i].chunk_amount) \cap Span(e[j].start, e[j].chunk_amount) = {}
  <2>1. \A i \in Index : ExtentSpan(f, i) = Span(e[i].start, e[i].chunk_amount)
    BY DEF ExtentSpan, Extent
  <2>2. ASSUME NEW i \in Index, NEW j \in Index, i < j, j < k
        PROVE  ExtentSpan(f, i) \cap ExtentSpan(f, j) = {}
    <3>1. i # j /\ i < k
      BY <1>1, <2>2, FileStorageAssumption DEF Index, LastIndex
    <3>2. Occupied(f, i) /\ Occupied(f, j) /\ <<f, i>> # <<f, j>>
      BY <1>1, <2>2, <3>1
    <3>3. QED
      BY <3>2 DEF LayoutInv, NoSharedChunk
  <2>3. QED
    BY <2>1, <2>2
<1>5. \A i \in Index : 0 <= i /\ (i < k <=> i \in 0 .. k - 1) /\ i \in Int
  BY FileStorageAssumption DEF Index, LastIndex
<1>6. Owned(f) = SpansUpTo(e, k)
  <2>1. ASSUME NEW c, c \in Owned(f) PROVE c \in SpansUpTo(e, k)
    <3>1. PICK i \in Index : Occupied(f, i) /\ c \in ExtentSpan(f, i)
      BY <2>1, OwnedMember
    <3>2. i \in 0 .. k - 1 /\ c \in Span(e[i].start, e[i].chunk_amount)
      BY <1>1, <1>4, <1>5, <3>1
    <3>3. QED
      BY <3>2 DEF SpansUpTo
  <2>2. ASSUME NEW c, c \in SpansUpTo(e, k) PROVE c \in Owned(f)
    <3>1. PICK i \in 0 .. k - 1 : c \in Span(e[i].start, e[i].chunk_amount)
      BY <2>2 DEF SpansUpTo
    <3>2. i \in Index
      BY FileStorageAssumption DEF Index, LastIndex
    <3>3. Occupied(f, i) /\ c \in ExtentSpan(f, i)
      BY <1>1, <1>4, <1>5, <3>1, <3>2
    <3>4. QED
      BY <3>2, <3>3, OwnedMember
  <2>3. QED
    BY <2>1, <2>2
<1> HIDE DEF e
<1>7. StartOf(e, k) = files[f].allocated_size
  <2>1. Cardinality(SpansUpTo(e, k)) = StartOf(e, k)
    BY <1>2, <1>3, <1>4, SpansTogether
  <2>2. QED
    BY <1>6, <2>1 DEF LayoutInv, SizeExact
<1>8. Bytes(f) = SlotsBytes(e, storage, k)
  <2>1. Bytes(f) = SlotsBytes(e, storage, MAX_FILE_CHUNK_EXTENTS_AMOUNT)
    BY DEF Bytes, BytesUpTo, ExtentBytes, Occupied, Extent, SlotsBytes, SlotBytes, e
  <2>2. \A i \in Index : i >= k => e[i].is_empty
    BY <1>3, <1>5
  <2>3. QED
    BY <1>2, <2>1, <2>2, EmptySlotsEnd
<1>9. HoldsChunks(e, storage, k, Bytes(f))
  BY <1>2, <1>3, <1>8, SlotsBytesAre
<1>10. QED
  BY <1>1, <1>7, <1>8, <1>9 DEF e

\* file_read_at finds every chunk of the file at its position, and it holds the bytes
\* that are the file's there.
LEMMA ChunkAtPosition ==
  ASSUME LayoutInv, NEW f \in File, NEW position \in Nat, position < files[f].allocated_size
  PROVE  /\ ChunkReadable(f, position)
         /\ \E c \in Owned(f) :
              /\ GetChunkIndex(f, position) = {c}
              /\ \A b \in Offset : Bytes(f)[position * CHUNK_SIZE + b] = storage[c][b]
<1> DEFINE e == files[f].data_chunk_extents
<1>1. PICK k \in 0 .. MAX_FILE_CHUNK_EXTENTS_AMOUNT :
        /\ \A i \in Index : Occupied(f, i) <=> i < k
        /\ StartOf(e, k) = files[f].allocated_size
        /\ HoldsChunks(e, storage, k, Bytes(f))
  BY FileHolds
<1>2. /\ e \in [Index -> ChunkExtent] /\ files[f].allocated_size \in Nat /\ Fits(e, storage)
      /\ \A i \in Index : Extent(f, i) = e[i] /\ (Occupied(f, i) <=> ~e[i].is_empty)
  <2>1. Fits(e, storage)
    BY FileFits
  <2>2. QED
    BY <2>1 DEF Fits, Extent, Occupied, LayoutInv, FilesTypeOK
<1>3. \A i : RelativeStart(f, i) = StartOf(e, i)
  BY DEF RelativeStart, StartOf, Extent
<1> HIDE DEF e
<1>4. position \in 0 .. StartOf(e, k) - 1
  BY <1>1, <1>2
<1>5. PICK i \in Index, p \in Nat :
        i < k /\ p < e[i].chunk_amount /\ position = StartOf(e, i) + p
  BY <1>2, <1>4, PositionInSlot
<1>6. /\ \A j \in Index : StartOf(e, j) \in Nat /\ e[j].chunk_amount \in Nat /\ e[j].start \in Nat
      /\ \A j \in Index : j \in 0 .. MAX_FILE_CHUNK_EXTENTS_AMOUNT /\ j \in Nat
      /\ \A j \in Index : \A l \in 0 .. j : l \in Index
  <2>1. /\ \A j \in Index : j \in 0 .. MAX_FILE_CHUNK_EXTENTS_AMOUNT /\ j \in Nat
        /\ \A j \in Index : \A l \in 0 .. j : l \in Index
    BY FileStorageAssumption DEF Index, LastIndex
  <2>2. \A j \in Index : e[j].chunk_amount \in Nat /\ e[j].start \in Nat
    BY <1>2 DEF ChunkExtent
  <2>3. QED
    BY <1>2, <2>1, <2>2, StartIs
<1> DEFINE c == e[i].start + p
           Found(j) == /\ position < files[f].allocated_size
                       /\ \A l \in 0 .. j : Occupied(f, l)
                       /\ position >= StartOf(e, j)
                       /\ position < StartOf(e, j) + e[j].chunk_amount
<1>7. Found(i)
  <2>1. \A l \in 0 .. i : Occupied(f, l)
    BY <1>1, <1>5, <1>6
  <2>2. QED
    BY <1>5, <1>6, <2>1
<1>8. ASSUME NEW j \in Index, Found(j) PROVE j = i
  <2>1. ~(j < i)
    <3>1. j < i => StartOf(e, j) + e[j].chunk_amount <= StartOf(e, i)
      BY <1>2, <1>6, StartsInOrder
    <3>2. QED
      BY <1>5, <1>6, <1>8, <3>1
  <2>2. ~(i < j)
    <3>1. i < j => StartOf(e, i) + e[i].chunk_amount <= StartOf(e, j)
      BY <1>2, <1>6, StartsInOrder
    <3>2. QED
      BY <1>5, <1>6, <1>8, <3>1
  <2>3. QED
    BY <1>6, <2>1, <2>2
<1>9. GetChunkIndex(f, position) = {c}
  <2>1. GetChunkIndex(f, position)
          = {Extent(f, j).start + position - RelativeStart(f, j) : j \in {x \in Index : Found(x)}}
    BY <1>2, <1>3 DEF GetChunkIndex
  <2>2. {x \in Index : Found(x)} = {i}
    BY <1>7, <1>8
  <2>3. Extent(f, i).start + position - RelativeStart(f, i) = c
    BY <1>2, <1>3, <1>5, <1>6
  <2> HIDE DEF Found
  <2>4. QED
    BY <2>1, <2>2, <2>3
<1>10. c \in ExtentSpan(f, i) /\ c \in Owned(f) /\ Occupied(f, i)
  <2>1. c \in ExtentSpan(f, i)
    BY <1>2, <1>5, <1>6 DEF ExtentSpan, Span
  <2>2. Occupied(f, i)
    BY <1>1, <1>5
  <2>3. QED
    BY <2>1, <2>2, OwnedMember
<1>11. ChunkReadable(f, position)
  <2>1. FileOwnsChunk(f, c)
    BY <1>7, <1>10 DEF FileOwnsChunk
  <2>2. ChwriteAllowed(c)
    BY <1>10, OwnedInChunks DEF ChwriteAllowed, LayoutInv
  <2>3. QED
    BY <1>9, <2>1, <2>2 DEF ChunkReadable
<1>12. ASSUME NEW b \in Offset PROVE Bytes(f)[position * CHUNK_SIZE + b] = storage[c][b]
  <2>1. p \in 0 .. e[i].chunk_amount - 1
    BY <1>5, <1>6
  <2>2. Bytes(f)[(StartOf(e, i) + p) * CHUNK_SIZE + b] = storage[e[i].start + p][b]
    BY <1>1, <1>5, <2>1 DEF HoldsChunks
  <2>3. QED
    BY <1>5, <2>2
<1>13. QED
  BY <1>9, <1>10, <1>11, <1>12

-----------------------------------------------------------------------------
(* The pieces of a read *)

Piece == [position : Nat, from : Nat, size : Nat]

\* n pieces, of which piece i delivers what lies from at[i - 1] to at[i] in the range.
Cover(offset, amount, pieces, n, at) ==
  /\ pieces \in Seq(Piece) /\ Len(pieces) = n
  /\ at \in [0 .. n -> Nat] /\ at[0] = 0 /\ at[n] = amount
  /\ \A i \in 1 .. n :
       /\ pieces[i].size # 0 /\ pieces[i].from + pieces[i].size <= CHUNK_SIZE
       /\ at[i] = at[i - 1] + pieces[i].size
       /\ offset + at[i - 1] = pieces[i].position * CHUNK_SIZE + pieces[i].from

LEMMA PiecesCover ==
  ASSUME NEW offset \in Nat, NEW amount \in Nat \ {0}
  PROVE  \E n \in Nat \ {0} : \E at : Cover(offset, amount, Pieces(offset, amount), n, at)
<1> DEFINE c == CHUNK_SIZE
           from == offset % c
           first == offset \div c
           head == Min({amount, c - from})
           full == (amount - head) \div c
           tail == (amount - head) % c
           start == [position |-> first, from |-> from, size |-> head]
           whole(i) == [position |-> first + i, from |-> 0, size |-> c]
           end == [position |-> first + full + 1, from |-> 0, size |-> tail]
           middle == [i \in 1 .. full |-> whole(i)]
           most == <<start>> \o middle
<1>1. c \in Nat \ {0}
  BY StorageAssumption
<1>2. Pieces(offset, amount) = most \o IF tail = 0 THEN <<>> ELSE <<end>>
  BY DEF Pieces
<1> HIDE DEF c
<1>3. first \in Nat /\ from \in 0 .. c - 1 /\ offset = first * c + from /\ first * c \in Nat
  BY <1>1, DivMod, ProductOrder
<1> HIDE DEF first, from
<1>4. head = IF amount <= c - from THEN amount ELSE c - from
  <2>1. c - from \in Nat
    BY <1>1, <1>3
  <2>2. \A a, b \in Nat : Min({a, b}) = IF a <= b THEN a ELSE b
    BY DEF Min
  <2>3. QED
    BY <2>1, <2>2
<1> HIDE DEF head
<1>5. /\ head \in Nat \ {0} /\ head <= amount /\ from + head <= c /\ amount - head \in Nat
      /\ amount # head => head = c - from
  BY <1>1, <1>3, <1>4
<1>6. /\ full \in Nat /\ tail \in 0 .. c - 1 /\ full * c \in Nat
      /\ amount - head = full * c + tail
  BY <1>1, <1>5, DivMod, ProductOrder
<1> HIDE DEF full, tail
<1>7. amount = head + full * c + tail /\ (full # 0 \/ tail # 0 => head = c - from)
  <2>1. amount = head + full * c + tail
    BY <1>5, <1>6
  <2>2. full # 0 => full * c # 0
    BY <1>1, <1>6, ProductOrder
  <2>3. QED
    BY <1>5, <1>6, <2>1, <2>2
<1>8. start \in Piece /\ end \in Piece /\ \A i \in 1 .. full : whole(i) \in Piece
  <2>1. c \in Nat /\ from \in Nat /\ head \in Nat /\ tail \in Nat /\ first + full + 1 \in Nat
        /\ \A i \in 1 .. full : first + i \in Nat
    BY <1>1, <1>3, <1>5, <1>6
  <2>2. start \in Piece
    BY <1>3, <2>1 DEF Piece
  <2>3. end \in Piece
    BY <2>1 DEF Piece
  <2>4. ASSUME NEW i \in 1 .. full PROVE whole(i) \in Piece
    <3>1. PICK p \in Nat : p = first + i
      BY <2>1
    <3>2. [position |-> p, from |-> 0, size |-> c] \in Piece
      BY <2>1 DEF Piece
    <3>3. QED
      BY <3>1, <3>2
  <2>5. QED
    BY <2>2, <2>3, <2>4
<1>9. /\ start.position = first /\ start.from = from /\ start.size = head
      /\ end.position = first + full + 1 /\ end.from = 0 /\ end.size = tail
      /\ \A i : whole(i).position = first + i /\ whole(i).from = 0 /\ whole(i).size = c
  OBVIOUS
<1> HIDE DEF start, end, whole
<1>10. /\ most \in Seq(Piece) /\ Len(most) = full + 1
       /\ most[1] = start
       /\ \A i \in 2 .. full + 1 : most[i] = whole(i - 1)
  <2>1. middle \in Seq(Piece) /\ Len(middle) = full /\ \A i \in 1 .. full : middle[i] = whole(i)
    BY <1>6, <1>8
  <2>2. <<start>> \in Seq(Piece) /\ Len(<<start>>) = 1 /\ <<start>>[1] = start
    BY <1>8
  <2> HIDE DEF middle
  <2>3. /\ most \in Seq(Piece) /\ Len(most) = 1 + full
        /\ \A i \in 1 .. 1 + full : most[i] = IF i <= 1 THEN <<start>>[i] ELSE middle[i - 1]
    BY <2>1, <2>2, ConcatProperties
  <2> HIDE DEF most
  <2>4. /\ 1 \in 1 .. 1 + full
        /\ \A i \in 2 .. full + 1 : i \in 1 .. 1 + full /\ ~(i <= 1) /\ i - 1 \in 1 .. full
    BY <1>6
  <2>5. most[1] = start
    <3>1. most[1] = <<start>>[1]
      BY <2>3, <2>4
    <3>2. QED
      BY <2>2, <3>1
  <2>6. ASSUME NEW i \in 2 .. full + 1 PROVE most[i] = whole(i - 1)
    <3>1. most[i] = middle[i - 1]
      BY <2>3, <2>4
    <3>2. QED
      BY <2>1, <2>4, <3>1
  <2>7. QED
    BY <1>6, <2>3, <2>5, <2>6
<1> HIDE DEF most
<1>11. /\ \A i \in Nat : /\ i * c \in Nat /\ (i + 1) * c = i * c + c
                        /\ (first + i) * c = first * c + i * c
       /\ 0 * c = 0
  <2>1. \A i \in Nat : i * c \in Nat /\ (i + 1) * c = i * c + 1 * c
          /\ (first + i) * c = first * c + i * c
    BY <1>1, <1>3, ProductOrder
  <2>2. QED
    BY <1>1, <2>1
<1> DEFINE mark(i) == IF i = 0 THEN 0 ELSE head + (i - 1) * c
<1>12. /\ mark(0) = 0 /\ mark(1) = head /\ mark(full + 1) = head + full * c
       /\ \A i \in 0 .. full + 1 : mark(i) \in Nat
       /\ \A i \in 2 .. full + 1 : mark(i) = mark(i - 1) + c
       /\ \A i \in 1 .. full + 1 : offset + mark(i) = (first + i) * c \/ full = 0
       /\ tail # 0 => offset + mark(full + 1) = (first + full + 1) * c
  <2>1. mark(0) = 0 /\ mark(1) = head /\ mark(full + 1) = head + full * c
    BY <1>5, <1>6, <1>11
  <2>2. ASSUME NEW i \in 1 .. full + 1
        PROVE  i - 1 \in Nat /\ i \in Nat /\ mark(i) = head + (i - 1) * c /\ (i - 1) * c \in Nat
    BY <1>6, <1>11
  <2>3. \A i \in 0 .. full + 1 : mark(i) \in Nat
    <3>1. ASSUME NEW i \in 1 .. full + 1 PROVE mark(i) \in Nat
      BY <1>5, <2>2
    <3> HIDE DEF mark
    <3>2. \A i \in 0 .. full + 1 : i = 0 \/ i \in 1 .. full + 1
      BY <1>6
    <3>3. QED
      BY <2>1, <3>1, <3>2
  <2>4. ASSUME NEW i \in 2 .. full + 1 PROVE mark(i) = mark(i - 1) + c
    <3>1. PICK j \in Nat : j = i - 2 /\ i - 1 = j + 1 /\ i = j + 2
      <4>1. i - 2 \in Nat /\ i - 1 = (i - 2) + 1 /\ i = (i - 2) + 2
        BY <1>6
      <4>2. QED
        BY <4>1
    <3>2. mark(i) = head + (j + 1) * c /\ mark(i - 1) = head + j * c
      BY <3>1
    <3>3. QED
      BY <1>1, <1>5, <1>11, <3>2
  <2>5. ASSUME NEW i \in 1 .. full + 1, head = c - from
        PROVE  offset + mark(i) = (first + i) * c
    <3>1. PICK j \in Nat : j = i - 1 /\ i = j + 1
      BY <2>2
    <3>2. mark(i) = head + j * c /\ j * c \in Nat /\ (j + 1) * c = j * c + c
      BY <1>11, <2>2, <3>1
    <3>3. (first + i) * c = first * c + (j + 1) * c
      BY <1>11, <3>1
    <3>4. QED
      BY <1>1, <1>3, <1>5, <2>5, <3>2, <3>3
  <2>6. full + 1 \in 1 .. full + 1 /\ first + (full + 1) = first + full + 1
    BY <1>3, <1>6
  <2> HIDE DEF mark
  <2>7. QED
    BY <1>7, <2>1, <2>3, <2>4, <2>5, <2>6
<1> HIDE DEF mark
<1>13. CASE tail = 0
  <2> DEFINE n == full + 1
             at == [i \in 0 .. n |-> mark(i)]
  <2>1. Pieces(offset, amount) = most
    <3>1. Pieces(offset, amount) = most \o <<>>
      BY <1>2, <1>13
    <3>2. QED
      BY <1>10, <3>1, ConcatEmptySeq
  <2>2. n \in Nat \ {0}
    BY <1>6
  <2>3. at \in [0 .. n -> Nat] /\ at[0] = 0 /\ at[n] = amount /\ \A i \in 0 .. n : at[i] = mark(i)
    <3>1. n \in Nat /\ 0 \in 0 .. n /\ n \in 0 .. n /\ mark(n) = amount /\ mark(0) = 0
      <4>1. mark(full + 1) = head + full * c /\ mark(0) = 0
        BY <1>12
      <4>2. head + full * c = amount
        BY <1>5, <1>6, <1>7, <1>13
      <4>3. QED
        BY <1>6, <4>1, <4>2
    <3>2. \A i \in 0 .. n : mark(i) \in Nat
      BY <1>12
    <3> HIDE DEF n
    <3>3. QED
      BY <3>1, <3>2
  <2>4. ASSUME NEW i \in 1 .. n
        PROVE  /\ most[i].size # 0 /\ most[i].from + most[i].size <= c
               /\ at[i] = at[i - 1] + most[i].size
               /\ offset + at[i - 1] = most[i].position * c + most[i].from
    <3>1. i \in 0 .. n /\ i - 1 \in 0 .. n /\ at[i] = mark(i) /\ at[i - 1] = mark(i - 1)
      BY <1>6, <2>3
    <3> HIDE DEF at
    <3>2. CASE i = 1
      BY <1>3, <1>5, <1>9, <1>10, <1>12, <3>1, <3>2
    <3>3. CASE i # 1
      <4>1. i \in 2 .. full + 1 /\ i - 1 \in 1 .. full + 1 /\ full # 0
        BY <1>6, <3>3
      <4>2. most[i] = whole(i - 1) /\ mark(i) = mark(i - 1) + c
            /\ offset + mark(i - 1) = (first + (i - 1)) * c
        BY <1>10, <1>12, <4>1
      <4> DEFINE p == first + (i - 1)
      <4>3. most[i].from = 0 /\ most[i].size = c /\ most[i].position = p
        BY <1>9, <4>2
      <4>4. p * c \in Nat
        <5>1. p \in Nat
          BY <1>3, <4>1
        <5> HIDE DEF p
        <5>2. QED
          BY <1>11, <5>1
      <4>5. offset + mark(i - 1) = p * c
        BY <4>2
      <4> HIDE DEF p
      <4>6. QED
        BY <1>1, <3>1, <4>2, <4>3, <4>4, <4>5
    <3>4. QED
      BY <3>2, <3>3
  <2> HIDE DEF at, n
  <2>5. Len(most) = n
    BY <1>10 DEF n
  <2>6. Cover(offset, amount, most, n, at)
    BY <1>10, <2>3, <2>4, <2>5 DEF Cover, c
  <2>7. QED
    BY <2>1, <2>2, <2>6
<1>14. CASE tail # 0
  <2> DEFINE n == full + 2
             at == [i \in 0 .. n |-> IF i = n THEN amount ELSE mark(i)]
             pieces == most \o <<end>>
  <2>1. Pieces(offset, amount) = pieces
    BY <1>2, <1>14
  <2>2. n \in Nat \ {0} /\ n - 1 = full + 1
    BY <1>6
  <2>3. at \in [0 .. n -> Nat] /\ at[0] = 0 /\ at[n] = amount
        /\ \A i \in 0 .. full + 1 : at[i] = mark(i)
    BY <1>6, <1>12
  <2>4. /\ pieces \in Seq(Piece) /\ Len(pieces) = n
        /\ pieces[n] = end /\ \A i \in 1 .. full + 1 : pieces[i] = most[i]
    <3>1. <<end>> \in Seq(Piece) /\ Len(<<end>>) = 1 /\ <<end>>[1] = end
      BY <1>8
    <3>2. /\ pieces \in Seq(Piece) /\ Len(pieces) = full + 1 + 1
          /\ \A i \in 1 .. full + 1 + 1 :
               pieces[i] = IF i <= full + 1 THEN most[i] ELSE <<end>>[i - (full + 1)]
      BY <1>10, <3>1, ConcatProperties
    <3> HIDE DEF pieces
    <3>3. /\ n = full + 1 + 1 /\ n \in 1 .. full + 1 + 1 /\ ~(n <= full + 1)
          /\ n - (full + 1) = 1
          /\ \A i \in 1 .. full + 1 : i \in 1 .. full + 1 + 1 /\ i <= full + 1
      BY <1>6
    <3> HIDE DEF n
    <3>4. QED
      BY <3>1, <3>2, <3>3
  <2> HIDE DEF at, pieces
  <2>5. ASSUME NEW i \in 1 .. n
        PROVE  /\ pieces[i].size # 0 /\ pieces[i].from + pieces[i].size <= c
               /\ at[i] = at[i - 1] + pieces[i].size
               /\ offset + at[i - 1] = pieces[i].position * c + pieces[i].from
    <3>1. CASE i = n
      <4>1. i - 1 = full + 1 /\ full + 1 \in 0 .. full + 1
        BY <1>6, <3>1
      <4>2. at[i] = amount /\ at[i - 1] = mark(full + 1) /\ pieces[i] = end
        BY <2>3, <2>4, <3>1, <4>1
      <4>3. offset + mark(full + 1) = (first + full + 1) * c
        BY <1>12, <1>14
      <4> DEFINE p == first + full + 1
      <4>4. end.from = 0 /\ end.size = tail /\ end.position = p
        BY <1>9
      <4>5. p * c \in Nat /\ offset + mark(full + 1) = p * c
        <5>1. p \in Nat
          BY <1>3, <1>6
        <5>2. offset + mark(full + 1) = p * c
          BY <4>3
        <5> HIDE DEF p
        <5>3. QED
          BY <1>11, <5>1, <5>2
      <4> HIDE DEF p
      <4>6. mark(full + 1) = head + full * c
        BY <1>12
      <4>7. /\ end.size # 0 /\ end.from + end.size <= c
            /\ amount = mark(full + 1) + end.size
        BY <1>1, <1>5, <1>6, <1>7, <1>14, <4>4, <4>6
      <4>8. QED
        BY <4>2, <4>4, <4>5, <4>7
    <3>2. CASE i = 1
      <4>1. i \in 0 .. full + 1 /\ i - 1 \in 0 .. full + 1 /\ i \in 1 .. full + 1 /\ i - 1 = 0
        BY <1>6, <3>2
      <4>2. at[i] = mark(1) /\ at[i - 1] = mark(0) /\ pieces[i] = start
        BY <1>10, <2>3, <2>4, <3>2, <4>1
      <4>3. QED
        BY <1>3, <1>5, <1>9, <1>12, <4>2
    <3>3. CASE i # 1 /\ i # n
      <4>1. /\ i \in 2 .. full + 1 /\ i - 1 \in 1 .. full + 1 /\ full # 0
            /\ i \in 0 .. full + 1 /\ i - 1 \in 0 .. full + 1 /\ i \in 1 .. full + 1
        BY <1>6, <3>3
      <4>2. /\ pieces[i] = whole(i - 1) /\ mark(i) = mark(i - 1) + c
            /\ offset + mark(i - 1) = (first + (i - 1)) * c
            /\ at[i] = mark(i) /\ at[i - 1] = mark(i - 1)
        BY <1>10, <1>12, <2>3, <2>4, <4>1
      <4> DEFINE p == first + (i - 1)
      <4>3. pieces[i].from = 0 /\ pieces[i].size = c /\ pieces[i].position = p
        BY <1>9, <4>2
      <4>4. p * c \in Nat
        <5>1. p \in Nat
          BY <1>3, <4>1
        <5> HIDE DEF p
        <5>2. QED
          BY <1>11, <5>1
      <4>5. offset + mark(i - 1) = p * c
        BY <4>2
      <4> HIDE DEF p
      <4>6. QED
        BY <1>1, <4>2, <4>3, <4>4, <4>5
    <3>4. QED
      BY <3>1, <3>2, <3>3
  <2> HIDE DEF n
  <2>6. Cover(offset, amount, pieces, n, at)
    BY <2>3, <2>4, <2>5 DEF Cover, c
  <2>7. QED
    BY <2>1, <2>2, <2>6
<1>15. QED
  BY <1>13, <1>14

-----------------------------------------------------------------------------
(* What a read delivers *)

LEMMA MarksRise ==
  ASSUME NEW n \in Nat, NEW at \in [0 .. n -> Nat], \A i \in 1 .. n : at[i - 1] <= at[i]
  PROVE  \A i \in 0 .. n : at[i] <= at[n]
<1> DEFINE T == {k \in 0 .. n : at[n - k] <= at[n]}
<1>1. 0 \in T
  OBVIOUS
<1>2. ASSUME NEW k \in 0 .. n - 1, k \in T PROVE k + 1 \in T
  <2>1. PICK i \in 1 .. n : i = n - k /\ i - 1 = n - (k + 1)
    OBVIOUS
  <2>2. at[i - 1] \in Nat /\ at[i] \in Nat /\ at[n] \in Nat /\ at[i - 1] <= at[i] /\ at[i] <= at[n]
    BY <1>2, <2>1
  <2>3. at[i - 1] <= at[n]
    BY <2>2
  <2>4. QED
    BY <2>1, <2>3
<1> HIDE DEF T
<1>3. \A k \in 0 .. n : k \in T
  BY <1>1, <1>2, UpTo
<1>4. ASSUME NEW i \in 0 .. n PROVE at[i] <= at[n]
  <2>1. n - i \in 0 .. n /\ n - (n - i) = i
    OBVIOUS
  <2>2. at[n - (n - i)] <= at[n]
    BY <1>3, <2>1 DEF T
  <2>3. QED
    BY <2>1, <2>2
<1>5. QED
  BY <1>4

LEMMA CutOut ==
  ASSUME NEW S, NEW s, NEW k \in Nat, NEW n \in Nat \ {0}, \A x \in k + 1 .. k + n : s[x] \in S
  PROVE  /\ SubSeq(s, k + 1, k + n) \in Seq(S) /\ Len(SubSeq(s, k + 1, k + n)) = n
         /\ \A b \in 1 .. n : SubSeq(s, k + 1, k + n)[b] = s[k + b]
<1>1. PICK l \in Int, r \in Int : l = k + 1 /\ r = k + n /\ l <= r /\ r - l + 1 = n
  OBVIOUS
<1>2. /\ SubSeq(s, l, r) \in Seq(S)
      /\ Len(SubSeq(s, l, r)) = IF l <= r THEN r - l + 1 ELSE 0
      /\ \A b \in 1 .. r - l + 1 : SubSeq(s, l, r)[b] = s[l + b - 1]
  <2>1. \A x \in l .. r : s[x] \in S
    BY <1>1
  <2>2. QED
    BY <2>1, SubSeqProperties
<1>3. \A b \in 1 .. n : l + b - 1 = k + b
  BY <1>1
<1>4. QED
  BY <1>1, <1>2, <1>3

LEMMA BytesInChunks ==
  ASSUME LayoutInv, NEW f \in File
  PROVE  /\ Bytes(f) \in Seq(Cell)
         /\ files[f].allocated_size \in 0 .. CHUNKS_AMOUNT
         /\ Len(Bytes(f)) = files[f].allocated_size * CHUNK_SIZE
<1>1. Bytes(f) \in Seq(Cell) /\ Len(Bytes(f)) = files[f].allocated_size * CHUNK_SIZE
  BY FileHolds DEF HoldsChunks
<1>2. Owned(f) \subseteq Chunk /\ files[f].allocated_size = Cardinality(Owned(f))
  BY OwnedInChunks DEF LayoutInv, SizeExact
<1>3. IsFiniteSet(Chunk) /\ Cardinality(Chunk) = CHUNKS_AMOUNT
  <2>1. 0 + CHUNKS_AMOUNT - 1 = CHUNKS_AMOUNT - 1 /\ CHUNKS_AMOUNT \in Nat /\ 0 \in Nat
    BY StorageAssumption
  <2>2. Chunk = Span(0, CHUNKS_AMOUNT)
    BY <2>1 DEF Chunk, Span
  <2>3. QED
    BY <2>1, <2>2, SpanCardinality
<1>4. Cardinality(Owned(f)) <= Cardinality(Chunk) /\ Cardinality(Owned(f)) \in Nat
  BY <1>2, <1>3, FS_Subset, FS_CardinalityType
<1>5. QED
  BY <1>1, <1>2, <1>3, <1>4, StorageAssumption

\* A read of a range inside the file meets no chunk it cannot read, and puts the bytes of
\* the range together.
LEMMA ReadCutsRange ==
  ASSUME LayoutInv, NEW f \in File, NEW offset \in Nat, NEW amount \in Nat \ {0},
         offset + amount <= Len(Bytes(f))
  PROVE  /\ \A p \in Range(Pieces(offset, amount)) : ChunkReadable(f, p.position)
         /\ FileReadAt(f, offset, amount) = SubSeq(Bytes(f), offset + 1, offset + amount)
<1> DEFINE pieces == Pieces(offset, amount)
           c == CHUNK_SIZE
           bytes(p) == LET d == CHOOSE d \in GetChunkIndex(f, p.position) : TRUE
                       IN SubSeq(storage[d], p.from + 1, p.from + p.size)
           all == Bytes(f)
           whole == SubSeq(all, offset + 1, offset + amount)
           size == files[f].allocated_size
<1>1. PICK n \in Nat \ {0} : \E at : Cover(offset, amount, pieces, n, at)
  BY PiecesCover
<1>2. PICK at : Cover(offset, amount, pieces, n, at)
  BY <1>1
<1>3. /\ all \in Seq(Cell) /\ size \in Nat /\ Len(all) = size * c /\ c \in Nat \ {0}
      /\ size * c \in Nat /\ Offset = 1 .. c
  BY BytesInChunks, StorageAssumption, ProductOrder DEF Offset
<1>4. FileReadAt(f, offset, amount) = FlattenSeq([i \in DOMAIN pieces |-> bytes(pieces[i])])
  BY DEF FileReadAt
<1>5. /\ pieces \in Seq(Piece) /\ Len(pieces) = n /\ DOMAIN pieces = 1 .. n
      /\ at \in [0 .. n -> Nat] /\ at[0] = 0 /\ at[n] = amount
  BY <1>2 DEF Cover
<1>6. ASSUME NEW i \in 1 .. n
      PROVE  /\ pieces[i].position \in Nat /\ pieces[i].from \in Nat /\ pieces[i].size \in Nat \ {0}
             /\ pieces[i].from + pieces[i].size <= c
             /\ at[i] = at[i - 1] + pieces[i].size
             /\ offset + at[i - 1] = pieces[i].position * c + pieces[i].from
             /\ at[i] \in Nat /\ at[i - 1] \in Nat /\ pieces[i].position * c \in Nat
  <2>1. pieces[i] \in Piece /\ at[i] \in Nat /\ at[i - 1] \in Nat
    BY <1>5
  <2>2. pieces[i].position \in Nat /\ pieces[i].from \in Nat /\ pieces[i].size \in Nat
    BY <2>1 DEF Piece
  <2>3. pieces[i].position * c \in Nat
    BY <1>3, <2>2, ProductOrder
  <2>4. QED
    BY <1>2, <2>1, <2>2, <2>3 DEF Cover
<1> HIDE DEF pieces, c, all, size
<1>7. \A i \in 1 .. n : at[i] <= amount
  <2>1. ASSUME NEW i \in 1 .. n PROVE at[i - 1] <= at[i]
    <3>1. /\ at[i] = at[i - 1] + pieces[i].size
          /\ at[i - 1] \in Nat /\ pieces[i].size \in Nat
      BY <1>6
    <3>2. QED
      BY <3>1
  <2>2. n \in Nat
    OBVIOUS
  <2>3. \A i \in 0 .. n : at[i] <= at[n]
    BY <1>5, <2>1, <2>2, MarksRise
  <2>4. QED
    BY <1>5, <2>3
<1>8. /\ whole \in Seq(Cell) /\ Len(whole) = amount
      /\ \A x \in 1 .. amount : whole[x] = all[offset + x]
  <2>1. \A x \in offset + 1 .. offset + amount : all[x] \in Cell
    BY <1>3 DEF all
  <2>2. QED
    BY <2>1, CutOut
<1> HIDE DEF whole
<1>9. ASSUME NEW i \in 1 .. n
      PROVE  /\ ChunkReadable(f, pieces[i].position)
             /\ bytes(pieces[i]) \in Seq(Cell)
             /\ Len(bytes(pieces[i])) = pieces[i].size
             /\ \A b \in 1 .. pieces[i].size : whole[at[i - 1] + b] = bytes(pieces[i])[b]
  <2> DEFINE position == pieces[i].position
             from == pieces[i].from
             amt == pieces[i].size
             before == at[i - 1]
  <2>1. /\ position \in Nat /\ from \in Nat /\ amt \in Nat \ {0} /\ from + amt <= c
        /\ before \in Nat /\ before + amt <= amount
        /\ offset + before = position * c + from /\ position * c \in Nat
    BY <1>6, <1>7
  <2>2. bytes(pieces[i]) = LET d == CHOOSE d \in GetChunkIndex(f, position) : TRUE
                           IN SubSeq(storage[d], from + 1, from + amt)
    OBVIOUS
  <2> HIDE DEF position, from, amt, before
  <2>3. position < size
    <3>1. from + amt \in 1 .. c /\ position * c + (from + amt) <= size * c
      BY <1>3, <2>1 DEF all
    <3>2. QED
      BY <1>3, <2>1, <3>1, ProductOrder
  <2>4. ChunkReadable(f, position)
    BY <2>1, <2>3, ChunkAtPosition DEF size
  <2>5. PICK d \in Owned(f) :
          /\ GetChunkIndex(f, position) = {d}
          /\ \A b \in Offset : all[position * c + b] = storage[d][b]
    BY <2>1, <2>3, ChunkAtPosition DEF size, all, c
  <2>6. storage[d] \in [1 .. c -> Cell]
    <3>1. d \in Chunk /\ storage \in [Chunk -> [Offset -> Cell]]
      BY OwnedInChunks DEF LayoutInv, StorageTypeOK, Cell
    <3>2. QED
      BY <1>3, <3>1
  <2>7. bytes(pieces[i]) = SubSeq(storage[d], from + 1, from + amt)
    <3>1. (CHOOSE x \in {d} : TRUE) = d
      OBVIOUS
    <3>2. QED
      BY <2>2, <2>5, <3>1
  <2>8. /\ bytes(pieces[i]) \in Seq(Cell) /\ Len(bytes(pieces[i])) = amt
        /\ \A b \in 1 .. amt : bytes(pieces[i])[b] = storage[d][from + b]
    <3>1. \A x \in from + 1 .. from + amt : storage[d][x] \in Cell
      BY <1>3, <2>1, <2>6
    <3>2. /\ SubSeq(storage[d], from + 1, from + amt) \in Seq(Cell)
          /\ Len(SubSeq(storage[d], from + 1, from + amt)) = amt
          /\ \A b \in 1 .. amt : SubSeq(storage[d], from + 1, from + amt)[b] = storage[d][from + b]
      BY <2>1, <3>1, CutOut
    <3>3. QED
      BY <2>7, <3>2
  <2> HIDE DEF bytes
  <2>9. ASSUME NEW b \in 1 .. amt PROVE whole[before + b] = bytes(pieces[i])[b]
    <3>1. before + b \in 1 .. amount /\ from + b \in Offset
          /\ offset + (before + b) = position * c + (from + b)
      BY <1>3, <2>1
    <3>2. whole[before + b] = all[position * c + (from + b)]
      BY <1>8, <3>1
    <3>3. QED
      BY <2>5, <2>8, <3>1, <3>2
  <2>10. QED
    BY <2>4, <2>8, <2>9 DEF position, amt, before
<1>10. \A p \in Range(pieces) : ChunkReadable(f, p.position)
  BY <1>5, <1>9 DEF Range
<1> DEFINE parts == [i \in 1 .. n |-> bytes(pieces[i])]
<1> HIDE DEF bytes
<1>11. FlattenSeq(parts) = whole
  <2>1. parts \in [1 .. n -> Seq(Cell)] /\ \A i \in 1 .. n : parts[i] = bytes(pieces[i])
    BY <1>9
  <2> HIDE DEF parts
  <2>2. ASSUME NEW i \in 1 .. n PROVE at[i] = at[i - 1] + Len(parts[i])
    <3>1. Len(parts[i]) = pieces[i].size
      BY <1>9, <2>1
    <3>2. at[i] = at[i - 1] + pieces[i].size
      BY <1>6
    <3>3. QED
      BY <3>1, <3>2
  <2>3. ASSUME NEW i \in 1 .. n, NEW b \in 1 .. Len(parts[i])
        PROVE  whole[at[i - 1] + b] = parts[i][b]
    <3>1. parts[i] = bytes(pieces[i]) /\ Len(parts[i]) = pieces[i].size
      BY <1>9, <2>1
    <3>2. b \in 1 .. pieces[i].size
      BY <3>1
    <3>3. whole[at[i - 1] + b] = bytes(pieces[i])[b]
      BY <1>9, <3>2
    <3>4. QED
      BY <3>1, <3>3
  <2>4. n \in Nat /\ Len(whole) = at[n]
    BY <1>5, <1>8
  <2>5. at \in [0 .. n -> Nat] /\ at[0] = 0 /\ whole \in Seq(Cell)
    BY <1>5, <1>8
  <2>6. QED
    BY <2>1, <2>2, <2>3, <2>4, <2>5, FlattenIs
<1>12. QED
  BY <1>4, <1>5, <1>10, <1>11 DEF pieces, whole, all

\* A read that would go past the end of the file stops at a chunk the file does not have,
\* whatever the sum in its bounds test is.
LEMMA ReadStopsAtEnd ==
  ASSUME LayoutInv, NEW f \in File, NEW offset \in Nat, NEW amount \in Nat \ {0},
         offset + amount > Len(Bytes(f))
  PROVE  ReadStatus(f, offset, amount) # "SUCCESS"
<1> DEFINE pieces == Pieces(offset, amount)
           c == CHUNK_SIZE
           size == files[f].allocated_size
<1>1. PICK n \in Nat \ {0} : \E at : Cover(offset, amount, pieces, n, at)
  BY PiecesCover
<1>2. PICK at : Cover(offset, amount, pieces, n, at)
  BY <1>1
<1> DEFINE last == pieces[n]
<1>3. /\ size \in Nat /\ size * c \in Nat /\ offset + amount > size * c /\ c \in Nat \ {0}
  <2>1. size \in Nat /\ c \in Nat \ {0} /\ Len(Bytes(f)) = size * c
    BY BytesInChunks, StorageAssumption
  <2>2. size * c \in Nat
    BY <2>1, ProductOrder
  <2>3. QED
    BY <2>1, <2>2
<1>4. /\ last \in Range(pieces)
      /\ last.position \in Nat
      /\ offset + amount = last.position * c + (last.from + last.size)
      /\ last.from + last.size \in 1 .. c
  <2>1. /\ pieces \in Seq(Piece) /\ Len(pieces) = n /\ n \in 1 .. n /\ n - 1 \in 0 .. n
        /\ at \in [0 .. n -> Nat] /\ at[n] = amount
        /\ last.size # 0 /\ last.from + last.size <= c
        /\ at[n] = at[n - 1] + last.size
        /\ offset + at[n - 1] = last.position * c + last.from
    BY <1>2 DEF Cover
  <2>2. last \in Piece /\ at[n - 1] \in Nat /\ last \in Range(pieces)
    BY <2>1 DEF Range
  <2>3. last.position \in Nat /\ last.from \in Nat /\ last.size \in Nat
    BY <2>2 DEF Piece
  <2>4. last.position * c \in Nat
    BY <1>3, <2>3, ProductOrder
  <2>5. PICK p \in Nat, a \in Nat, k \in Nat, before \in Nat :
          /\ p = last.position /\ a = last.from /\ k = last.size /\ before = at[n - 1]
    BY <2>2, <2>3
  <2>6. /\ k # 0 /\ a + k <= c /\ amount = before + k /\ offset + before = p * c + a
        /\ p * c \in Nat
    BY <2>1, <2>4, <2>5
  <2> HIDE DEF last, c
  <2>7. a + k \in 1 .. c /\ offset + amount = p * c + (a + k)
    BY <1>3, <2>6
  <2>8. QED
    BY <2>2, <2>3, <2>5, <2>7
<1> HIDE DEF last, size, c
<1>5. ~(last.position < size)
  <2>1. last.position < size => last.position * c + (last.from + last.size) <= size * c
    BY <1>3, <1>4, ProductOrder
  <2>2. QED
    BY <1>3, <1>4, <2>1
<1>6. ~ChunkReadable(f, last.position)
  BY <1>5 DEF ChunkReadable, GetChunkIndex, size
<1>7. QED
  BY <1>4, <1>6 DEF ReadStatus

\* Inside the file, the sum of the bounds test does not wrap and every test is passed.
LEMMA ReadInsideSucceeds ==
  ASSUME LayoutInv, NEW f \in File, NEW offset \in Nat, NEW amount \in 1 .. BUFFER_SIZE,
         offset + amount <= Len(Bytes(f))
  PROVE  ReadStatus(f, offset, amount) = "SUCCESS"
<1> DEFINE size == files[f].allocated_size
<1>1. /\ size \in 0 .. CHUNKS_AMOUNT /\ CHUNKS_AMOUNT \in Nat /\ CHUNK_SIZE \in Nat \ {0}
      /\ Len(Bytes(f)) = size * CHUNK_SIZE
      /\ SIZE_MODULUS \in Nat /\ BUFFER_SIZE \in Nat
      /\ SIZE_MODULUS > CHUNKS_AMOUNT * CHUNK_SIZE + BUFFER_SIZE
  BY BytesInChunks, StorageAssumption, FileReadsAssumption
<1>2. /\ size * CHUNK_SIZE \in Nat /\ CHUNKS_AMOUNT * CHUNK_SIZE \in Nat
      /\ size * CHUNK_SIZE <= CHUNKS_AMOUNT * CHUNK_SIZE
  BY <1>1, ProductOrder
<1>3. PICK sum \in 0 .. SIZE_MODULUS - 1 : sum = offset + amount /\ SIZE_MODULUS \in Nat \ {0}
                                          /\ sum <= size * CHUNK_SIZE
  <2>1. offset + amount \in 0 .. SIZE_MODULUS - 1 /\ SIZE_MODULUS \in Nat \ {0}
    BY <1>1, <1>2
  <2>2. QED
    BY <1>1, <2>1
<1>4. sum % SIZE_MODULUS = sum
  <2>1. (0 * SIZE_MODULUS + sum) % SIZE_MODULUS = sum
    BY <1>3, DivModIs
  <2>2. 0 * SIZE_MODULUS + sum = sum
    BY <1>3
  <2>3. QED
    BY <2>1, <2>2, Zenon
<1>5. ~((offset + amount) % SIZE_MODULUS > size * CHUNK_SIZE)
  <2>1. (offset + amount) % SIZE_MODULUS = sum
    BY <1>3, <1>4, Zenon
  <2>2. QED
    BY <1>2, <1>3, <2>1
<1>6. amount \in Nat \ {0} /\ ~(BUFFER_SIZE < amount)
  BY <1>1
<1>7. \A p \in Range(Pieces(offset, amount)) : ChunkReadable(f, p.position)
  BY <1>6, ReadCutsRange
<1>8. QED
  BY <1>5, <1>6, <1>7 DEF ReadStatus

\* cat prints a file unless its buffer is too small for the whole of it.
LEMMA ReadAllWhenItFits ==
  ASSUME LayoutInv, NEW f \in File
  PROVE  ReadAllStatus(f) = "SUCCESS" <=> Len(Bytes(f)) <= BUFFER_SIZE
<1> DEFINE size == files[f].allocated_size * CHUNK_SIZE
<1>1. Len(Bytes(f)) = size /\ size \in Nat /\ BUFFER_SIZE \in Nat
  BY BytesInChunks, FileReadsAssumption
<1>2. ReadAllStatus(f) = IF BUFFER_SIZE < size THEN "INSUFFICIENT_ARRAY_PASSED"
                         ELSE IF size = 0 THEN "SUCCESS"
                         ELSE ReadStatus(f, 0, size)
  BY DEF ReadAllStatus
<1> HIDE DEF size
<1>3. CASE BUFFER_SIZE < size
  BY <1>1, <1>2, <1>3
<1>4. CASE ~(BUFFER_SIZE < size) /\ size = 0
  BY <1>1, <1>2, <1>4
<1>5. CASE ~(BUFFER_SIZE < size) /\ size # 0
  <2>1. size \in 1 .. BUFFER_SIZE /\ 0 + size <= Len(Bytes(f)) /\ 0 \in Nat
    BY <1>1, <1>5
  <2>2. ReadStatus(f, 0, size) = "SUCCESS"
    BY <2>1, ReadInsideSucceeds
  <2>3. QED
    BY <1>1, <1>2, <1>5, <2>2
<1>6. QED
  BY <1>3, <1>4, <1>5

-----------------------------------------------------------------------------
(* The bytes of the chunks, and how far an operation is *)

LEMMA DataInitially == Init => DataInv
<1>1. Init => IInv
  BY InitEstablishes
<1>2. ASSUME Init PROVE BytesWritten /\ ProgressInv
  <2>1. call = Idle
    BY <1>2 DEF Init
  <2>2. \A f \in File, i \in Index : ~Occupied(f, i)
    BY <1>2 DEF Init, FilesInit, Occupied, Extent, EmptyExtent
  <2>3. \A f \in File : Owned(f) = {}
    BY <2>2 DEF Owned
  <2>4. QED
    BY <2>1, <2>3 DEF BytesWritten, ProgressInv, Idle
<1>3. QED
  BY <1>1, <1>2 DEF DataInv

\* A step that takes no chunk and leaves only bytes in the chunks it writes.
LEMMA BytesStayWritten ==
  ASSUME BytesWritten, call.op # "append",
         \A f \in File : Owned(f)' \subseteq Owned(f),
         \A f \in File : \A c \in Owned(f) :
           storage[c] \in [Offset -> Byte] => storage'[c] \in [Offset -> Byte]
  PROVE  BytesWritten'
<1>1. \A f \in File : \A c \in Owned(f) : storage'[c] \in [Offset -> Byte]
  BY DEF BytesWritten
<1>2. QED
  BY <1>1 DEF BytesWritten

LEMMA SameFiles ==
  ASSUME UNCHANGED files
  PROVE  /\ \A f : Owned(f)' = Owned(f)
         /\ \A f, i : Occupied(f, i)' = Occupied(f, i) /\ Extent(f, i)' = Extent(f, i)
                      /\ ExtentSpan(f, i)' = ExtentSpan(f, i)
BY DEF Owned, Extent, Occupied, ExtentSpan

LEMMA AppendStartKeepsData ==
  ASSUME DataInv, NEW f \in File, NEW data \in Data, AppendStart(f, data)
  PROVE  BytesWritten' /\ ProgressInv'
<1> USE FileStorageAssumption, FileLogicAssumption
<1> DEFINE amount == ChunksAmount(Len(data))
<1>1. PICK i \in Index, start \in Chunk :
        /\ FirstEmptyExtent(f, i)
        /\ FileAllocateChunks(f, i, amount, start)
        /\ call' = [op |-> "append", file |-> f, data |-> data, extent |-> i, written |-> 0]
  BY DEF AppendStart
<1>2. Len(data) \in Nat \ {0}
  BY DEF AppendStart, AppendStatus
<1>3. amount \in Nat \ {0}
  BY <1>2, ChunksAmountPositive
<1> HIDE DEF amount
<1>4. /\ LayoutInv' /\ Occupied(f, i)'
      /\ Owned(f)' = Owned(f) \cup Span(start, amount)
      /\ \A g \in File \ {f} : Owned(g)' = Owned(g)
  BY <1>1, <1>3, AllocateKeepsLayout DEF DataInv, IInv
<1>5. /\ Extent(f, i)' = [is_empty |-> FALSE, start |-> start, chunk_amount |-> amount]
      /\ \A j \in Index : j # i => Occupied(f, j)' = Occupied(f, j)
      /\ storage' = storage
  BY <1>1 DEF FileAllocateChunks, Challoc, Extent, Occupied, DataInv, IInv, LayoutInv, FilesTypeOK
<1>6. /\ call'.op = "append" /\ call'.file = f /\ call'.extent = i /\ call'.written = 0
  BY <1>1
<1>7. Unwritten' = Span(start, amount)
  <2>1. start \in Nat /\ start + 0 = start /\ amount - 0 = amount
    BY <1>3 DEF Chunk
  <2>2. Unwritten' = Span(start + 0, amount - 0)
    BY <1>5, <1>6 DEF Unwritten, CurChunk
  <2>3. QED
    BY <2>1, <2>2, Zenon
<1>8. BytesWritten'
  <2>1. \A g \in File : \A c \in Owned(g) : storage'[c] \in [Offset -> Byte]
    BY <1>5 DEF AppendStart, DataInv, BytesWritten, Idle
  <2>2. ASSUME NEW g \in File, NEW c \in Owned(g)'
        PROVE  \/ storage'[c] \in [Offset -> Byte]
               \/ call'.op = "append" /\ c \in Unwritten'
    BY <1>4, <1>6, <1>7, <2>1
  <2>3. QED
    BY <2>2 DEF BytesWritten
<1>9. LastExtent(f, i)'
  <2>1. \A j \in 0 .. i : Occupied(f, j)'
    <3>1. \A j \in 0 .. i : j # i => j \in 0 .. i - 1 /\ j \in Index
      BY DEF Index, LastIndex
    <3>2. QED
      BY <1>1, <1>4, <1>5, <3>1 DEF FirstEmptyExtent
  <2>2. i < LastIndex => ~Occupied(f, i + 1)'
    <3>1. i < LastIndex => i + 1 \in Index /\ i + 1 # i /\ i < i + 1
      BY DEF Index, LastIndex
    <3>2. QED
      BY <1>1, <1>5, <3>1 DEF FirstEmptyExtent, DataInv, IInv, LayoutInv, ExtentsCompact
  <2>3. QED
    BY <2>1, <2>2 DEF LastExtent
<1>10. QED
  BY <1>6, <1>8, <1>9 DEF ProgressInv

\* What a step of an append changes: one chunk, the next of its extent.
LEMMA AppendWrites ==
  ASSUME DataInv, AppendWrite
  PROVE  /\ call \in AppendCall
         /\ CurChunk \in ExtentSpan(call.file, call.extent) /\ CurChunk \in Owned(call.file)
         /\ storage' = [storage EXCEPT ![CurChunk] = Block(call.data, call.written)]
         /\ storage'[CurChunk] = Block(call.data, call.written)
         /\ UNCHANGED <<allocation_map, free_chunk_count, files>>
         /\ IF call.written + 1 = ChunksAmount(Len(call.data))
            THEN Return("SUCCESS")
            ELSE call' = [call EXCEPT !.written = @ + 1] /\ UNCHANGED status
         /\ Occupied(call.file, call.extent)
         /\ Extent(call.file, call.extent).start \in Nat
         /\ Extent(call.file, call.extent).chunk_amount = ChunksAmount(Len(call.data))
         /\ ChunksAmount(Len(call.data)) \in Nat
         /\ call.written \in Nat /\ call.written < ChunksAmount(Len(call.data))
<1>1. /\ call.op = "append" /\ call \in AppendCall /\ WriteAllowed
      /\ CurChunk \in ExtentSpan(call.file, call.extent)
  BY OwnWritesAllowed DEF AppendWrite, DataInv
<1>2. /\ Occupied(call.file, call.extent) /\ call.written < ChunksAmount(Len(call.data))
      /\ Extent(call.file, call.extent).chunk_amount = ChunksAmount(Len(call.data))
  BY <1>1 DEF DataInv, IInv, CallInv
<1>3. call.file \in File /\ call.extent \in Index /\ call.written \in Nat
  BY <1>1 DEF AppendCall
<1>4. /\ Extent(call.file, call.extent).start \in Nat
      /\ Extent(call.file, call.extent).chunk_amount \in Nat
  BY <1>3 DEF DataInv, IInv, LayoutInv, FilesTypeOK, Extent, ChunkExtent
<1>5. CurChunk \in Owned(call.file)
  BY <1>1, <1>2, <1>3, OwnedMember
<1>6. /\ storage' = [storage EXCEPT ![CurChunk] = Block(call.data, call.written)]
      /\ UNCHANGED <<allocation_map, free_chunk_count, files>>
      /\ IF call.written + 1 = ChunksAmount(Len(call.data))
         THEN Return("SUCCESS")
         ELSE call' = [call EXCEPT !.written = @ + 1] /\ UNCHANGED status
  BY <1>1 DEF AppendWrite, Chwrite
<1>7. CurChunk \in Chunk /\ storage \in [Chunk -> [Offset -> Byte \cup {Uninitialised}]]
  BY <1>3, <1>5, OwnedInChunks DEF DataInv, IInv, LayoutInv, StorageTypeOK
<1>8. QED
  BY <1>1, <1>2, <1>3, <1>4, <1>5, <1>6, <1>7

LEMMA AppendWriteKeepsData ==
  ASSUME DataInv, AppendWrite
  PROVE  BytesWritten' /\ ProgressInv'
<1> USE FileLogicAssumption
<1>0. PICK f, i, start, amount, w, data, block :
        /\ f = call.file /\ i = call.extent /\ w = call.written /\ data = call.data
        /\ start = Extent(f, i).start /\ amount = Extent(f, i).chunk_amount
        /\ block = Block(data, w)
  OBVIOUS
<1>1. /\ call \in AppendCall /\ CurChunk \in Owned(f) /\ CurChunk = start + w
      /\ storage' = [storage EXCEPT ![CurChunk] = block] /\ storage'[CurChunk] = block
      /\ UNCHANGED files
      /\ IF w + 1 = amount THEN Return("SUCCESS")
         ELSE call' = [call EXCEPT !.written = w + 1]
      /\ start \in Nat /\ amount \in Nat /\ w \in Nat /\ w < amount
  BY <1>0, AppendWrites DEF CurChunk
<1>2. /\ \A g : Owned(g)' = Owned(g)
      /\ \A g, j : Occupied(g, j)' = Occupied(g, j) /\ Extent(g, j)' = Extent(g, j)
  BY <1>1, SameFiles
<1>3. block \in [Offset -> Byte]
  BY <1>0, <1>1, BlockBytes DEF AppendCall
<1>4. storage \in [Chunk -> [Offset -> Byte \cup {Uninitialised}]] /\ call.op = "append"
      /\ \A g \in File : Owned(g) \subseteq Chunk
  BY <1>0, <1>1, OwnedInChunks DEF DataInv, IInv, LayoutInv, StorageTypeOK, AppendCall
<1>5. Unwritten = Span(start + w, amount - w)
  BY <1>0, <1>1 DEF Unwritten
<1>6. /\ \A j \in Index : j \in 0 .. LastIndex
      /\ LastExtent(f, i)
      /\ \A k \in 0 .. w - 1 : storage[start + k] = Block(data, k)
  BY <1>0, <1>4 DEF DataInv, ProgressInv, Index
<1>7. ASSUME NEW g \in File, NEW c \in Owned(g), c \notin Span(start + w + 1, amount - w - 1)
      PROVE  storage'[c] \in [Offset -> Byte]
  <2>1. CASE c = CurChunk
    BY <1>1, <1>3, <2>1
  <2>2. CASE c # CurChunk
    <3>1. storage'[c] = storage[c]
      BY <1>1, <1>4, <2>2
    <3>2. c \notin Unwritten
      <4>1. c \in Unwritten => c = start + w \/ c \in Span(start + w + 1, amount - w - 1)
        BY <1>1, <1>5 DEF Span
      <4>2. QED
        BY <1>1, <1>7, <2>2, <4>1
    <3>3. QED
      BY <3>1, <3>2 DEF DataInv, BytesWritten
  <2>3. QED
    BY <2>1, <2>2
<1>8. CASE w + 1 = amount
  <2>1. call' = Idle
    BY <1>1, <1>8 DEF Return
  <2>2. Span(start + w + 1, amount - w - 1) = {}
    BY <1>1, <1>8 DEF Span
  <2>3. BytesWritten'
    BY <1>2, <1>7, <2>2 DEF BytesWritten
  <2>4. QED
    BY <2>1, <2>3 DEF ProgressInv, Idle
<1>9. CASE w + 1 # amount
  <2>1. /\ call'.op = "append" /\ call'.file = f /\ call'.extent = i /\ call'.data = data
        /\ call'.written = w + 1
    BY <1>0, <1>1, <1>9 DEF AppendCall
  <2>2. Unwritten' = Span(start + w + 1, amount - w - 1)
    <3>1. Unwritten' = Span(start + (w + 1), amount - (w + 1))
      BY <1>0, <1>2, <2>1 DEF Unwritten, CurChunk
    <3>2. start + (w + 1) = start + w + 1 /\ amount - (w + 1) = amount - w - 1
      BY <1>1
    <3>3. QED
      BY <3>1, <3>2, Zenon
  <2>3. BytesWritten'
    BY <1>2, <1>7, <2>1, <2>2 DEF BytesWritten
  <2>4. LastExtent(f, i)'
    BY <1>2, <1>6 DEF LastExtent
  <2>5. ASSUME NEW k \in 0 .. w PROVE storage'[start + k] = Block(data, k)
    <3>1. CASE k = w
      BY <1>0, <1>1, <3>1
    <3>2. CASE k # w
      <4>1. k \in 0 .. w - 1 /\ start + k # CurChunk
        BY <1>1, <3>2
      <4>2. storage'[start + k] = storage[start + k]
        BY <1>1, <4>1
      <4>3. QED
        BY <1>6, <4>1, <4>2
    <3>3. QED
      BY <3>1, <3>2
  <2>6. w + 1 - 1 = w /\ Extent(f, i)'.start = start
    BY <1>0, <1>1, <1>2
  <2>7. /\ LastExtent(call.file, call.extent)'
        /\ Extent(call.file, call.extent)'.start = start
    BY <2>1, <2>4, <2>6 DEF LastExtent, Occupied, Extent
  <2>8. \A k \in 0 .. call'.written - 1 :
          storage'[Extent(call.file, call.extent)'.start + k] = Block(call'.data, k)
    <3>1. call'.written - 1 = w /\ call'.data = data
      <4>1. call'.written = w + 1 /\ call'.data = data /\ w \in Nat
        BY <1>1, <2>1
      <4>2. QED
        BY <4>1
    <3>2. \A k \in 0 .. w :
            storage'[Extent(call.file, call.extent)'.start + k] = Block(data, k)
      BY <2>5, <2>7, Zenon
    <3>3. QED
      BY <3>1, <3>2, Zenon
  <2>9. QED
    BY <2>1, <2>3, <2>7, <2>8 DEF ProgressInv, Block
<1>10. QED
  BY <1>8, <1>9

LEMMA TruncateStartKeepsData ==
  ASSUME DataInv, NEW f \in File, NEW amount \in Amount, TruncateStart(f, amount)
  PROVE  BytesWritten' /\ ProgressInv'
<1>1. PICK i \in Index :
        /\ LastExtent(f, i)
        /\ call' = [op |-> "truncate", file |-> f, amount |-> amount, extent |-> i,
                    deleted_chunks_count |-> 0]
  BY DEF TruncateStart
<1>2. /\ call = Idle /\ UNCHANGED <<storage, files>>
      /\ ~(amount > files[f].allocated_size * CHUNK_SIZE)
  BY DEF TruncateStart, TruncateStatus, storageVars
<1>3. \A g : Owned(g)' = Owned(g)
  BY <1>2, SameFiles
<1>4. BytesWritten'
  BY <1>2, <1>3, BytesStayWritten DEF DataInv, Idle
<1> DEFINE size == files[f].allocated_size
           full == amount \div CHUNK_SIZE
           rest == amount % CHUNK_SIZE
<1>5. /\ size \in Nat /\ amount \in Nat /\ CHUNK_SIZE \in Nat \ {0}
      /\ full \in Nat /\ rest \in 0 .. CHUNK_SIZE - 1 /\ amount = full * CHUNK_SIZE + rest
  <2>1. size \in Nat /\ amount \in Nat /\ CHUNK_SIZE \in Nat \ {0}
    BY FileLogicAssumption, StorageAssumption DEF DataInv, IInv, LayoutInv, FilesTypeOK
  <2>2. QED
    BY <2>1, DivMod
<1> HIDE DEF full, rest, size
<1>6. full <= size /\ (full = size => rest = 0)
  <2>1. /\ full <= size <=> full * CHUNK_SIZE <= size * CHUNK_SIZE
        /\ full * CHUNK_SIZE \in Nat /\ size * CHUNK_SIZE \in Nat
    BY <1>5, ProductOrder
  <2>2. QED
    BY <1>2, <1>5, <2>1 DEF size
<1>7. /\ call'.op = "truncate" /\ call'.file = f /\ call'.extent = i /\ call'.amount = amount
      /\ call'.deleted_chunks_count = 0 /\ i # -1
  BY <1>1, FileStorageAssumption DEF Index
<1>8. FullChunks' = full /\ files'[f].allocated_size + 0 = size
  BY <1>2, <1>5, <1>7 DEF FullChunks, full, size
<1>9. QED
  BY <1>4, <1>6, <1>7, <1>8 DEF ProgressInv, rest

\* What truncate counts when the last extent goes.
LEMMA TruncateWholeKeepsData ==
  ASSUME DataInv, TruncateWholeExtent
  PROVE  BytesWritten' /\ ProgressInv'
<1> USE FileStorageAssumption
<1>1. call \in TruncateCall /\ call.op = "truncate" /\ call.extent >= 0 /\ GoesWhole
  BY DEF TruncateWholeExtent, DataInv, IInv, Call, Idle, AppendCall, TruncateCall, DeleteCall
<1>2. PICK f \in File, i \in Index, amount \in Nat :
        f = call.file /\ i = call.extent /\ amount = Extent(f, i).chunk_amount
  <2>1. call.file \in File /\ call.extent \in Index
    BY <1>1 DEF TruncateCall, Index, LastIndex
  <2>2. Extent(call.file, call.extent).chunk_amount \in Nat
    BY <2>1 DEF DataInv, IInv, LayoutInv, FilesTypeOK, Extent, ChunkExtent
  <2>3. QED
    BY <2>1, <2>2
<1>3. LastExtent(f, i) /\ call.deleted_chunks_count \in Nat
  BY <1>1, <1>2 DEF DataInv, IInv, CallInv, TruncateCall
<1>4. Occupied(f, i) /\ (i < LastIndex => ~Occupied(f, i + 1))
  BY <1>3 DEF LastExtent, Index
<1>5. FileFreeChunkExtent(f, i) /\ UNCHANGED storage
  BY <1>2 DEF TruncateWholeExtent, FileFreeChunkExtent
<1>6. /\ \A j \in Index : j >= i => (Occupied(f, j)' <=> j < LastIndex /\ Occupied(f, j + 1))
      /\ \A g \in File : Owned(g)' \subseteq Owned(g)
  BY <1>4, <1>5, FreeKeepsLayout DEF DataInv, IInv
<1>7. BytesWritten'
  BY <1>1, <1>5, <1>6, BytesStayWritten DEF DataInv
<1>8. /\ AmountAfterShift(f, i) = amount /\ amount \in Nat /\ files[f].allocated_size \in Nat
      /\ files'[f].allocated_size = files[f].allocated_size - amount
  BY <1>2, <1>4, <1>5
     DEF AmountAfterShift, FileFreeChunkExtent, DataInv, IInv, LayoutInv, FilesTypeOK, Extent,
         ChunkExtent
<1>9. /\ call'.op = "truncate" /\ call'.file = f /\ call'.extent = i - 1
      /\ call'.amount = call.amount
      /\ call'.deleted_chunks_count = call.deleted_chunks_count + amount
  <2>1. call' = [call EXCEPT !.extent = i - 1,
                             !.deleted_chunks_count = call.deleted_chunks_count + amount]
    BY <1>2, <1>8 DEF TruncateWholeExtent
  <2>2. QED
    BY <1>1, <1>2, <2>1 DEF TruncateCall
<1>10. FullChunks' = FullChunks
  BY <1>9 DEF FullChunks
<1>11. files'[f].allocated_size + call'.deleted_chunks_count
         = files[f].allocated_size + call.deleted_chunks_count
  BY <1>3, <1>8, <1>9
<1>12. i - 1 = -1 => \A j \in Index : ~Occupied(f, j)'
  <2>1. SUFFICES ASSUME i = 0, NEW j \in Index PROVE ~Occupied(f, j)'
    BY DEF Index
  <2>2. j < LastIndex => ~Occupied(f, j + 1)
    <3>1. ASSUME j < LastIndex, Occupied(f, j + 1) PROVE FALSE
      <4>1. 1 \in Index /\ j + 1 \in Index /\ 0 < LastIndex /\ i + 1 = 1 /\ (j + 1 = 1 \/ 1 < j + 1)
        BY <2>1, <3>1 DEF Index, LastIndex
      <4>2. ~Occupied(f, 1)
        BY <1>4, <2>1, <4>1
      <4>3. QED
        BY <3>1, <4>1, <4>2 DEF DataInv, IInv, LayoutInv, ExtentsCompact
    <3>2. QED
      BY <3>1
  <2>3. j >= i
    BY <2>1 DEF Index
  <2>4. QED
    BY <1>6, <2>2, <2>3
<1>13. /\ FullChunks <= files[f].allocated_size + call.deleted_chunks_count
       /\ FullChunks = files[f].allocated_size + call.deleted_chunks_count
            => call.amount % CHUNK_SIZE = 0
  BY <1>1, <1>2 DEF DataInv, ProgressInv
<1>14. QED
  BY <1>7, <1>9, <1>10, <1>11, <1>12, <1>13 DEF ProgressInv

\* The last step of a truncation: rest chunks of extent i go, and the one before them is
\* blanked at its end.
LEMMA TruncateCuts ==
  ASSUME DataInv, TruncateTail
  PROVE  /\ call \in TruncateCall /\ call.file \in File /\ call.extent \in Index
         /\ Occupied(call.file, call.extent) /\ LastExtent(call.file, call.extent)
         /\ FullChunks \in Nat /\ call.deleted_chunks_count \in Nat
         /\ FullChunks - call.deleted_chunks_count \in Nat
         /\ FullChunks - call.deleted_chunks_count < Extent(call.file, call.extent).chunk_amount
         /\ Extent(call.file, call.extent).chunk_amount \in Nat
         /\ Extent(call.file, call.extent).start \in Nat
         /\ FileTruncateChunkExtent(call.file, call.extent,
                                    FullChunks - call.deleted_chunks_count)
         /\ Chtrunc(Extent(call.file, call.extent).start
                      + Extent(call.file, call.extent).chunk_amount
                      - (FullChunks - call.deleted_chunks_count) - 1,
                    call.amount % CHUNK_SIZE)
         /\ Return("SUCCESS")
<1>1. call.op = "truncate" /\ call.extent >= 0 /\ ~GoesWhole /\ IInv
  BY DEF TruncateTail, DataInv
<1>2. /\ call.file \in File /\ call.extent \in Index
      /\ Occupied(call.file, call.extent)
      /\ FullChunks - call.deleted_chunks_count \in Nat
      /\ FullChunks - call.deleted_chunks_count < Extent(call.file, call.extent).chunk_amount
  BY <1>1, TailFits
<1>3. call \in TruncateCall
  BY <1>1 DEF IInv, Call, Idle, AppendCall, TruncateCall, DeleteCall
<1>4. call.deleted_chunks_count \in Nat /\ call.amount \in Nat
  BY <1>3, FileLogicAssumption DEF TruncateCall
<1>5. FullChunks \in Nat
  BY <1>4, StorageAssumption, DivMod DEF FullChunks
<1>6. /\ Extent(call.file, call.extent).chunk_amount \in Nat
      /\ Extent(call.file, call.extent).start \in Nat
  BY <1>1, <1>2 DEF IInv, LayoutInv, FilesTypeOK, Extent, ChunkExtent
<1>7. LastExtent(call.file, call.extent)
  BY <1>1 DEF IInv, CallInv
<1>8. QED
  BY <1>2, <1>3, <1>4, <1>5, <1>6, <1>7 DEF TruncateTail

LEMMA TruncateTailKeepsData ==
  ASSUME DataInv, TruncateTail
  PROVE  BytesWritten' /\ ProgressInv'
<1>0. PICK f \in File, i \in Index, rest \in Nat :
        /\ FileTruncateChunkExtent(f, i, rest) /\ \E chunk, n : Chtrunc(chunk, n)
        /\ Occupied(f, i) /\ rest < Extent(f, i).chunk_amount
  BY TruncateCuts
<1>1. PICK chunk, n :
        /\ FileTruncateChunkExtent(f, i, rest) /\ Chtrunc(chunk, n)
        /\ Occupied(f, i) /\ rest < Extent(f, i).chunk_amount
  BY <1>0
<1>2. call.op = "truncate" /\ call' = Idle
  BY DEF TruncateTail, Return
<1>3. storage \in [Chunk -> [Offset -> Byte \cup {Uninitialised}]]
  BY DEF DataInv, IInv, LayoutInv, StorageTypeOK
<1>4. storage' \in [Chunk -> [Offset -> Byte \cup {Uninitialised}]]
  BY <1>1, <1>3, StorageAssumption DEF Chtrunc
<1>5. \A g \in File : Owned(g)' \subseteq Owned(g)
  BY <1>1, <1>4, ShortenKeepsLayout DEF DataInv, IInv
<1>6. ASSUME NEW g \in File, NEW c \in Owned(g), storage[c] \in [Offset -> Byte]
      PROVE  storage'[c] \in [Offset -> Byte]
  <2>1. c \in Chunk
    BY OwnedInChunks DEF DataInv, IInv, LayoutInv
  <2>2. QED
    BY <1>1, <1>3, <1>6, <2>1, StorageAssumption DEF Chtrunc
<1>7. BytesWritten'
  BY <1>2, <1>5, <1>6, BytesStayWritten DEF DataInv
<1>8. QED
  BY <1>2, <1>7 DEF ProgressInv, Idle

LEMMA DeleteKeepsData ==
  ASSUME DataInv, DeleteExtent \/ DeleteSkipEmpty
  PROVE  BytesWritten' /\ ProgressInv'
<1>1. call.op = "delete" /\ Continue /\ IInv /\ UNCHANGED storage
  BY DEF DeleteExtent, DeleteSkipEmpty, Continue, DataInv, FileFreeChunkExtent, storageVars
<1>2. call \in DeleteCall
  BY <1>1 DEF IInv, Call, Idle, AppendCall, TruncateCall
<1>3. PICK f \in File : f = call.file /\ call.extent \in Index
  BY <1>2 DEF DeleteCall
<1>4. /\ call' = Idle => \A i \in Index : ~Occupied(f, i)'
      /\ call' # Idle => \A i \in 0 .. call'.extent - 1 : ~Occupied(f, i)'
  BY <1>1, <1>3, DeleteEmpties DEF DataInv, ProgressInv
<1>5. \A g \in File : Owned(g)' \subseteq Owned(g)
  <2>1. CASE DeleteExtent
    <3>1. FileFreeChunkExtent(f, call.extent) /\ Occupied(f, call.extent)
      BY <1>3, <2>1 DEF DeleteExtent
    <3>2. QED
      BY <1>1, <1>3, <3>1, FreeKeepsLayout DEF IInv
  <2>2. CASE DeleteSkipEmpty
    BY <2>2, SameFiles DEF DeleteSkipEmpty
  <2>3. QED
    BY <2>1, <2>2
<1>6. BytesWritten'
  BY <1>1, <1>5, BytesStayWritten DEF DataInv
<1>7. call'.op \in {"idle", "delete"} /\ (call' # Idle => call'.op = "delete" /\ call'.file = f)
  BY <1>2, <1>3 DEF DeleteExtent, DeleteSkipEmpty, Return, Idle, DeleteCall
<1>8. call' = Idle => call'.op = "idle"
  BY DEF Idle
<1>9. QED
  BY <1>4, <1>6, <1>7, <1>8 DEF ProgressInv

LEMMA DataStep == DataInv /\ [Next]_vars => DataInv'
<1> SUFFICES ASSUME DataInv, [Next]_vars PROVE BytesWritten' /\ ProgressInv'
  BY StepPreserves DEF DataInv
<1>1. ASSUME NEW code, Refuse(code), call.op # "append" PROVE BytesWritten' /\ ProgressInv'
  <2>1. UNCHANGED <<storage, files>> /\ call' = Idle
    BY <1>1 DEF Refuse, Return, storageVars
  <2>2. \A g \in File : Owned(g)' \subseteq Owned(g)
    BY <2>1, SameFiles
  <2>3. BytesWritten'
    BY <1>1, <2>1, <2>2, BytesStayWritten DEF DataInv
  <2>4. QED
    BY <2>1, <2>3 DEF ProgressInv, Idle
<1>2. call = Idle => call.op # "append"
  BY DEF Idle
<1>3. ASSUME NEW f \in File, NEW data \in Data, AppendRefused(f, data)
      PROVE  BytesWritten' /\ ProgressInv'
  BY <1>1, <1>2, <1>3 DEF AppendRefused
<1>4. ASSUME NEW f \in File, NEW amount \in Amount, TruncateRefused(f, amount)
      PROVE  BytesWritten' /\ ProgressInv'
  BY <1>1, <1>2, <1>4 DEF TruncateRefused
<1>5. ASSUME TruncateBelowArray
      PROVE  BytesWritten' /\ ProgressInv'
  <2>1. PICK code : Refuse(code)
    BY <1>5 DEF TruncateBelowArray
  <2>2. call.op # "append"
    BY <1>5 DEF TruncateBelowArray
  <2>3. QED
    BY <1>1, <2>1, <2>2
<1>6. ASSUME NEW f \in File, DeleteStart(f)
      PROVE  BytesWritten' /\ ProgressInv'
  <2>1. /\ UNCHANGED <<storage, files>> /\ call.op # "append"
        /\ call' = [op |-> "delete", file |-> f, extent |-> 0]
    BY <1>2, <1>6 DEF DeleteStart, storageVars
  <2>2. \A g \in File : Owned(g)' \subseteq Owned(g)
    BY <2>1, SameFiles
  <2>3. BytesWritten'
    BY <2>1, <2>2, BytesStayWritten DEF DataInv
  <2>4. QED
    BY <2>1, <2>3 DEF ProgressInv
<1>7. CASE UNCHANGED vars
  <2>1. UNCHANGED <<storage, files, call>>
    BY <1>7 DEF vars, storageVars
  <2>2. QED
    BY <2>1 DEF DataInv, BytesWritten, ProgressInv, Owned, Occupied, Extent, ExtentSpan,
                LastExtent, Unwritten, CurChunk, FullChunks
<1>8. QED
  BY <1>3, <1>4, <1>5, <1>6, <1>7, AppendStartKeepsData, AppendWriteKeepsData,
     TruncateStartKeepsData, TruncateWholeKeepsData, TruncateTailKeepsData, DeleteKeepsData
     DEF Next, Start, Continue

\* What every chunk of a file holds was put there by an append or a truncation, and every
\* operation is as far as its locals say.
THEOREM DataInvariant == Spec => []DataInv
BY DataInitially, DataStep, PTL DEF Spec

-----------------------------------------------------------------------------
(* What the reads promise *)

\* Between two operations, nothing malloc left behind is among the bytes of a file.
LEMMA NothingUninitialised ==
  ASSUME DataInv, call = Idle, NEW f \in File
  PROVE  Bytes(f) \in Seq(Byte)
<1> DEFINE all == Bytes(f)
           size == files[f].allocated_size
<1>1. all \in Seq(Cell) /\ size \in Nat /\ Len(all) = size * CHUNK_SIZE
  BY BytesInChunks DEF DataInv, IInv
<1>2. ASSUME NEW x \in 1 .. Len(all) PROVE all[x] \in Byte
  <2>1. PICK p \in 0 .. size - 1, b \in Offset : x = p * CHUNK_SIZE + b
    <3>1. \A y \in 1 .. size * CHUNK_SIZE : \E p \in 0 .. size - 1, b \in Offset :
            y = p * CHUNK_SIZE + b
      BY <1>1, PlaceInChunks
    <3>2. QED
      BY <1>1, <3>1
  <2>2. p \in Nat /\ p < size
    BY <1>1
  <2>3. PICK c \in Owned(f) : \A d \in Offset : all[p * CHUNK_SIZE + d] = storage[c][d]
    BY <2>2, ChunkAtPosition DEF DataInv, IInv
  <2>4. storage[c] \in [Offset -> Byte]
    BY DEF DataInv, BytesWritten, Idle
  <2>5. QED
    BY <2>1, <2>3, <2>4
<1> HIDE DEF all
<1>3. \A S, T : \A s \in Seq(S) : (\A x \in 1 .. Len(s) : s[x] \in T) => s \in Seq(T)
  OBVIOUS
<1>4. all \in Seq(Byte)
  BY <1>1, <1>2, <1>3
<1>5. QED
  BY <1>4 DEF all

LEMMA ExactReads == DataInv => ReadsAreExact
<1> SUFFICES ASSUME DataInv, call = Idle
             PROVE  /\ \A f \in File : ReadAllStatus(f) = "SUCCESS" <=> Len(Bytes(f)) <= BUFFER_SIZE
                    /\ \A f \in File, offset \in 0 .. CHUNKS_AMOUNT * CHUNK_SIZE,
                          amount \in 1 .. BUFFER_SIZE :
                         offset + amount <= Len(Bytes(f)) =>
                           /\ ReadStatus(f, offset, amount) = "SUCCESS"
                           /\ FileReadAt(f, offset, amount)
                                = SubSeq(Bytes(f), offset + 1, offset + amount)
                           /\ Uninitialised \notin Range(FileReadAt(f, offset, amount))
  BY DEF ReadsAreExact
<1>1. LayoutInv
  BY DEF DataInv, IInv
<1>2. \A f \in File : ReadAllStatus(f) = "SUCCESS" <=> Len(Bytes(f)) <= BUFFER_SIZE
  BY <1>1, ReadAllWhenItFits
<1>3. ASSUME NEW f \in File, NEW offset \in 0 .. CHUNKS_AMOUNT * CHUNK_SIZE,
             NEW amount \in 1 .. BUFFER_SIZE, offset + amount <= Len(Bytes(f))
      PROVE  /\ ReadStatus(f, offset, amount) = "SUCCESS"
             /\ FileReadAt(f, offset, amount) = SubSeq(Bytes(f), offset + 1, offset + amount)
             /\ Uninitialised \notin Range(FileReadAt(f, offset, amount))
  <2>1. offset \in Nat /\ amount \in Nat \ {0}
    OBVIOUS
  <2>2. ReadStatus(f, offset, amount) = "SUCCESS"
    BY <1>1, <1>3, <2>1, ReadInsideSucceeds
  <2>3. FileReadAt(f, offset, amount) = SubSeq(Bytes(f), offset + 1, offset + amount)
    BY <1>1, <1>3, <2>1, ReadCutsRange
  <2> DEFINE all == Bytes(f)
             read == SubSeq(all, offset + 1, offset + amount)
  <2>4. all \in Seq(Byte)
    BY NothingUninitialised
  <2>5. \A x \in offset + 1 .. offset + amount : all[x] \in Byte
    BY <1>3, <2>1, <2>4
  <2> HIDE DEF all
  <2>6. read \in Seq(Byte)
    BY <2>1, <2>5, CutOut
  <2> HIDE DEF read
  <2>7. Uninitialised \notin Range(read)
    BY <2>6, StorageAssumption DEF Range
  <2>8. QED
    BY <2>2, <2>3, <2>7 DEF read, all
<1>4. QED
  BY <1>2, <1>3

\* In every state between two operations, whatever the sizes of chunks, files and
\* buffer and whatever extents the data lies in: a read inside a file succeeds and
\* delivers exactly the bytes of its range, and cat prints a file whenever its buffer
\* holds the whole of it (file_logic.c:139-250).
THEOREM ReadsAlwaysExact == Spec => []ReadsAreExact
BY ExactReads, DataInvariant, PTL

\* No read past the end of a file succeeds, whatever size_t is: when offset + amount wraps
\* around and passes the bounds test, the walk over the chunks stops the read
\* (file_logic.c:152, :302).
THEOREM ReadsAlwaysStayInside == Spec => []ReadsStayInside
<1>1. ASSUME DataInv PROVE ReadsStayInside
  <2> SUFFICES ASSUME NEW f \in File, NEW offset \in 0 .. SIZE_MODULUS - 1,
                      NEW amount \in 1 .. BUFFER_SIZE + 1, offset + amount > Len(Bytes(f))
               PROVE  ReadStatus(f, offset, amount) # "SUCCESS"
    BY DEF ReadsStayInside
  <2>1. LayoutInv /\ offset \in Nat /\ amount \in Nat \ {0}
    BY <1>1 DEF DataInv, IInv
  <2>2. QED
    BY <2>1, ReadStopsAtEnd
<1>2. QED
  BY <1>1, DataInvariant, PTL

-----------------------------------------------------------------------------
(* The bytes of a file before and after a step *)

\* BytesUpTo in words of the array and the chunks alone.
LEMMA BytesAreSlots ==
  /\ \A f, i : BytesUpTo(f, i) = SlotsBytes(files[f].data_chunk_extents, storage, i)
  /\ \A f : Bytes(f) = SlotsBytes(files[f].data_chunk_extents, storage,
                                  MAX_FILE_CHUNK_EXTENTS_AMOUNT)
  /\ \A f, i : BytesUpTo(f, i)' = SlotsBytes(files'[f].data_chunk_extents, storage', i)
  /\ \A f : Bytes(f)' = SlotsBytes(files'[f].data_chunk_extents, storage',
                                   MAX_FILE_CHUNK_EXTENTS_AMOUNT)
BY DEF Bytes, BytesUpTo, ExtentBytes, Occupied, Extent, SlotsBytes, SlotBytes

\* How the files hold their bytes.
Held(f, k) ==
  /\ \A i \in Index : Occupied(f, i) <=> i < k
  /\ StartOf(files[f].data_chunk_extents, k) = files[f].allocated_size
  /\ HoldsChunks(files[f].data_chunk_extents, storage, k, Bytes(f))

AllHeld ==
  \A f \in File :
    /\ Fits(files[f].data_chunk_extents, storage)
    /\ \E k \in 0 .. MAX_FILE_CHUNK_EXTENTS_AMOUNT : Held(f, k)
    /\ files[f].allocated_size \in Nat
    /\ Bytes(f) \in Seq(Cell) /\ Len(Bytes(f)) = files[f].allocated_size * CHUNK_SIZE

LEMMA HeldNow == LayoutInv => AllHeld
<1> SUFFICES ASSUME LayoutInv, NEW f \in File
             PROVE  /\ Fits(files[f].data_chunk_extents, storage)
                    /\ \E k \in 0 .. MAX_FILE_CHUNK_EXTENTS_AMOUNT : Held(f, k)
                    /\ files[f].allocated_size \in Nat
                    /\ Bytes(f) \in Seq(Cell)
                    /\ Len(Bytes(f)) = files[f].allocated_size * CHUNK_SIZE
  BY DEF AllHeld
<1>1. Fits(files[f].data_chunk_extents, storage)
  BY FileFits
<1>2. \E k \in 0 .. MAX_FILE_CHUNK_EXTENTS_AMOUNT : Held(f, k)
  BY FileHolds DEF Held
<1>3. /\ files[f].allocated_size \in Nat
      /\ Bytes(f) \in Seq(Cell)
      /\ Len(Bytes(f)) = files[f].allocated_size * CHUNK_SIZE
  BY BytesInChunks
<1>4. QED
  BY <1>1, <1>2, <1>3

LEMMA HeldNext == LayoutInv' => AllHeld'
BY HeldNow, PTL

\* A file that keeps its extents, and whose chunks keep their bytes, keeps its bytes.
LEMMA SameBytes ==
  ASSUME LayoutInv, NEW f \in File, files'[f] = files[f],
         \A c \in Owned(f) : storage'[c] = storage[c]
  PROVE  Bytes(f)' = Bytes(f)
<1> DEFINE e == files[f].data_chunk_extents
           n == MAX_FILE_CHUNK_EXTENTS_AMOUNT
<1>1. n \in Nat /\ \A j \in 0 .. n - 1 : j \in Index
  BY FileStorageAssumption DEF Index, LastIndex
<1>2. ASSUME NEW j \in 0 .. n - 1 PROVE SlotBytes(e, storage', j) = SlotBytes(e, storage, j)
  <2>1. j \in Index
    BY <1>1
  <2>2. e[j].start \in Nat /\ e[j].chunk_amount \in Nat
    BY <2>1 DEF LayoutInv, FilesTypeOK, ChunkExtent
  <2>3. ~e[j].is_empty => \A c \in Span(e[j].start, e[j].chunk_amount) : storage'[c] = storage[c]
    <3>1. ~e[j].is_empty => \A c \in Span(e[j].start, e[j].chunk_amount) : c \in Owned(f)
      BY <2>1, OwnedMember DEF Occupied, Extent, ExtentSpan
    <3>2. QED
      BY <3>1
  <2> HIDE DEF e
  <2>4. QED
    BY <2>2, <2>3, SameSlot
<1> HIDE DEF e
<1>3. SlotsBytes(e, storage', n) = SlotsBytes(e, storage, n)
  BY <1>1, <1>2, SameSlots
<1>4. QED
  BY <1>3, BytesAreSlots DEF e

\* AbstractContent, call by call.
Blanked(bytes, length, kept) ==
  [b \in 1 .. length |-> IF b <= kept THEN bytes[b] ELSE EOC_OPERATOR]

Blocks(data) == [k \in 1 .. ChunksAmount(Len(data)) |-> Block(data, k - 1)]

ContentIs ==
  /\ AbstractContent = [f \in File |-> AbstractContent[f]]
  /\ \A f \in File : call = Idle \/ call.file # f => AbstractContent[f] = Bytes(f)
  /\ call.op = "append" => \A f \in File : call.file = f =>
       AbstractContent[f] = BytesUpTo(f, call.extent) \o FlattenSeq(Blocks(call.data))
  /\ call.op = "truncate" => \A f \in File : call.file = f =>
       LET rest == call.amount - call.deleted_chunks_count * CHUNK_SIZE
       IN AbstractContent[f] = Blanked(Bytes(f),
                                       Len(Bytes(f)) - (rest \div CHUNK_SIZE) * CHUNK_SIZE,
                                       Len(Bytes(f)) - rest)
  /\ call.op = "delete" => \A f \in File : call.file = f => AbstractContent[f] = <<>>

LEMMA ContentNow == ContentIs
<1>1. AbstractContent = [f \in File |-> AbstractContent[f]]
  BY DEF AbstractContent
<1>2. \A f \in File : call = Idle \/ call.file # f => AbstractContent[f] = Bytes(f)
  BY DEF AbstractContent, ContentOf
<1>3. call.op # "idle" => call # Idle
  BY DEF Idle
<1>4. ASSUME call.op = "append", NEW f \in File, call.file = f
      PROVE  AbstractContent[f] = BytesUpTo(f, call.extent) \o FlattenSeq(Blocks(call.data))
  BY <1>3, <1>4 DEF AbstractContent, ContentOf, Blocks
<1>5. ASSUME call.op = "truncate", NEW f \in File, call.file = f
      PROVE  LET rest == call.amount - call.deleted_chunks_count * CHUNK_SIZE
             IN AbstractContent[f] = Blanked(Bytes(f),
                                             Len(Bytes(f)) - (rest \div CHUNK_SIZE) * CHUNK_SIZE,
                                             Len(Bytes(f)) - rest)
  BY <1>3, <1>5 DEF AbstractContent, ContentOf, Blanked
<1>6. ASSUME call.op = "delete", NEW f \in File, call.file = f
      PROVE  AbstractContent[f] = <<>>
  BY <1>3, <1>6 DEF AbstractContent, ContentOf
<1>7. QED
  BY <1>1, <1>2, <1>4, <1>5, <1>6 DEF ContentIs

LEMMA ContentNext == ContentIs'
BY ContentNow, PTL

\* A step leaves the bytes of the files alone that it was not given.
LEMMA OthersSame ==
  ASSUME DataInv, [Next]_vars, NEW g \in File, call = Idle \/ call.file # g, files'[g] = files[g]
  PROVE  Bytes(g)' = Bytes(g)
<1>1. \A c \in Owned(g) : storage'[c] = storage[c]
  BY OthersKept DEF DataInv
<1>2. QED
  BY <1>1, SameBytes DEF DataInv, IInv

\* A step after which the operation still runs, and FileContent sees the same of its file,
\* is none to FileContent.
LEMMA Stutters ==
  ASSUME DataInv, [Next]_vars, Continue, call' # Idle,
         \A f \in File : call.file = f => AbstractContent'[f] = AbstractContent[f],
         AbstractCall' = AbstractCall, status' = status
  PROVE  UNCHANGED Content!vars
<1>1. /\ call # Idle /\ call.file \in File /\ call'.file = call.file
      /\ \A g \in File : g # call.file => files'[g] = files[g]
  BY CallKeepsToItsFile DEF DataInv, Idle
<1>2. ASSUME NEW g \in File PROVE AbstractContent'[g] = AbstractContent[g]
  <2>1. CASE g = call.file
    BY <2>1
  <2>2. CASE g # call.file
    <3>1. Bytes(g)' = Bytes(g)
      BY <1>1, <2>2, OthersSame
    <3>2. AbstractContent[g] = Bytes(g)
      BY <2>2, ContentNow DEF ContentIs
    <3>3. AbstractContent'[g] = Bytes(g)'
      BY <1>1, <2>2, ContentNext DEF ContentIs
    <3>4. QED
      BY <3>1, <3>2, <3>3
  <2>3. QED
    BY <2>1, <2>2
<1>3. AbstractContent' = AbstractContent
  <2>1. /\ AbstractContent = [f \in File |-> AbstractContent[f]]
        /\ AbstractContent' = [f \in File |-> AbstractContent'[f]]
    BY ContentNow, ContentNext DEF ContentIs
  <2>2. [f \in File |-> AbstractContent[f]] = [f \in File |-> AbstractContent'[f]]
    BY <1>2
  <2>3. QED
    BY <2>1, <2>2, Zenon
<1>4. QED
  BY <1>3 DEF Content!vars

\* A step after which the operation has returned, with what it promised.
LEMMA Finishes ==
  ASSUME DataInv, [Next]_vars, Continue, Return("SUCCESS"),
         \A f \in File : call.file = f => Bytes(f)' = AbstractContent[f],
         AbstractCall # Idle
  PROVE  Content!Finish
<1>1. /\ call # Idle /\ call.file \in File /\ call' = Idle
      /\ \A g \in File : g # call.file => files'[g] = files[g]
  BY CallKeepsToItsFile DEF DataInv, Idle, Return
<1>2. ASSUME NEW g \in File PROVE AbstractContent'[g] = AbstractContent[g]
  <2>0. AbstractContent'[g] = Bytes(g)'
    BY <1>1, ContentNext DEF ContentIs
  <2>1. CASE g = call.file
    BY <2>0, <2>1
  <2>2. CASE g # call.file
    <3>1. Bytes(g)' = Bytes(g)
      BY <1>1, <2>2, OthersSame
    <3>2. AbstractContent[g] = Bytes(g)
      BY <2>2, ContentNow DEF ContentIs
    <3>3. QED
      BY <2>0, <3>1, <3>2
  <2>3. QED
    BY <2>1, <2>2
<1>3. AbstractContent' = AbstractContent
  <2>1. /\ AbstractContent = [f \in File |-> AbstractContent[f]]
        /\ AbstractContent' = [f \in File |-> AbstractContent'[f]]
    BY ContentNow, ContentNext DEF ContentIs
  <2>2. [f \in File |-> AbstractContent[f]] = [f \in File |-> AbstractContent'[f]]
    BY <1>2
  <2>3. QED
    BY <2>1, <2>2, Zenon
<1>4. AbstractCall' = Idle
  BY <1>1 DEF AbstractCall, Idle
<1>5. QED
  BY <1>3, <1>4 DEF Content!Finish, Content!NoCall, Idle, Return

\* A step that starts an operation, which FileContent sees done at once.
LEMMA Performs ==
  ASSUME DataInv, [Next]_vars, call = Idle, NEW f \in File, NEW request, NEW bytes,
         call' # Idle, call'.file = f, AbstractCall' = request, AbstractContent'[f] = bytes,
         \A g \in File : g # f => files'[g] = files[g], status' = status
  PROVE  Content!Perform(request, f, bytes)
<1>1. ASSUME NEW g \in File
      PROVE  AbstractContent'[g] = IF g = f THEN bytes ELSE AbstractContent[g]
  <2>1. CASE g = f
    BY <2>1
  <2>2. CASE g # f
    <3>1. Bytes(g)' = Bytes(g)
      BY <2>2, OthersSame
    <3>2. AbstractContent[g] = Bytes(g)
      BY ContentNow DEF ContentIs
    <3>3. AbstractContent'[g] = Bytes(g)'
      BY <2>2, ContentNext DEF ContentIs
    <3>4. QED
      BY <2>2, <3>1, <3>2, <3>3
  <2>3. QED
    BY <2>1, <2>2
<1>2. /\ AbstractContent = [g \in File |-> AbstractContent[g]]
      /\ AbstractContent' = [g \in File |-> AbstractContent'[g]]
  BY ContentNow, ContentNext DEF ContentIs
<1>3. AbstractContent' = [AbstractContent EXCEPT ![f] = bytes]
  <2> DEFINE old == AbstractContent
             new == AbstractContent'
  <2>1. old = [g \in File |-> old[g]] /\ new = [g \in File |-> new[g]]
        /\ \A g \in File : new[g] = IF g = f THEN bytes ELSE old[g]
    BY <1>1, <1>2
  <2> HIDE DEF old, new
  <2>2. new = [old EXCEPT ![f] = bytes]
    BY <2>1
  <2>3. QED
    BY <2>2 DEF old, new
<1>4. AbstractCall = Idle
  BY DEF AbstractCall, Idle
<1>5. QED
  BY <1>3, <1>4 DEF Content!Perform, Content!NoCall, Idle

\* A call that is refused changes nothing FileContent sees but the status.
LEMMA Refuses ==
  ASSUME call = Idle, NEW reason, Refuse(reason)
  PROVE  Content!Refuse(reason)
<1>1. call' = Idle /\ status' = reason /\ UNCHANGED <<storage, files>>
  BY DEF Refuse, Return, storageVars
<1>2. AbstractCall = Idle /\ AbstractCall' = Idle
  BY <1>1 DEF AbstractCall, Idle
<1>3. AbstractContent = [f \in File |-> Bytes(f)] /\ AbstractContent' = [f \in File |-> Bytes(f)']
  BY <1>1 DEF AbstractContent, ContentOf
<1>4. \A f : Bytes(f)' = Bytes(f)
  BY <1>1, BytesAreSlots
<1>5. AbstractContent' = AbstractContent
  BY <1>3, <1>4
<1>6. QED
  BY <1>1, <1>2, <1>5 DEF Content!Refuse, Content!NoCall, Idle

-----------------------------------------------------------------------------
(* An append puts its data, padded to whole chunks, behind the file *)

\* The blocks of an append, one behind the other, are the padded data.
LEMMA BlocksArePadded ==
  ASSUME NEW data \in Data, data # <<>>
  PROVE  FlattenSeq(Blocks(data)) = Content!Padded(data)
<1> DEFINE n == ChunksAmount(Len(data))
           blocks == Blocks(data)
           padded == Content!Padded(data)
<1>1. data \in Seq(Byte) /\ Len(data) \in Nat \ {0} /\ EOC_OPERATOR \in Byte
  BY FileLogicAssumption, StorageAssumption
<1>2. n \in Nat
  BY <1>1, ChunksAmountPositive
<1>3. /\ n * CHUNK_SIZE \in Nat
      /\ \A p \in 0 .. n - 1, b \in Offset : p * CHUNK_SIZE + b \in 1 .. n * CHUNK_SIZE
  BY <1>2, PlaceInChunks
<1> DEFINE m == n * CHUNK_SIZE
<1>4. padded = [b \in 1 .. m |-> IF b <= Len(data) THEN data[b] ELSE EOC_OPERATOR]
  BY DEF Content!Padded, Content!ChunksFor, ChunksAmount
<1>5. /\ blocks \in [1 .. n -> [Offset -> Byte]]
      /\ \A p \in 0 .. n - 1 : p \in Nat /\ blocks[p + 1] = Block(data, p)
  <2>1. blocks = [k \in 1 .. n |-> Block(data, k - 1)]
    BY DEF Blocks
  <2> HIDE DEF n, blocks
  <2>2. \A k \in 1 .. n : k - 1 \in Nat
    OBVIOUS
  <2>3. \A k \in 1 .. n : Block(data, k - 1) \in [Offset -> Byte]
    BY <2>2, BlockBytes
  <2>4. ASSUME NEW p \in 0 .. n - 1 PROVE p \in Nat /\ blocks[p + 1] = Block(data, p)
    <3>1. p + 1 \in 1 .. n /\ p + 1 - 1 = p /\ p \in Nat
      BY <1>2
    <3>2. blocks[p + 1] = Block(data, p + 1 - 1)
      BY <2>1, <3>1
    <3>3. QED
      BY <3>1, <3>2
  <2>5. QED
    BY <2>1, <2>3, <2>4
<1> HIDE DEF n, blocks, padded
<1>6. /\ FlattenSeq(blocks) \in Seq(Byte)
      /\ Len(FlattenSeq(blocks)) = n * CHUNK_SIZE
      /\ \A p \in 0 .. n - 1, b \in Offset :
           FlattenSeq(blocks)[p * CHUNK_SIZE + b] = blocks[p + 1][b]
  <2>1. IsChunks(FlattenSeq(blocks), Byte, blocks, n)
    BY <1>2, <1>5, FlattenChunks
  <2>2. QED
    BY <2>1 DEF IsChunks
<1>7. padded \in Seq(Byte) /\ Len(padded) = m
  <2> HIDE DEF m
  <2>1. m \in Nat
    BY <1>3 DEF m
  <2>2. QED
    BY <1>1, <1>4, <2>1
<1>8. ASSUME NEW p \in 0 .. n - 1, NEW b \in Offset
      PROVE  FlattenSeq(blocks)[p * CHUNK_SIZE + b] = padded[p * CHUNK_SIZE + b]
  <2>1. PICK x : x = p * CHUNK_SIZE + b /\ x \in 1 .. m
    BY <1>3
  <2>2. Block(data, p)[b] = IF x <= Len(data) THEN data[x] ELSE EOC_OPERATOR
    BY <2>1 DEF Block
  <2>3. padded[x] = IF x <= Len(data) THEN data[x] ELSE EOC_OPERATOR
    BY <1>4, <2>1
  <2>4. FlattenSeq(blocks)[x] = Block(data, p)[b]
    BY <1>5, <1>6, <2>1
  <2>5. QED
    BY <2>1, <2>2, <2>3, <2>4
<1>9. FlattenSeq(blocks) = padded
  BY <1>2, <1>6, <1>7, <1>8, SameChunks
<1>10. QED
  BY <1>9 DEF blocks, padded

LEMMA AppendStartRefines ==
  ASSUME DataInv, NEW f \in File, NEW data \in Data, AppendStart(f, data)
  PROVE  Content!AppendData(f, data)
<1> USE FileStorageAssumption
<1> DEFINE amount == ChunksAmount(Len(data))
           e == files[f].data_chunk_extents
           n == MAX_FILE_CHUNK_EXTENTS_AMOUNT
<1>1. PICK i \in Index, start \in Chunk :
        /\ FirstEmptyExtent(f, i)
        /\ FileAllocateChunks(f, i, amount, start)
        /\ call' = [op |-> "append", file |-> f, data |-> data, extent |-> i, written |-> 0]
  BY DEF AppendStart
<1>2. call = Idle /\ status' = status /\ data # <<>> /\ [Next]_vars
  BY DEF AppendStart, AppendStatus, Next, Start
<1>3. /\ \A g \in File : g # f => files'[g] = files[g]
      /\ \A j \in Index : j # i => files'[f].data_chunk_extents[j] = e[j]
      /\ storage' = storage
      /\ e \in [Index -> ChunkExtent]
  BY <1>1 DEF FileAllocateChunks, Challoc, DataInv, IInv, LayoutInv, FilesTypeOK
<1>4. /\ call'.op = "append" /\ call'.file = f /\ call'.extent = i /\ call'.data = data
      /\ call' # Idle
      /\ AbstractCall' = [op |-> "append", file |-> f, data |-> data]
  BY <1>1 DEF Idle, AbstractCall
<1>5. BytesUpTo(f, i)' = Bytes(f)
  <2>1. \A j \in Index : j >= i => e[j].is_empty
    <3>1. ASSUME NEW j \in Index, j >= i PROVE ~Occupied(f, j)
      <4>1. j = i \/ i < j
        BY <3>1 DEF Index
      <4>2. QED
        BY <1>1, <4>1 DEF FirstEmptyExtent, DataInv, IInv, LayoutInv, ExtentsCompact
    <3>2. QED
      BY <3>1 DEF Occupied, Extent
  <2>2. Fits(e, storage) /\ i \in 0 .. n /\ i \in Nat
    BY FileFits DEF DataInv, IInv, Index, LastIndex
  <2>3. ASSUME NEW j \in 0 .. i - 1
        PROVE  SlotBytes(files'[f].data_chunk_extents, storage', j) = SlotBytes(e, storage, j)
    <3>1. j \in Index /\ j # i
      BY DEF Index, LastIndex
    <3>2. QED
      BY <1>3, <3>1 DEF SlotBytes
  <2> HIDE DEF e
  <2>4. SlotsBytes(e, storage, n) = SlotsBytes(e, storage, i)
    BY <2>1, <2>2, EmptySlotsEnd
  <2>5. SlotsBytes(files'[f].data_chunk_extents, storage', i) = SlotsBytes(e, storage, i)
    BY <2>2, <2>3, SameSlots
  <2>6. QED
    BY <2>4, <2>5, BytesAreSlots DEF e
<1>6. AbstractContent[f] = Bytes(f)
  BY <1>2, ContentNow DEF ContentIs
<1>7. AbstractContent'[f] = AbstractContent[f] \o Content!Padded(data)
  <2>1. AbstractContent'[f] = BytesUpTo(f, i)' \o FlattenSeq(Blocks(data))
    <3>1. AbstractContent'[f] = BytesUpTo(f, call.extent)' \o FlattenSeq(Blocks(call'.data))
      BY <1>4, ContentNext DEF ContentIs
    <3>2. BytesUpTo(f, call.extent)' = BytesUpTo(f, i)'
      BY <1>4 DEF BytesUpTo
    <3>3. QED
      BY <1>4, <3>1, <3>2
  <2>2. QED
    BY <1>2, <1>5, <1>6, <2>1, BlocksArePadded
<1>8. Content!Perform([op |-> "append", file |-> f, data |-> data], f,
                      AbstractContent[f] \o Content!Padded(data))
  BY <1>2, <1>3, <1>4, <1>7, Performs
<1>9. QED
  BY <1>2, <1>8 DEF Content!AppendData

LEMMA AppendRefusedRefines ==
  ASSUME DataInv, NEW f \in File, NEW data \in Data, AppendRefused(f, data)
  PROVE  Content!AppendData(f, data)
<1> DEFINE n == ChunksAmount(Len(data))
           c == CHUNK_SIZE
<1>1. call = Idle /\ AppendStatus(f, data) # "SUCCESS" /\ Refuse(AppendStatus(f, data))
  BY DEF AppendRefused
<1>2. /\ Len(data) \in Nat /\ (Len(data) = 0 <=> data = <<>>)
      /\ c \in Nat \ {0} /\ free_chunk_count \in Nat
  BY FileLogicAssumption, StorageAssumption DEF DataInv, IInv, LayoutInv, StorageTypeOK
<1>3. free_chunk_count <= CHUNKS_AMOUNT /\ CHUNKS_AMOUNT \in Nat
  <2>1. IsFiniteSet(Chunk) /\ Cardinality(Chunk) = CHUNKS_AMOUNT /\ CHUNKS_AMOUNT \in Nat
    <3>1. 0 + CHUNKS_AMOUNT - 1 = CHUNKS_AMOUNT - 1 /\ CHUNKS_AMOUNT \in Nat /\ 0 \in Nat
      BY StorageAssumption
    <3>2. Chunk = Span(0, CHUNKS_AMOUNT)
      BY <3>1 DEF Chunk, Span
    <3>3. QED
      BY <3>1, <3>2, SpanCardinality
  <2>2. Cardinality(FreeChunks) <= Cardinality(Chunk)
    BY <2>1, FS_Subset DEF FreeChunks
  <2>3. QED
    BY <2>1, <2>2 DEF DataInv, IInv, LayoutInv, FreeCountExact
<1>4. ASSUME ~(Len(data) > free_chunk_count * c), Len(data) # 0
      PROVE  ~(n = 0 \/ n > CHUNKS_AMOUNT)
  <2>1. n \in Nat \ {0}
    BY <1>2, <1>4, ChunksAmountPositive
  <2>2. n = (Len(data) + c - 1) \div c
    BY DEF ChunksAmount
  <2> HIDE DEF n, c
  <2>3. PICK m \in Nat : m = Len(data) + c - 1 /\ m < (free_chunk_count + 1) * c
    <3>1. /\ (free_chunk_count + 1) * c = free_chunk_count * c + 1 * c
          /\ free_chunk_count * c \in Nat
      BY <1>2, ProductOrder
    <3>2. Len(data) + c - 1 \in Nat /\ Len(data) + c - 1 < (free_chunk_count + 1) * c
      BY <1>2, <1>4, <3>1
    <3>3. QED
      BY <3>2
  <2>4. n = m \div c
    BY <2>2, <2>3, Zenon
  <2>5. m \div c \in Nat /\ m % c \in 0 .. c - 1 /\ m = (m \div c) * c + (m % c)
    BY <1>2, <2>3, DivMod
  <2>6. n * c <= m /\ n * c \in Nat
    <3>1. m = n * c + (m % c)
      BY <2>4, <2>5, Zenon
    <3>2. n * c \in Nat
      BY <1>2, <2>1, ProductOrder
    <3>3. QED
      BY <1>2, <2>3, <2>5, <3>1, <3>2
  <2>7. ~(free_chunk_count + 1 <= n)
    <3>1. free_chunk_count + 1 <= n <=> (free_chunk_count + 1) * c <= n * c
      BY <1>2, <2>1, ProductOrder
    <3>2. (free_chunk_count + 1) * c \in Nat
      BY <1>2, ProductOrder
    <3>3. QED
      BY <2>3, <2>6, <3>1, <3>2
  <2>8. QED
    BY <1>2, <1>3, <2>1, <2>7
<1>5. CASE Len(data) = 0
  <2>1. ~(Len(data) > free_chunk_count * c)
    <3>1. free_chunk_count * c \in Nat
      BY <1>2, ProductOrder
    <3>2. QED
      BY <1>5, <3>1
  <2>2. AppendStatus(f, data) = "INVALID_OPERATION"
    BY <1>5, <2>1 DEF AppendStatus
  <2>3. Content!Refuse("INVALID_OPERATION")
    BY <1>1, <2>2, Refuses
  <2>4. QED
    BY <1>2, <1>5, <2>3 DEF Content!AppendData
<1>6. CASE Len(data) # 0
  <2>1. AppendStatus(f, data)
          \in {"DATA_OVER_FLOW", "NO_SPACE", "FILE_CHUNK_EXTENT_LIMIT_EXCEEDED"}
    BY <1>1, <1>4, <1>6 DEF AppendStatus, ChallocStatus
  <2>2. Content!Refuse(AppendStatus(f, data))
    BY <1>1, Refuses
  <2> DEFINE code == AppendStatus(f, data)
  <2>3. Content!Refuse(code) /\ code \in {"DATA_OVER_FLOW", "NO_SPACE",
                                          "FILE_CHUNK_EXTENT_LIMIT_EXCEEDED"}
    BY <2>1, <2>2
  <2> HIDE DEF code
  <2>4. QED
    BY <1>2, <1>6, <2>3 DEF Content!AppendData
<1>7. QED
  BY <1>5, <1>6

\* A write that is not the last is none to FileContent; with the last one the blocks are
\* all there.
LEMMA AppendWriteRefines ==
  ASSUME DataInv, AppendWrite
  PROVE  Content!Finish \/ UNCHANGED Content!vars
<1> USE FileStorageAssumption
<1> DEFINE n == MAX_FILE_CHUNK_EXTENTS_AMOUNT
<1>1. PICK f \in File, i \in Index : f = call.file /\ i = call.extent
  BY AppendWrites DEF AppendCall
<1> DEFINE e == files[f].data_chunk_extents
<1>2. PICK start \in Nat, amount \in Nat, w \in Nat, data \in Data :
        /\ start = e[i].start /\ amount = e[i].chunk_amount /\ w = call.written
        /\ data = call.data /\ amount = ChunksAmount(Len(data)) /\ w < amount
  BY <1>1, AppendWrites DEF AppendCall, Extent
<1>3. /\ CurChunk = start + w
      /\ storage' = [storage EXCEPT ![start + w] = Block(data, w)]
      /\ storage'[start + w] = Block(data, w)
      /\ files' = files
      /\ IF w + 1 = amount THEN Return("SUCCESS")
         ELSE call' = [call EXCEPT !.written = w + 1] /\ UNCHANGED status
      /\ Occupied(f, i)
  BY <1>1, <1>2, AppendWrites DEF CurChunk, Extent
<1>4. /\ call \in AppendCall /\ call.op = "append" /\ call # Idle /\ Continue /\ [Next]_vars
      /\ AbstractCall # Idle
  BY AppendWrites DEF AppendWrite, Continue, Next, Idle, AbstractCall
<1>5. /\ Fits(e, storage) /\ i \in 0 .. n /\ i + 1 \in 0 .. n /\ i \in Nat
      /\ \A j \in 0 .. i - 1 : j \in Index /\ j < i
  BY FileFits DEF DataInv, IInv, Index, LastIndex
<1>6. /\ LastExtent(f, i)
      /\ \A k \in 0 .. w - 1 : storage[start + k] = Block(data, k)
  BY <1>1, <1>2, <1>4 DEF DataInv, ProgressInv, Extent
<1>7. SlotsBytes(e, storage', i) = SlotsBytes(e, storage, i)
  <2>1. ASSUME NEW j \in 0 .. i - 1 PROVE SlotBytes(e, storage', j) = SlotBytes(e, storage, j)
    <3>1. j \in Index /\ j # i /\ Occupied(f, j)
      BY <1>5, <1>6 DEF LastExtent
    <3>2. ExtentSpan(f, j) \cap ExtentSpan(f, i) = {}
      BY <1>3, <3>1 DEF DataInv, IInv, LayoutInv, NoSharedChunk
    <3>3. start + w \in ExtentSpan(f, i)
      BY <1>1, <1>3, AppendWrites
    <3>4. \A c \in Span(e[j].start, e[j].chunk_amount) : storage'[c] = storage[c]
      <4>1. Span(e[j].start, e[j].chunk_amount) = ExtentSpan(f, j)
        BY DEF ExtentSpan, Extent
      <4>2. \A c \in ExtentSpan(f, j) : c # start + w /\ c \in Chunk
        BY <3>1, <3>2, <3>3, OwnedInChunks DEF DataInv, IInv, LayoutInv
      <4>3. storage \in [Chunk -> [Offset -> Byte \cup {Uninitialised}]]
        BY DEF DataInv, IInv, LayoutInv, StorageTypeOK
      <4>4. QED
        BY <1>3, <4>1, <4>2, <4>3
    <3>5. e[j].start \in Nat /\ e[j].chunk_amount \in Nat
      BY <1>5, <3>1 DEF Fits, ChunkExtent
    <3> HIDE DEF e
    <3>6. QED
      BY <3>4, <3>5, SameSlot
  <2> HIDE DEF e
  <2>2. QED
    BY <1>5, <2>1, SameSlots
<1>8. AbstractContent[f] = SlotsBytes(e, storage, i) \o FlattenSeq(Blocks(data))
  <2>1. AbstractContent[f] = BytesUpTo(f, i) \o FlattenSeq(Blocks(data))
    BY <1>1, <1>2, <1>4, ContentNow DEF ContentIs
  <2>2. QED
    BY <2>1, BytesAreSlots
<1>9. CASE w + 1 # amount
  <2>1. /\ call' = [call EXCEPT !.written = w + 1] /\ status' = status
        /\ call'.op = "append" /\ call'.file = f /\ call'.extent = i /\ call'.data = data
        /\ call' # Idle /\ AbstractCall' = AbstractCall
    BY <1>1, <1>2, <1>3, <1>4, <1>9 DEF AppendCall, Idle, AbstractCall
  <2>2. AbstractContent'[f] = SlotsBytes(e, storage', i) \o FlattenSeq(Blocks(data))
    <3>1. AbstractContent'[f] = BytesUpTo(f, call.extent)' \o FlattenSeq(Blocks(call'.data))
      BY <2>1, ContentNext DEF ContentIs
    <3>2. BytesUpTo(f, call.extent)' = BytesUpTo(f, i)'
      BY <2>1 DEF BytesUpTo
    <3>3. QED
      BY <1>3, <2>1, <3>1, <3>2, BytesAreSlots
  <2>3. \A g \in File : call.file = g => AbstractContent'[g] = AbstractContent[g]
    BY <1>1, <1>7, <1>8, <2>2
  <2>4. QED
    BY <1>4, <2>1, <2>3, Stutters
<1>10. CASE w + 1 = amount
  <2>1. Return("SUCCESS")
    BY <1>3, <1>10
  <2>2. SlotBytes(e, storage', i) = FlattenSeq(Blocks(data))
    <3>1. ASSUME NEW k \in 1 .. amount PROVE storage'[start + k - 1] = Block(data, k - 1)
      <4>1. CASE k - 1 = w
        <5>1. start + k - 1 = start + w
          BY <4>1
        <5>2. QED
          BY <1>3, <4>1, <5>1
      <4>2. CASE k - 1 # w
        <5>1. /\ k - 1 \in 0 .. w - 1 /\ start + (k - 1) # start + w
              /\ start + k - 1 = start + (k - 1)
          BY <1>10, <4>2
        <5>2. storage'[start + (k - 1)] = storage[start + (k - 1)]
          BY <1>3, <5>1
        <5>3. storage[start + (k - 1)] = Block(data, k - 1)
          BY <1>6, <5>1
        <5>4. QED
          BY <5>1, <5>2, <5>3
      <4>3. QED
        BY <4>1, <4>2
    <3>2. [k \in 1 .. amount |-> storage'[start + k - 1]] = Blocks(data)
      BY <1>2, <3>1 DEF Blocks
    <3>3. ~e[i].is_empty
      BY <1>3 DEF Occupied, Extent
    <3>4. QED
      BY <1>2, <3>2, <3>3 DEF SlotBytes
  <2>3. Fits(e, storage')
    <3>1. LayoutInv'
      BY <1>4, StepPreserves DEF DataInv, IInv
    <3>2. Fits(files'[f].data_chunk_extents, storage')
      BY <3>1, HeldNext DEF AllHeld
    <3>3. QED
      BY <1>3, <3>2
  <2>4. \A j \in Index : j >= i + 1 => e[j].is_empty
    <3>1. ASSUME NEW j \in Index, j >= i + 1, Occupied(f, j) PROVE FALSE
      <4>1. i + 1 \in Index /\ i < LastIndex /\ (j = i + 1 \/ i + 1 < j)
        BY <3>1 DEF Index, LastIndex
      <4>2. Occupied(f, i + 1)
        BY <3>1, <4>1 DEF DataInv, IInv, LayoutInv, ExtentsCompact
      <4>3. QED
        BY <1>6, <4>1, <4>2 DEF LastExtent
    <3>2. QED
      BY <3>1 DEF Occupied, Extent
  <2>5. Bytes(f)' = SlotsBytes(e, storage', n)
    BY <1>3, BytesAreSlots
  <2> HIDE DEF e
  <2>6. SlotsBytes(e, storage', n) = SlotsBytes(e, storage', i + 1)
    BY <1>5, <2>3, <2>4, EmptySlotsEnd
  <2>7. SlotsBytes(e, storage', i + 1) = SlotsBytes(e, storage', i) \o SlotBytes(e, storage', i)
    BY <2>3, SlotsGrow
  <2>8. Bytes(f)' = AbstractContent[f]
    BY <1>7, <1>8, <2>2, <2>5, <2>6, <2>7
  <2>9. \A g \in File : call.file = g => Bytes(g)' = AbstractContent[g]
    BY <1>1, <2>8
  <2>10. QED
    BY <1>4, <2>1, <2>9, Finishes
<1>11. QED
  BY <1>9, <1>10


-----------------------------------------------------------------------------
(* A truncation drops the last chunks and blanks the end of what stays *)

IsBlanked(t, s, m, kept) ==
  /\ t \in Seq(Cell) /\ Len(t) = m
  /\ \A b \in 1 .. m : t[b] = IF b <= kept THEN s[b] ELSE EOC_OPERATOR

LEMMA BlankedIs ==
  ASSUME NEW s \in Seq(Cell), NEW m \in Nat, NEW kept \in Int, m <= Len(s)
  PROVE  IsBlanked(Blanked(s, m, kept), s, m, kept)
<1> DEFINE t == Blanked(s, m, kept)
<1>1. t = [b \in 1 .. m |-> IF b <= kept THEN s[b] ELSE EOC_OPERATOR]
  BY DEF Blanked
<1>2. \A b \in 1 .. m : b \in 1 .. Len(s)
  OBVIOUS
<1>3. \A b \in 1 .. m : (IF b <= kept THEN s[b] ELSE EOC_OPERATOR) \in Cell
  BY <1>2, StorageAssumption DEF Cell
<1> HIDE DEF t
<1>4. t \in Seq(Cell) /\ Len(t) = m
  BY <1>1, <1>3
<1>5. QED
  BY <1>1, <1>4 DEF t, IsBlanked

\* What is left lies in the front of the sequence, so the rest of it does not matter.
LEMMA BlankedFront ==
  ASSUME NEW s \in Seq(Cell), NEW t \in Seq(Cell), NEW m \in Nat, NEW kept \in Int, m <= Len(s)
  PROVE  Blanked(s \o t, m, kept) = Blanked(s, m, kept)
<1>1. \A b \in 1 .. m : (s \o t)[b] = s[b]
  OBVIOUS
<1>2. QED
  BY <1>1 DEF Blanked

\* Blanking the end of the back blanks the end of the whole.
LEMMA BlankedBehind ==
  ASSUME NEW s \in Seq(Cell), NEW t \in Seq(Cell), NEW m \in Nat,
         NEW r \in 0 .. m, m <= Len(t)
  PROVE  s \o Blanked(t, m, m - r) = Blanked(s \o t, Len(s) + m, (Len(s) + m) - r)
<1> DEFINE u == Blanked(t, m, m - r)
           k == Len(s)
           w == Blanked(s \o t, k + m, k + m - r)
<1>1. /\ u \in Seq(Cell) /\ Len(u) = m
      /\ \A b \in 1 .. m : u[b] = IF b <= m - r THEN t[b] ELSE EOC_OPERATOR
  <2>1. PICK kept \in Int : kept = m - r
    OBVIOUS
  <2>2. IsBlanked(Blanked(t, m, kept), t, m, kept)
    BY BlankedIs
  <2>3. QED
    BY <2>1, <2>2 DEF IsBlanked
<1>2. k \in Nat /\ s \o t \in Seq(Cell) /\ Len(s \o t) = k + Len(t)
  OBVIOUS
<1>3. /\ w \in Seq(Cell) /\ Len(w) = k + m
      /\ \A b \in 1 .. k + m : w[b] = IF b <= k + m - r THEN (s \o t)[b] ELSE EOC_OPERATOR
  <2>0. k + m \in Nat /\ k + m - r \in Int
    BY <1>2
  <2>1. PICK n \in Nat, kept \in Int : n = k + m /\ kept = k + m - r
    BY <2>0
  <2>2. PICK x \in Seq(Cell) : x = s \o t
    BY <1>2
  <2>3. n <= Len(x)
    <3>1. Len(x) = k + Len(t) /\ Len(t) \in Nat
      BY <1>2, <2>2
    <3>2. QED
      BY <1>2, <2>1, <3>1
  <2>4. IsBlanked(Blanked(x, n, kept), x, n, kept)
    BY <2>3, BlankedIs
  <2>5. QED
    BY <2>1, <2>2, <2>4 DEF IsBlanked
<1>4. \A b \in 1 .. k : w[b] = s[b]
  <2>1. \A b \in 1 .. k : b \in 1 .. k + m /\ b <= k + m - r /\ (s \o t)[b] = s[b]
    BY <1>2
  <2>2. QED
    BY <1>3, <2>1
<1>5. \A b \in 1 .. m : w[k + b] = u[b]
  <2>1. ASSUME NEW b \in 1 .. m PROVE w[k + b] = u[b]
    <3>1. k + b \in 1 .. k + m /\ (k + b <= k + m - r <=> b <= m - r) /\ b \in 1 .. Len(t)
      BY <1>2
    <3>2. (s \o t)[k + b] = t[b]
      BY <3>1
    <3>3. QED
      BY <1>1, <1>3, <3>1, <3>2
  <2>2. QED
    BY <2>1
<1> HIDE DEF u, w
<1>6. s \o u = w
  BY <1>1, <1>3, <1>4, <1>5, ConcatIs
<1>7. QED
  BY <1>6 DEF u, w

\* The counts of file_truncate_by: d of the chunks are gone, and size are left.
LEMMA CutIs ==
  ASSUME NEW size \in Nat, NEW d \in Nat, NEW amount \in Nat,
         d <= amount \div CHUNK_SIZE, amount \div CHUNK_SIZE <= size + d
  PROVE  LET rest == amount - d * CHUNK_SIZE
             left == size + d - (amount \div CHUNK_SIZE)
             r == amount % CHUNK_SIZE
         IN /\ left \in Nat /\ r \in 0 .. CHUNK_SIZE - 1 /\ left * CHUNK_SIZE \in Nat
            /\ size * CHUNK_SIZE - (rest \div CHUNK_SIZE) * CHUNK_SIZE = left * CHUNK_SIZE
            /\ size * CHUNK_SIZE - rest = left * CHUNK_SIZE - r
<1> DEFINE c == CHUNK_SIZE
           full == amount \div c
           r == amount % c
           rest == amount - d * c
           left == size + d - full
           more == full - d
<1>1. c \in Nat \ {0}
  BY StorageAssumption
<1>2. full \in Nat /\ r \in 0 .. c - 1 /\ amount = full * c + r
  BY <1>1, DivMod
<1> HIDE DEF c, full, r
<1>3. left \in Nat /\ more \in Nat /\ full = d + more /\ size = left + more
  BY <1>2 DEF c, full
<1> HIDE DEF left, more
<1>4. /\ full * c = d * c + more * c /\ size * c = left * c + more * c
      /\ d * c \in Nat /\ more * c \in Nat /\ left * c \in Nat /\ size * c \in Nat
  <2>1. \A p, q \in Nat : (p + q) * c = p * c + q * c /\ p * c \in Nat
    BY <1>1, ProductOrder
  <2>2. (d + more) * c = d * c + more * c /\ (left + more) * c = left * c + more * c
    BY <1>3, <2>1
  <2>3. QED
    BY <1>3, <2>1, <2>2
<1>5. rest = more * c + r
  BY <1>2, <1>4
<1>6. rest \div c = more
  <2>1. (more * c + r) \div c = more
    BY <1>1, <1>2, <1>3, DivModIs
  <2>2. QED
    BY <1>5, <2>1, Zenon
<1>7. size * c - rest = left * c - r
  <2> DEFINE y == more * c
             z == left * c
             x == size * c
  <2>1. x = z + y /\ rest = y + r /\ x \in Nat /\ y \in Nat /\ z \in Nat
    BY <1>4, <1>5
  <2> HIDE DEF x, y, z, rest
  <2>2. x - rest = z - r
    BY <1>2, <2>1
  <2>3. QED
    BY <2>2 DEF x, z
<1>8. size * c - (rest \div c) * c = left * c
  <2>1. (rest \div c) * c = more * c
    BY <1>6, Zenon
  <2>2. QED
    BY <1>4, <2>1
<1>9. QED
  BY <1>2, <1>3, <1>4, <1>7, <1>8, Zenon DEF c, full, r, left

\* What FileContent sees of a truncation that runs: the chunks that will be left, the end
\* of the last one blanked.
ChunksLeft == files[call.file].allocated_size + call.deleted_chunks_count - FullChunks

TruncationSeen ==
  DataInv /\ call.op = "truncate" =>
    /\ call \in TruncateCall /\ call.file \in File /\ ChunksLeft \in Nat
    /\ call.amount % CHUNK_SIZE \in 0 .. CHUNK_SIZE - 1
    /\ AbstractContent[call.file]
         = Blanked(Bytes(call.file), ChunksLeft * CHUNK_SIZE,
                   ChunksLeft * CHUNK_SIZE - (call.amount % CHUNK_SIZE))

LEMMA TruncationNow == TruncationSeen
<1> SUFFICES ASSUME DataInv, call.op = "truncate"
             PROVE  /\ call \in TruncateCall /\ call.file \in File /\ ChunksLeft \in Nat
                    /\ call.amount % CHUNK_SIZE \in 0 .. CHUNK_SIZE - 1
                    /\ AbstractContent[call.file]
                         = Blanked(Bytes(call.file), ChunksLeft * CHUNK_SIZE,
                                   ChunksLeft * CHUNK_SIZE - (call.amount % CHUNK_SIZE))
  BY DEF TruncationSeen
<1>1. call \in TruncateCall
  BY DEF DataInv, IInv, Call, Idle, AppendCall, TruncateCall, DeleteCall
<1>2. /\ call.file \in File /\ call.amount \in Nat /\ call.deleted_chunks_count \in Nat
      /\ call.deleted_chunks_count <= FullChunks
      /\ FullChunks <= files[call.file].allocated_size + call.deleted_chunks_count
  BY <1>1, FileLogicAssumption DEF TruncateCall, DataInv, IInv, CallInv, ProgressInv
<1>3. PICK f \in File, size \in Nat, d \in Nat, amount \in Nat, bytes \in Seq(Cell) :
        /\ f = call.file /\ size = files[f].allocated_size /\ d = call.deleted_chunks_count
        /\ amount = call.amount /\ bytes = Bytes(f)
  BY <1>2, BytesInChunks DEF DataInv, IInv, LayoutInv, FilesTypeOK
<1>4. Len(bytes) = size * CHUNK_SIZE
  BY <1>3, BytesInChunks DEF DataInv, IInv
<1> DEFINE rest == amount - d * CHUNK_SIZE
           left == size + d - (amount \div CHUNK_SIZE)
<1>5. AbstractContent[f] = Blanked(bytes, Len(bytes) - (rest \div CHUNK_SIZE) * CHUNK_SIZE,
                                   Len(bytes) - rest)
  BY <1>3, ContentNow DEF ContentIs
<1>6. /\ left \in Nat /\ amount % CHUNK_SIZE \in 0 .. CHUNK_SIZE - 1
      /\ size * CHUNK_SIZE - (rest \div CHUNK_SIZE) * CHUNK_SIZE = left * CHUNK_SIZE
      /\ size * CHUNK_SIZE - rest = left * CHUNK_SIZE - (amount % CHUNK_SIZE)
  <2>1. d <= amount \div CHUNK_SIZE /\ amount \div CHUNK_SIZE <= size + d
    BY <1>2, <1>3 DEF FullChunks
  <2>2. QED
    BY <2>1, CutIs
<1>7. AbstractContent[f] = Blanked(bytes, left * CHUNK_SIZE,
                                   left * CHUNK_SIZE - (amount % CHUNK_SIZE))
  BY <1>4, <1>5, <1>6, Zenon
<1>8. ChunksLeft = left
  BY <1>3 DEF ChunksLeft, FullChunks
<1>9. QED
  BY <1>1, <1>3, <1>6, <1>7, <1>8, Zenon

LEMMA TruncationNext == TruncationSeen'
BY TruncationNow, PTL

LEMMA TruncateStartRefines ==
  ASSUME DataInv, NEW f \in File, NEW amount \in Amount, TruncateStart(f, amount)
  PROVE  Content!Truncate(f, amount)
<1> DEFINE bytes == Bytes(f)
<1>1. PICK i \in Index :
        call' = [op |-> "truncate", file |-> f, amount |-> amount, extent |-> i,
                 deleted_chunks_count |-> 0]
  BY DEF TruncateStart
<1>2. /\ call = Idle /\ UNCHANGED <<storage, files>> /\ status' = status /\ [Next]_vars
      /\ ~(amount > files[f].allocated_size * CHUNK_SIZE) /\ Occupied(f, 0)
  BY DEF TruncateStart, TruncateStatus, storageVars, Next, Start
<1>3. /\ call'.op = "truncate" /\ call'.file = f /\ call'.amount = amount
      /\ call'.deleted_chunks_count = 0 /\ call' # Idle
      /\ AbstractCall' = [op |-> "truncate", file |-> f, amount |-> amount]
  BY <1>1 DEF Idle, AbstractCall
<1>4. /\ Bytes(f)' = bytes /\ AbstractContent[f] = bytes /\ bytes \in Seq(Cell)
      /\ files[f].allocated_size \in Nat /\ Len(bytes) = files[f].allocated_size * CHUNK_SIZE
  <2>1. Bytes(f)' = bytes
    BY <1>2, BytesAreSlots
  <2>2. AbstractContent[f] = bytes
    BY <1>2, ContentNow DEF ContentIs
  <2>3. QED
    BY <2>1, <2>2, BytesInChunks DEF DataInv, IInv
<1>5. files[f].allocated_size # 0
  <2>1. 0 \in Index
    BY FileStorageAssumption DEF Index, LastIndex
  <2>2. Extent(f, 0).chunk_amount \in Nat \ {0} /\ Extent(f, 0).start \in Nat
    BY <1>2, <2>1 DEF DataInv, IInv, LayoutInv, ExtentsNotVoid, FilesTypeOK, Extent, ChunkExtent
  <2>3. Extent(f, 0).start \in ExtentSpan(f, 0)
    BY <2>2 DEF ExtentSpan, Span
  <2>4. Extent(f, 0).start \in Owned(f)
    BY <1>2, <2>1, <2>3, OwnedMember
  <2>5. IsFiniteSet(Owned(f))
    <3>1. IsFiniteSet(Chunk)
      BY StorageAssumption, FS_Interval DEF Chunk
    <3>2. QED
      BY <3>1, OwnedInChunks, FS_Subset DEF DataInv, IInv, LayoutInv
  <2>6. Cardinality(Owned(f)) # 0
    BY <2>4, <2>5, FS_EmptySet
  <2>7. QED
    BY <2>6 DEF DataInv, IInv, LayoutInv, SizeExact
<1>6. amount \in Nat /\ amount <= Len(bytes) /\ bytes # <<>>
  <2>1. amount \in Nat /\ CHUNK_SIZE \in Nat \ {0}
    BY FileLogicAssumption, StorageAssumption
  <2>2. PICK size \in Nat \ {0} : size = files[f].allocated_size
    BY <1>4, <1>5
  <2>3. size * CHUNK_SIZE \in Nat /\ size <= size * CHUNK_SIZE
    BY <2>1, <2>2, ProductOrder
  <2>4. Len(bytes) \in Nat /\ Len(bytes) # 0 /\ amount <= Len(bytes)
    BY <1>2, <1>4, <2>1, <2>2, <2>3
  <2>5. QED
    BY <2>1, <2>4
<1>7. AbstractContent'[f] = Content!Truncated(AbstractContent[f], amount)
  <2>1. AbstractContent'[f]
          = LET rest == amount - 0 * CHUNK_SIZE
            IN Blanked(bytes, Len(bytes) - (rest \div CHUNK_SIZE) * CHUNK_SIZE,
                       Len(bytes) - rest)
    BY <1>3, <1>4, ContentNext DEF ContentIs
  <2>2. amount - 0 * CHUNK_SIZE = amount
    BY <1>6, StorageAssumption
  <2>3. AbstractContent'[f]
          = Blanked(bytes, Len(bytes) - (amount \div CHUNK_SIZE) * CHUNK_SIZE,
                    Len(bytes) - amount)
    BY <2>1, <2>2, Zenon
  <2>4. QED
    BY <1>4, <2>3 DEF Blanked, Content!Truncated
<1>8. Content!Perform([op |-> "truncate", file |-> f, amount |-> amount], f,
                      Content!Truncated(AbstractContent[f], amount))
  <2>1. \A g \in File : g # f => files'[g] = files[g]
    BY <1>2
  <2>2. QED
    BY <1>2, <1>3, <1>7, <2>1, Performs
<1>9. QED
  BY <1>4, <1>6, <1>8 DEF Content!Truncate

EmptyFiles ==
  DataInv => \A f \in File : (\A i \in Index : ~Occupied(f, i)) =>
    files[f].allocated_size = 0 /\ Bytes(f) = <<>>

LEMMA NothingOccupied == EmptyFiles
<1> SUFFICES ASSUME DataInv, NEW f \in File, \A i \in Index : ~Occupied(f, i)
             PROVE  files[f].allocated_size = 0 /\ Bytes(f) = <<>>
  BY DEF EmptyFiles
<1>1. Owned(f) = {}
  BY DEF Owned
<1>2. files[f].allocated_size = 0
  BY <1>1, FS_EmptySet DEF DataInv, IInv, LayoutInv, SizeExact
<1>3. Bytes(f) \in Seq(Cell) /\ Len(Bytes(f)) = 0 * CHUNK_SIZE
  BY <1>2, BytesInChunks DEF DataInv, IInv
<1>4. 0 * CHUNK_SIZE = 0
  BY StorageAssumption
<1>5. QED
  BY <1>2, <1>3, <1>4

LEMMA NothingOccupiedNext == EmptyFiles'
BY NothingOccupied, PTL

LEMMA TruncateRefusedRefines ==
  ASSUME DataInv, NEW f \in File, NEW amount \in Amount, TruncateRefused(f, amount)
  PROVE  Content!Truncate(f, amount)
<1>1. /\ call = Idle /\ TruncateStatus(f, amount) # "SUCCESS"
      /\ Refuse(TruncateStatus(f, amount))
  BY DEF TruncateRefused
<1>2. /\ AbstractContent[f] = Bytes(f) /\ Len(Bytes(f)) = files[f].allocated_size * CHUNK_SIZE
  BY <1>1, ContentNow, BytesInChunks DEF ContentIs, DataInv, IInv
<1>3. CASE amount > files[f].allocated_size * CHUNK_SIZE
  <2>1. TruncateStatus(f, amount) = "INDEX_OUT_OF_BOUNDS"
    BY <1>3 DEF TruncateStatus
  <2>2. Content!Refuse("INDEX_OUT_OF_BOUNDS")
    BY <1>1, <2>1, Refuses
  <2>3. amount > Len(AbstractContent[f])
    BY <1>2, <1>3
  <2>4. QED
    BY <2>2, <2>3 DEF Content!Truncate
<1>4. CASE ~(amount > files[f].allocated_size * CHUNK_SIZE)
  <2>1. TruncateStatus(f, amount) = "FILE_IS_EMPTY" /\ ~Occupied(f, 0)
    BY <1>1, <1>4 DEF TruncateStatus
  <2>2. Content!Refuse("FILE_IS_EMPTY")
    BY <1>1, <2>1, Refuses
  <2>3. \A i \in Index : ~Occupied(f, i)
    <3>1. \A i \in Index : 0 \in Index /\ (i = 0 \/ 0 < i)
      BY FileStorageAssumption DEF Index, LastIndex
    <3>2. QED
      BY <2>1, <3>1 DEF DataInv, IInv, LayoutInv, ExtentsCompact
  <2>4. files[f].allocated_size = 0 /\ Bytes(f) = <<>>
    BY <2>3, NothingOccupied DEF EmptyFiles
  <2>5. amount = 0
    <3>1. amount \in Nat /\ 0 * CHUNK_SIZE = 0
      BY FileLogicAssumption, StorageAssumption
    <3>2. ~(amount > 0 * CHUNK_SIZE)
      BY <1>4, <2>4
    <3>3. QED
      BY <3>1, <3>2
  <2>6. QED
    BY <1>2, <2>2, <2>4, <2>5 DEF Content!Truncate
<1>5. QED
  BY <1>3, <1>4

\* The slots behind the last occupied one hold nothing.
EndsWith(f, i) ==
  DataInv /\ LastExtent(f, i) =>
    /\ \A j \in Index : j > i => ~Occupied(f, j)
    /\ \A j \in 0 .. i : j \in Index /\ Occupied(f, j)
    /\ Bytes(f) = SlotsBytes(files[f].data_chunk_extents, storage, i)
                  \o SlotBytes(files[f].data_chunk_extents, storage, i)
    /\ SlotsBytes(files[f].data_chunk_extents, storage, i) \in Seq(Cell)
    /\ SlotBytes(files[f].data_chunk_extents, storage, i) \in Seq(Cell)

AllEnd == \A f \in File, i \in Index : EndsWith(f, i)

LEMMA BytesEndWith == AllEnd
<1> SUFFICES ASSUME NEW f \in File, NEW i \in Index, DataInv, LastExtent(f, i)
             PROVE  LET e == files[f].data_chunk_extents
                    IN /\ \A j \in Index : j > i => ~Occupied(f, j)
                       /\ \A j \in 0 .. i : j \in Index /\ Occupied(f, j)
                       /\ Bytes(f) = SlotsBytes(e, storage, i) \o SlotBytes(e, storage, i)
                       /\ SlotsBytes(e, storage, i) \in Seq(Cell)
                       /\ SlotBytes(e, storage, i) \in Seq(Cell)
  BY DEF AllEnd, EndsWith
<1> USE FileStorageAssumption
<1> DEFINE e == files[f].data_chunk_extents
           n == MAX_FILE_CHUNK_EXTENTS_AMOUNT
<1>1. /\ Fits(e, storage) /\ i + 1 \in 0 .. n
      /\ \A j \in 0 .. i : j \in Index /\ Occupied(f, j)
  BY FileFits DEF DataInv, IInv, Index, LastIndex, LastExtent
<1>2. ASSUME NEW j \in Index, j > i, Occupied(f, j) PROVE FALSE
  <2>1. i + 1 \in Index /\ i < LastIndex /\ (j = i + 1 \/ i + 1 < j)
    BY <1>2 DEF Index, LastIndex
  <2>2. Occupied(f, i + 1)
    BY <1>2, <2>1 DEF DataInv, IInv, LayoutInv, ExtentsCompact
  <2>3. QED
    BY <2>1, <2>2 DEF LastExtent
<1>3. \A j \in Index : j >= i + 1 => e[j].is_empty
  <2>1. \A j \in Index : j >= i + 1 => j > i
    BY DEF Index
  <2>2. QED
    BY <1>2, <2>1 DEF Occupied, Extent
<1>4. Bytes(f) = SlotsBytes(e, storage, n)
  BY BytesAreSlots
<1> HIDE DEF e
<1>5. SlotsBytes(e, storage, n) = SlotsBytes(e, storage, i + 1)
  BY <1>1, <1>3, EmptySlotsEnd
<1>6. /\ SlotsBytes(e, storage, i + 1) = SlotsBytes(e, storage, i) \o SlotBytes(e, storage, i)
      /\ SlotsBytes(e, storage, i) \in Seq(Cell) /\ SlotBytes(e, storage, i) \in Seq(Cell)
  BY <1>1, SlotsGrow
<1>7. QED
  BY <1>1, <1>2, <1>4, <1>5, <1>6 DEF e

LEMMA BytesEndWithNext == AllEnd'
BY BytesEndWith, PTL

\* The slots before the last one keep their bytes when the last one goes or gets shorter.
LEMMA FrontKeepsBytes ==
  ASSUME DataInv, NEW f \in File, NEW i \in Index, LastExtent(f, i), NEW e2,
         \A j \in 0 .. i - 1 : e2[j] = files[f].data_chunk_extents[j],
         \A c \in Chunk : c \notin ExtentSpan(f, i) => storage'[c] = storage[c]
  PROVE  SlotsBytes(e2, storage', i) = SlotsBytes(files[f].data_chunk_extents, storage, i)
<1> USE FileStorageAssumption
<1> DEFINE e == files[f].data_chunk_extents
<1>1. Fits(e, storage) /\ i \in Nat
  BY FileFits DEF DataInv, IInv, Index
<1>2. ASSUME NEW j \in 0 .. i - 1 PROVE SlotBytes(e2, storage', j) = SlotBytes(e, storage, j)
  <2>1. j \in Index /\ j # i /\ Occupied(f, j) /\ Occupied(f, i)
    BY DEF LastExtent, Index, LastIndex
  <2>2. ExtentSpan(f, j) \cap ExtentSpan(f, i) = {}
    BY <2>1 DEF DataInv, IInv, LayoutInv, NoSharedChunk
  <2>3. \A c \in Span(e[j].start, e[j].chunk_amount) : storage'[c] = storage[c]
    <3>1. Span(e[j].start, e[j].chunk_amount) = ExtentSpan(f, j)
      BY DEF ExtentSpan, Extent
    <3>2. \A c \in ExtentSpan(f, j) : c \notin ExtentSpan(f, i) /\ c \in Chunk
      BY <2>1, <2>2, OwnedInChunks DEF DataInv, IInv, LayoutInv
    <3>3. QED
      BY <3>1, <3>2
  <2>4. e[j].start \in Nat /\ e[j].chunk_amount \in Nat
    BY <1>1, <2>1 DEF Fits, ChunkExtent
  <2>5. e2[j] = e[j]
    OBVIOUS
  <2> HIDE DEF e
  <2>6. QED
    BY <2>3, <2>4, <2>5, SameSlot
<1> HIDE DEF e
<1>3. QED
  BY <1>1, <1>2, SameSlots DEF e

\* An extent that goes whole was all beyond what will be left.
LEMMA TruncateWholeRefines ==
  ASSUME DataInv, TruncateWholeExtent
  PROVE  UNCHANGED Content!vars
<1> USE FileStorageAssumption
<1>1. /\ call.op = "truncate" /\ call.extent >= 0 /\ GoesWhole /\ Continue /\ [Next]_vars
      /\ FileFreeChunkExtent(call.file, call.extent) /\ status' = status
  BY DEF TruncateWholeExtent, Continue, Next
<1>2. DataInv'
  BY <1>1, DataStep
<1>3. TruncationSeen /\ TruncationSeen'
  BY TruncationNow, TruncationNext
<1>4. /\ call \in TruncateCall /\ call.file \in File
  BY <1>1, <1>3 DEF TruncationSeen
<1>5. PICK f \in File, i \in Index, amount \in Nat, d \in Nat, size \in Nat :
        /\ f = call.file /\ i = call.extent /\ amount = Extent(f, i).chunk_amount
        /\ d = call.deleted_chunks_count /\ size = files[f].allocated_size
  <2>1. call.extent \in Index /\ call.deleted_chunks_count \in Nat
    BY <1>1, <1>4 DEF TruncateCall, Index, LastIndex
  <2>2. /\ Extent(call.file, call.extent).chunk_amount \in Nat
        /\ files[call.file].allocated_size \in Nat
    BY <1>4, <2>1 DEF DataInv, IInv, LayoutInv, FilesTypeOK, Extent, ChunkExtent
  <2>3. QED
    BY <1>4, <2>1, <2>2
<1>6. LastExtent(f, i)
  BY <1>1, <1>5 DEF DataInv, IInv, CallInv
<1> DEFINE e == files[f].data_chunk_extents
           e2 == files'[f].data_chunk_extents
           front == SlotsBytes(e, storage, i)
           back == SlotBytes(e, storage, i)
<1>7. /\ \A j \in Index : j > i => ~Occupied(f, j)
      /\ \A j \in 0 .. i : j \in Index /\ Occupied(f, j)
      /\ Bytes(f) = front \o back /\ front \in Seq(Cell) /\ back \in Seq(Cell)
  BY <1>6, BytesEndWith DEF AllEnd, EndsWith
<1>8. /\ FileFreeChunkExtent(f, i) /\ storage' = storage /\ Occupied(f, i)
      /\ e2 = LeftShift(e, i) /\ files'[f].allocated_size = size - amount
  <2>1. FileFreeChunkExtent(f, i) /\ Occupied(f, i)
    BY <1>1, <1>5, <1>7 DEF Index
  <2>2. QED
    BY <1>5, <2>1 DEF FileFreeChunkExtent, DataInv, IInv, LayoutInv, FilesTypeOK
<1>9. /\ call'.op = "truncate" /\ call'.file = f /\ call'.amount = call.amount /\ call' # Idle
      /\ call'.deleted_chunks_count = d + amount /\ AbstractCall' = AbstractCall
  <2>1. AmountAfterShift(f, i) = amount
    <3>1. i < LastIndex => ~Occupied(f, i + 1)
      BY <1>6 DEF LastExtent
    <3>2. QED
      BY <1>5, <3>1 DEF AmountAfterShift
  <2>2. call' = [call EXCEPT !.extent = i - 1, !.deleted_chunks_count = d + amount]
    BY <1>5, <2>1 DEF TruncateWholeExtent
  <2>3. /\ call'.op = "truncate" /\ call'.file = f /\ call'.amount = call.amount
        /\ call'.deleted_chunks_count = d + amount
    BY <1>4, <1>5, <2>2 DEF TruncateCall
  <2>4. QED
    BY <1>1, <1>5, <2>3 DEF AbstractCall, Idle
<1>10. Bytes(f)' = front
  <2>1. \A j \in 0 .. i - 1 : e2[j] = e[j]
    <3>1. \A j \in 0 .. i - 1 : j \in Index /\ ~InRun(e, i, j)
      BY DEF InRun, Index, LastIndex
    <3>2. QED
      BY <1>8, <3>1 DEF LeftShift
  <2>2. \A j \in Index : j >= i => e2[j].is_empty
    <3>1. ASSUME NEW j \in Index, j >= i PROVE ~Occupied(f, j)'
      <4>1. j < LastIndex => j + 1 \in Index /\ j + 1 > i
        BY <3>1 DEF Index, LastIndex
      <4>2. Occupied(f, j)' <=> j < LastIndex /\ Occupied(f, j + 1)
        BY <1>8, <3>1, FreeKeepsLayout DEF DataInv, IInv
      <4>3. QED
        BY <1>7, <4>1, <4>2
    <3>2. QED
      BY <3>1 DEF Occupied, Extent
  <2>3. SlotsBytes(e2, storage', i) = front
    <3>1. \A c \in Chunk : storage'[c] = storage[c]
      BY <1>8
    <3> HIDE DEF e2
    <3>2. QED
      BY <1>6, <2>1, <3>1, FrontKeepsBytes
  <2>4. Fits(e2, storage') /\ i \in 0 .. MAX_FILE_CHUNK_EXTENTS_AMOUNT
    BY <1>2, HeldNext DEF AllHeld, DataInv, IInv, Index, LastIndex
  <2>5. Bytes(f)' = SlotsBytes(e2, storage', MAX_FILE_CHUNK_EXTENTS_AMOUNT)
    BY BytesAreSlots
  <2> HIDE DEF e2, front
  <2>6. QED
    BY <2>2, <2>3, <2>4, <2>5, EmptySlotsEnd
<1> DEFINE left == ChunksLeft
           r == call.amount % CHUNK_SIZE
<1>11. /\ left \in Nat /\ r \in 0 .. CHUNK_SIZE - 1
       /\ AbstractContent[f] = Blanked(front \o back, left * CHUNK_SIZE, left * CHUNK_SIZE - r)
  BY <1>1, <1>3, <1>5, <1>7 DEF TruncationSeen
<1>12. FullChunks' = FullChunks /\ FullChunks \in Nat /\ d + amount <= FullChunks
  <2>1. FullChunks \in Nat
    BY <1>4, FileLogicAssumption, StorageAssumption, DivMod DEF FullChunks, TruncateCall
  <2>2. QED
    BY <1>1, <1>5, <1>9, <2>1 DEF FullChunks, GoesWhole
<1>13. ChunksLeft' = left /\ left <= size - amount /\ size - amount \in Nat
  <2>1. /\ left = size + d - FullChunks
        /\ ChunksLeft' = (size - amount) + (d + amount) - FullChunks
    BY <1>5, <1>8, <1>9, <1>12 DEF ChunksLeft
  <2> HIDE DEF left
  <2>2. left <= size - amount /\ ChunksLeft' = left
    BY <1>12, <2>1
  <2>3. QED
    BY <1>11, <2>2
<1>14. AbstractContent'[f] = Blanked(front, left * CHUNK_SIZE, left * CHUNK_SIZE - r)
  <2>1. AbstractContent'[call'.file]
          = Blanked(Bytes(call.file)', ChunksLeft' * CHUNK_SIZE,
                    ChunksLeft' * CHUNK_SIZE - (call'.amount % CHUNK_SIZE))
    BY <1>2, <1>3, <1>9 DEF TruncationSeen
  <2>2. Bytes(call.file)' = Bytes(f)'
    BY <1>9 DEF Bytes, BytesUpTo
  <2>3. QED
    BY <1>9, <1>10, <1>13, <2>1, <2>2, Zenon
<1> HIDE DEF front, back, left, r
<1>15. left * CHUNK_SIZE \in Nat /\ left * CHUNK_SIZE <= Len(front)
  <2>1. Len(front) = (size - amount) * CHUNK_SIZE
    BY <1>2, <1>8, <1>10, HeldNext DEF AllHeld, DataInv, IInv
  <2>2. left * CHUNK_SIZE \in Nat /\ left * CHUNK_SIZE <= (size - amount) * CHUNK_SIZE
    BY <1>11, <1>13, StorageAssumption, ProductOrder
  <2>3. QED
    BY <2>1, <2>2
<1>16. AbstractContent'[f] = AbstractContent[f]
  <2>1. left * CHUNK_SIZE - r \in Int
    BY <1>11, <1>15
  <2>2. Blanked(front \o back, left * CHUNK_SIZE, left * CHUNK_SIZE - r)
          = Blanked(front, left * CHUNK_SIZE, left * CHUNK_SIZE - r)
    BY <1>7, <1>15, <2>1, BlankedFront
  <2>3. QED
    BY <1>11, <1>14, <2>2
<1>17. \A g \in File : call.file = g => AbstractContent'[g] = AbstractContent[g]
  BY <1>5, <1>16
<1>18. QED
  BY <1>1, <1>9, <1>17, Stutters

\* The pointer is below the array only when the file is empty and nothing is to be left.
LEMMA TruncateBelowRefines ==
  ASSUME DataInv, TruncateBelowArray
  PROVE  Content!Finish
<1>1. /\ call.op = "truncate" /\ call.extent = -1 /\ Continue /\ [Next]_vars
      /\ AbstractCall # Idle
  BY DEF TruncateBelowArray, Continue, Next, AbstractCall, Idle
<1>2. /\ call \in TruncateCall /\ call.file \in File /\ ChunksLeft \in Nat
      /\ AbstractContent[call.file]
           = Blanked(Bytes(call.file), ChunksLeft * CHUNK_SIZE,
                     ChunksLeft * CHUNK_SIZE - (call.amount % CHUNK_SIZE))
  BY <1>1, TruncationNow DEF TruncationSeen
<1>3. files[call.file].allocated_size = 0 /\ Bytes(call.file) = <<>>
  BY <1>1, <1>2, NothingOccupied DEF EmptyFiles, DataInv, ProgressInv
<1>4. /\ call.deleted_chunks_count = FullChunks /\ call.amount % CHUNK_SIZE = 0
      /\ ChunksLeft = 0
  <2>1. call.deleted_chunks_count \in Nat /\ FullChunks \in Nat
    BY <1>2, FileLogicAssumption, StorageAssumption, DivMod DEF FullChunks, TruncateCall
  <2>2. call.deleted_chunks_count = FullChunks
    BY <1>1, <1>3, <2>1 DEF DataInv, IInv, CallInv, ProgressInv
  <2>3. QED
    BY <1>1, <1>3, <2>1, <2>2 DEF DataInv, ProgressInv, ChunksLeft
<1>5. Refuse("SUCCESS")
  BY <1>4 DEF TruncateBelowArray
<1>6. AbstractContent[call.file] = <<>>
  <2>1. 0 * CHUNK_SIZE = 0 /\ 0 - 0 = 0
    BY StorageAssumption
  <2>2. AbstractContent[call.file] = Blanked(<<>>, 0, 0)
    BY <1>2, <1>3, <1>4, <2>1, Zenon
  <2>3. Blanked(<<>>, 0, 0) = <<>>
    <3>1. 1 .. 0 = {}
      OBVIOUS
    <3>2. QED
      BY <3>1 DEF Blanked
  <2>4. QED
    BY <2>2, <2>3
<1>7. ASSUME NEW g \in File, call.file = g PROVE Bytes(g)' = AbstractContent[g]
  <2>1. storage' = storage /\ files' = files
    BY <1>5 DEF Refuse, storageVars
  <2>2. Bytes(g)' = Bytes(g)
    BY <2>1, BytesAreSlots
  <2>3. QED
    BY <1>3, <1>6, <1>7, <2>2
<1>8. QED
  BY <1>1, <1>5, <1>7, Finishes DEF Refuse

\* A slot that keeps the front of its chunks, the last of them blanked at its end.
IsCut(e, s, e2, s2, i, n, r) ==
  /\ ~e[i].is_empty /\ ~e2[i].is_empty /\ e2[i].start = e[i].start
  /\ e2[i].chunk_amount = n /\ n <= e[i].chunk_amount
  /\ \A p \in 0 .. n - 1, b \in Offset :
       s2[e[i].start + p][b] = IF p = n - 1 /\ b > CHUNK_SIZE - r THEN EOC_OPERATOR
                               ELSE s[e[i].start + p][b]

LEMMA SlotCut ==
  ASSUME NEW e, NEW s, Fits(e, s), NEW e2, NEW s2, Fits(e2, s2), NEW i \in Index,
         NEW n \in Nat \ {0}, NEW r \in 0 .. CHUNK_SIZE - 1, IsCut(e, s, e2, s2, i, n, r)
  PROVE  /\ SlotBytes(e2, s2, i) = Blanked(SlotBytes(e, s, i), n * CHUNK_SIZE, n * CHUNK_SIZE - r)
         /\ n * CHUNK_SIZE \in Nat /\ n * CHUNK_SIZE <= Len(SlotBytes(e, s, i))
         /\ r \in 0 .. n * CHUNK_SIZE
<1> DEFINE c == CHUNK_SIZE
           m == n * c
           t == SlotBytes(e, s, i)
           u == SlotBytes(e2, s2, i)
           v == Blanked(t, m, m - r)
           start == e[i].start
<1>1. c \in Nat \ {0} /\ Offset = 1 .. c /\ r \in Nat
  BY StorageAssumption DEF Offset, Cell
<1>2. /\ e[i].chunk_amount \in Nat /\ t \in Seq(Cell) /\ Len(t) = e[i].chunk_amount * c
      /\ \A p \in 0 .. e[i].chunk_amount - 1, b \in Offset : t[p * c + b] = s[start + p][b]
      /\ u \in Seq(Cell) /\ Len(u) = n * c
      /\ \A p \in 0 .. n - 1, b \in Offset : u[p * c + b] = s2[start + p][b]
      /\ n <= e[i].chunk_amount
  <2>1. ~e[i].is_empty /\ ~e2[i].is_empty /\ e2[i].start = start /\ e2[i].chunk_amount = n
        /\ n <= e[i].chunk_amount
    BY DEF IsCut
  <2>2. e[i].chunk_amount \in Nat
    BY DEF Fits, ChunkExtent
  <2>3. IsSlot(t, e, s, i) /\ IsSlot(u, e2, s2, i)
    BY <2>1, SlotBytesAre
  <2> HIDE DEF t, u
  <2>4. /\ t \in Seq(Cell) /\ Len(t) = e[i].chunk_amount * c
        /\ \A p \in 0 .. e[i].chunk_amount - 1, b \in Offset : t[p * c + b] = s[start + p][b]
    BY <2>3 DEF IsSlot
  <2>5. /\ u \in Seq(Cell) /\ Len(u) = n * c
        /\ \A p \in 0 .. n - 1, b \in Offset : u[p * c + b] = s2[start + p][b]
    BY <2>1, <2>3 DEF IsSlot
  <2>6. QED
    BY <2>1, <2>2, <2>4, <2>5
<1> HIDE DEF t, u, start
<1>3. /\ m \in Nat /\ m <= Len(t) /\ n <= m
      /\ \A p \in 0 .. n - 1 : \A b \in Offset : p * c + b \in 1 .. m
  <2>1. /\ n * c \in Nat /\ n <= n * c /\ n * c <= e[i].chunk_amount * c
    <3>1. PICK q \in Nat : q = e[i].chunk_amount /\ n <= q
      BY <1>2
    <3>2. n * c \in Nat /\ n <= n * c /\ (n <= q <=> n * c <= q * c)
      BY <1>1, ProductOrder
    <3>3. QED
      BY <3>1, <3>2
  <2>2. \A p \in 0 .. n - 1, b \in Offset : p * c + b \in 1 .. n * c
    BY PlaceInChunks
  <2>3. QED
    BY <1>2, <2>1, <2>2
<1>4. m = (n - 1) * c + c /\ (n - 1) * c \in Nat
  <2>1. \A q \in Nat : (q + 1) * c = q * c + 1 * c /\ q * c \in Nat
    BY <1>1, ProductOrder
  <2>2. n - 1 \in Nat /\ n - 1 + 1 = n /\ 1 * c = c
    BY <1>1
  <2>3. (n - 1 + 1) * c = (n - 1) * c + 1 * c /\ (n - 1) * c \in Nat
    BY <2>1, <2>2
  <2>4. QED
    BY <2>2, <2>3
<1>5. r \in 0 .. m /\ m - r \in Int
  <2>1. PICK x \in Nat : x = (n - 1) * c
    BY <1>4
  <2>2. m = x + c
    BY <1>4, <2>1
  <2> HIDE DEF m, c
  <2>3. QED
    BY <1>1, <2>2 DEF c
<1> HIDE DEF m
<1>6. /\ v \in Seq(Cell) /\ Len(v) = m
      /\ \A x \in 1 .. m : v[x] = IF x <= m - r THEN t[x] ELSE EOC_OPERATOR
  <2>1. PICK kept \in Int : kept = m - r
    BY <1>5
  <2>2. IsBlanked(Blanked(t, m, kept), t, m, kept)
    <3>1. t \in Seq(Cell) /\ m \in Nat /\ m <= Len(t)
      BY <1>1, <1>2, <1>3
    <3> HIDE DEF c
    <3>2. QED
      BY <3>1, BlankedIs
  <2>3. QED
    BY <2>1, <2>2 DEF IsBlanked, v
<1> HIDE DEF v
<1>7. ASSUME NEW p \in 0 .. n - 1, NEW b \in Offset PROVE u[p * c + b] = v[p * c + b]
  <2>1. PICK x \in 1 .. m : x = p * c + b
    BY <1>3
  <2>2. p \in 0 .. e[i].chunk_amount - 1 /\ p \in Nat
    BY <1>2
  <2>3. x <= m - r <=> ~(p = n - 1 /\ b > c - r)
    <3>1. CASE p = n - 1
      <4>1. PICK y \in Nat : y = (n - 1) * c
        BY <1>4
      <4>2. x = y + b /\ m = y + c
        BY <1>4, <2>1, <3>1, <4>1
      <4> HIDE DEF c
      <4>3. QED
        BY <1>1, <3>1, <4>2
    <3>2. CASE p # n - 1
      <4>1. p < n - 1 /\ n - 1 \in Nat
        BY <2>2, <3>2
      <4>2. p * c + b <= (n - 1) * c
        BY <1>1, <2>2, <4>1, ProductOrder
      <4>3. PICK y \in Nat : y = (n - 1) * c
        BY <1>4
      <4>4. x <= y /\ m = y + c
        BY <1>4, <2>1, <4>2, <4>3
      <4> HIDE DEF c
      <4>5. x <= m - r
        BY <1>1, <4>4 DEF c
      <4>6. QED
        BY <3>2, <4>5
    <3>3. QED
      BY <3>1, <3>2
  <2>4. u[x] = s2[start + p][b] /\ t[x] = s[start + p][b]
    BY <1>2, <2>1, <2>2
  <2>5. s2[start + p][b] = IF p = n - 1 /\ b > c - r THEN EOC_OPERATOR ELSE s[start + p][b]
    BY DEF start, IsCut
  <2>6. v[x] = IF x <= m - r THEN t[x] ELSE EOC_OPERATOR
    BY <1>6
  <2>7. u[x] = v[x]
    BY <2>3, <2>4, <2>5, <2>6
  <2>8. QED
    BY <2>1, <2>7
<1>8. u = v
  <2>1. Len(v) = n * c
    BY <1>6 DEF m
  <2>2. QED
    BY <1>2, <1>6, <1>7, <2>1, SameChunks
<1>9. QED
  BY <1>3, <1>5, <1>8 DEF t, u, v, m

LEMMA TruncateTailRefines ==
  ASSUME DataInv, TruncateTail
  PROVE  Content!Finish
<1> USE FileStorageAssumption
<1>1. /\ call.op = "truncate" /\ Continue /\ [Next]_vars /\ AbstractCall # Idle
      /\ Return("SUCCESS")
  BY DEF TruncateTail, Continue, Next, AbstractCall, Idle
<1>2. DataInv'
  BY <1>1, DataStep
<1>3. PICK f \in File, i \in Index, start \in Nat, amount \in Nat, rest \in Nat, d \in Nat,
           size \in Nat :
        /\ f = call.file /\ i = call.extent /\ start = Extent(f, i).start
        /\ amount = Extent(f, i).chunk_amount /\ rest = FullChunks - call.deleted_chunks_count
        /\ d = call.deleted_chunks_count /\ size = files[f].allocated_size
  <2>1. call.file \in File /\ files[call.file].allocated_size \in Nat
    BY TruncateCuts DEF DataInv, IInv, LayoutInv, FilesTypeOK
  <2>2. QED
    BY <2>1, TruncateCuts
<1> DEFINE n == amount - rest
           r == call.amount % CHUNK_SIZE
           last == start + amount - rest - 1
           e == files[f].data_chunk_extents
           e2 == files'[f].data_chunk_extents
           front == SlotsBytes(e, storage, i)
           back == SlotBytes(e, storage, i)
<1>4. /\ LastExtent(f, i) /\ Occupied(f, i) /\ rest < amount
      /\ FileTruncateChunkExtent(f, i, rest) /\ Chtrunc(last, r)
      /\ FullChunks = d + rest
  <2>1. FullChunks \in Nat
    BY TruncateCuts
  <2>2. QED
    BY <1>3, <2>1, TruncateCuts
<1>5. /\ r \in 0 .. CHUNK_SIZE - 1 /\ ChunksLeft \in Nat
      /\ AbstractContent[f] = Blanked(Bytes(f), ChunksLeft * CHUNK_SIZE,
                                      ChunksLeft * CHUNK_SIZE - r)
  BY <1>1, <1>3, TruncationNow DEF TruncationSeen
<1>6. /\ n \in Nat \ {0} /\ last = start + (n - 1) /\ n <= amount
  BY <1>3, <1>4
<1>7. /\ \A j \in Index : j > i => ~Occupied(f, j)
      /\ \A j \in 0 .. i : j \in Index /\ Occupied(f, j)
      /\ Bytes(f) = front \o back /\ front \in Seq(Cell) /\ back \in Seq(Cell)
  BY <1>4, BytesEndWith DEF AllEnd, EndsWith
<1>8. /\ files'[f].allocated_size = size - rest
      /\ \A j \in Index : j # i => e2[j] = e[j]
      /\ ~e2[i].is_empty /\ e2[i].start = start /\ e2[i].chunk_amount = n
      /\ e[i].start = start /\ e[i].chunk_amount = amount /\ ~e[i].is_empty
  <2>1. /\ files \in [File -> [allocated_size : Nat, data_chunk_extents : [Index -> ChunkExtent]]]
        /\ e[i] \in ChunkExtent
    BY DEF DataInv, IInv, LayoutInv, FilesTypeOK
  <2>2. files' = [files EXCEPT ![f] =
          [allocated_size |-> files[f].allocated_size - rest,
           data_chunk_extents |->
             [e EXCEPT ![i] = [e[i] EXCEPT !.chunk_amount = e[i].chunk_amount - rest]]]]
    BY <1>4 DEF FileTruncateChunkExtent, Extent
  <2>3. files'[f] = [allocated_size |-> files[f].allocated_size - rest,
           data_chunk_extents |->
             [e EXCEPT ![i] = [e[i] EXCEPT !.chunk_amount = e[i].chunk_amount - rest]]]
    BY <2>1, <2>2
  <2>4. e2 = [e EXCEPT ![i] = [e[i] EXCEPT !.chunk_amount = e[i].chunk_amount - rest]]
        /\ files'[f].allocated_size = files[f].allocated_size - rest
    BY <2>3
  <2>5. e \in [Index -> ChunkExtent] /\ e[i].start = start /\ e[i].chunk_amount = amount
        /\ ~e[i].is_empty
    BY <1>3, <1>4, <2>1 DEF Extent, Occupied
  <2>6. e2[i] = [e[i] EXCEPT !.chunk_amount = n] /\ \A j \in Index : j # i => e2[j] = e[j]
    BY <2>4, <2>5
  <2>7. QED
    BY <1>3, <2>1, <2>4, <2>5, <2>6 DEF ChunkExtent
<1>9. /\ storage' = [storage EXCEPT ![last] =
           [b \in Offset |-> IF b > CHUNK_SIZE - r THEN EOC_OPERATOR ELSE storage[last][b]]]
      /\ last \in ExtentSpan(f, i) /\ \A p \in 0 .. n - 1 : start + p \in ExtentSpan(f, i)
      /\ ExtentSpan(f, i) \subseteq Chunk
      /\ storage \in [Chunk -> [Offset -> Cell]]
  <2>1. \A p \in 0 .. n - 1 : start + p \in ExtentSpan(f, i)
    BY <1>3, <1>6 DEF ExtentSpan, Span
  <2>2. last \in ExtentSpan(f, i)
    <3>1. n - 1 \in 0 .. n - 1
      BY <1>6
    <3>2. QED
      BY <1>6, <2>1, <3>1
  <2>3. ExtentSpan(f, i) \subseteq Chunk
    BY <1>4, OwnedInChunks DEF DataInv, IInv, LayoutInv
  <2>4. QED
    BY <1>4, <2>1, <2>2, <2>3 DEF Chtrunc, DataInv, IInv, LayoutInv, StorageTypeOK, Cell
<1> HIDE DEF n, r, last
<1>10. SlotsBytes(e2, storage', i) = front
  <2>1. \A j \in 0 .. i - 1 : e2[j] = e[j]
    <3>1. \A j \in 0 .. i - 1 : j \in Index /\ j # i
      BY DEF Index, LastIndex
    <3>2. QED
      BY <1>8, <3>1
  <2>2. \A c \in Chunk : c \notin ExtentSpan(f, i) => storage'[c] = storage[c]
    BY <1>9
  <2> HIDE DEF e2
  <2>3. QED
    BY <1>4, <2>1, <2>2, FrontKeepsBytes
<1>11. Fits(e, storage) /\ Fits(e2, storage')
  BY <1>2, HeldNow, HeldNext DEF AllHeld, DataInv, IInv
<1>12. \A p \in 0 .. n - 1, b \in Offset :
         storage'[start + p][b] = IF p = n - 1 /\ b > CHUNK_SIZE - r THEN EOC_OPERATOR
                                  ELSE storage[start + p][b]
  <2>1. ASSUME NEW p \in 0 .. n - 1, NEW b \in Offset
        PROVE  storage'[start + p][b] = IF p = n - 1 /\ b > CHUNK_SIZE - r THEN EOC_OPERATOR
                                        ELSE storage[start + p][b]
    <3>1. start + p \in Chunk /\ last \in Chunk
      BY <1>9
    <3>2. CASE p = n - 1
      <4>1. start + p = last
        BY <1>6, <3>2
      <4>2. storage'[last] = [o \in Offset |-> IF o > CHUNK_SIZE - r THEN EOC_OPERATOR
                                               ELSE storage[last][o]]
        BY <1>9, <3>1
      <4>3. QED
        BY <3>2, <4>1, <4>2
    <3>3. CASE p # n - 1
      <4>1. start + p # last
        BY <1>6, <3>3
      <4>2. storage'[start + p] = storage[start + p]
        BY <1>9, <3>1, <4>1
      <4>3. QED
        BY <3>3, <4>2
    <3>4. QED
      BY <3>2, <3>3
  <2>2. QED
    BY <2>1
<1> DEFINE m == n * CHUNK_SIZE
           back2 == SlotBytes(e2, storage', i)
<1>13. /\ back2 = Blanked(back, m, m - r)
       /\ m \in Nat /\ m <= Len(back) /\ r \in 0 .. m
  <2> HIDE DEF e, e2
  <2>1. PICK s2 : s2 = storage'
    OBVIOUS
  <2>2. PICK x2 : x2 = e2
    OBVIOUS
  <2>3. Fits(x2, s2) /\ IsCut(e, storage, x2, s2, i, n, r)
    BY <1>6, <1>8, <1>11, <1>12, <2>1, <2>2 DEF IsCut
  <2>4. /\ SlotBytes(x2, s2, i) = Blanked(SlotBytes(e, storage, i), m, m - r)
        /\ m \in Nat /\ m <= Len(SlotBytes(e, storage, i)) /\ r \in 0 .. m
    BY <1>5, <1>6, <1>11, <2>3, SlotCut
  <2>5. QED
    BY <2>1, <2>2, <2>4
<1> HIDE DEF m
<1>14. Bytes(f)' = front \o back2
  <2>1. LastExtent(f, i)'
    <3>1. \A j \in Index : Occupied(f, j)' <=> Occupied(f, j)
      BY <1>8 DEF Occupied, Extent
    <3>2. i < LastIndex => i + 1 \in Index
      BY DEF Index, LastIndex
    <3>3. QED
      BY <1>4, <1>7, <3>1, <3>2 DEF LastExtent
  <2>2. Bytes(f)' = SlotsBytes(e2, storage', i) \o SlotBytes(e2, storage', i)
    BY <1>2, <2>1, BytesEndWithNext DEF AllEnd, EndsWith
  <2>3. QED
    BY <1>10, <2>2
<1>15. /\ front \o back2 = Blanked(Bytes(f), Len(front) + m, (Len(front) + m) - r)
       /\ Len(front \o back2) = Len(front) + m
  <2>1. PICK x \in Seq(Cell), y \in Seq(Cell) : x = front /\ y = back
    BY <1>7
  <2> HIDE DEF front, back, back2
  <2>2. PICK k \in Nat : k = m /\ k <= Len(y)
    BY <1>13, <2>1
  <2>3. PICK q \in 0 .. k : q = r
    BY <1>13, <2>2
  <2>4. x \o Blanked(y, k, k - q) = Blanked(x \o y, Len(x) + k, (Len(x) + k) - q)
    <3>1. k <= Len(y)
      BY <2>2
    <3>2. QED
      BY <3>1, BlankedBehind
  <2>5. Len(x \o Blanked(y, k, k - q)) = Len(x) + k
    <3>1. PICK kept \in Int : kept = k - q
      OBVIOUS
    <3>2. IsBlanked(Blanked(y, k, kept), y, k, kept)
      BY <2>2, BlankedIs
    <3>3. QED
      BY <3>1, <3>2 DEF IsBlanked
  <2>6. QED
    BY <1>7, <1>13, <2>1, <2>2, <2>3, <2>4, <2>5
<1>16. Len(front) + m = ChunksLeft * CHUNK_SIZE
  <2>1. Len(Bytes(f)') = (size - rest) * CHUNK_SIZE
    BY <1>2, <1>8, HeldNext DEF AllHeld, DataInv, IInv
  <2>2. ChunksLeft = size - rest
    BY <1>3, <1>4 DEF ChunksLeft
  <2>3. QED
    BY <1>14, <1>15, <2>1, <2>2
<1>17. Bytes(f)' = AbstractContent[f]
  <2> HIDE DEF front, back, back2
  <2>1. PICK total : total = Len(front) + m
    OBVIOUS
  <2>2. PICK length : length = ChunksLeft * CHUNK_SIZE
    OBVIOUS
  <2>3. total = length
    BY <1>16, <2>1, <2>2
  <2>4. front \o back2 = Blanked(Bytes(f), total, total - r)
    BY <1>15, <2>1
  <2>5. AbstractContent[f] = Blanked(Bytes(f), length, length - r)
    BY <1>5, <2>2, Zenon
  <2>6. QED
    BY <1>14, <2>3, <2>4, <2>5, Zenon
<1>18. \A g \in File : call.file = g => Bytes(g)' = AbstractContent[g]
  BY <1>3, <1>17
<1>19. QED
  BY <1>1, <1>18, Finishes

-----------------------------------------------------------------------------
(* A deletion leaves nothing *)

LEMMA DeleteStartRefines ==
  ASSUME DataInv, NEW f \in File, DeleteStart(f)
  PROVE  Content!DeleteData(f)
<1>1. /\ call = Idle /\ UNCHANGED <<storage, files>> /\ status' = status /\ [Next]_vars
      /\ call' = [op |-> "delete", file |-> f, extent |-> 0]
  BY DEF DeleteStart, storageVars, Next, Start
<1>2. /\ call'.op = "delete" /\ call'.file = f /\ call' # Idle
      /\ AbstractCall' = [op |-> "delete", file |-> f]
  BY <1>1 DEF Idle, AbstractCall
<1>3. AbstractContent'[f] = <<>>
  BY <1>2, ContentNext DEF ContentIs
<1>4. \A g \in File : g # f => files'[g] = files[g]
  BY <1>1
<1>5. Content!Perform([op |-> "delete", file |-> f], f, <<>>)
  BY <1>1, <1>2, <1>3, <1>4, Performs
<1>6. QED
  BY <1>5 DEF Content!DeleteData

\* An extent that goes is none of FileContent's business: the file is empty to it already.
LEMMA DeleteRefines ==
  ASSUME DataInv, DeleteExtent \/ DeleteSkipEmpty
  PROVE  Content!Finish \/ UNCHANGED Content!vars
<1>1. /\ call.op = "delete" /\ Continue /\ [Next]_vars /\ AbstractCall # Idle /\ IInv
  BY DEF DeleteExtent, DeleteSkipEmpty, Continue, Next, AbstractCall, Idle, DataInv
<1>2. DataInv'
  BY <1>1, DataStep
<1>3. call \in DeleteCall
  BY <1>1 DEF IInv, Call, Idle, AppendCall, TruncateCall
<1>4. PICK f \in File : f = call.file
  BY <1>3 DEF DeleteCall
<1>5. AbstractContent[f] = <<>>
  BY <1>1, <1>4, ContentNow DEF ContentIs
<1>6. CASE call' # Idle
  <2>1. /\ call'.op = "delete" /\ call'.file = f /\ status' = status
        /\ AbstractCall' = AbstractCall
    BY <1>1, <1>3, <1>4, <1>6
       DEF DeleteExtent, DeleteSkipEmpty, Return, DeleteCall, AbstractCall
  <2>2. AbstractContent'[f] = <<>>
    BY <2>1, ContentNext DEF ContentIs
  <2>3. \A g \in File : call.file = g => AbstractContent'[g] = AbstractContent[g]
    BY <1>4, <1>5, <2>2
  <2>4. QED
    BY <1>1, <1>6, <2>1, <2>3, Stutters
<1>7. CASE call' = Idle
  <2>1. Return("SUCCESS")
    BY <1>1, <1>7 DEF DeleteExtent, DeleteSkipEmpty, Return, Idle
  <2>2. \A i \in Index : ~Occupied(f, i)'
    BY <1>1, <1>4, <1>7, DeleteEmpties DEF DataInv, ProgressInv
  <2>3. Bytes(f)' = <<>>
    BY <1>2, <2>2, NothingOccupiedNext DEF EmptyFiles
  <2>4. \A g \in File : call.file = g => Bytes(g)' = AbstractContent[g]
    BY <1>4, <1>5, <2>3
  <2>5. QED
    BY <1>1, <2>1, <2>4, Finishes
<1>8. QED
  BY <1>6, <1>7

-----------------------------------------------------------------------------
(* FileContent is implemented *)

LEMMA InitRefines == Init => Content!Init
<1> SUFFICES ASSUME Init PROVE Content!Init
  OBVIOUS
<1>1. DataInv /\ call = Idle /\ status = "SUCCESS"
  BY DataInitially DEF Init
<1>2. \A f \in File, i \in Index : ~Occupied(f, i)
  BY DEF Init, FilesInit, Occupied, Extent, EmptyExtent
<1>3. ASSUME NEW f \in File PROVE AbstractContent[f] = <<>>
  <2>1. Bytes(f) = <<>>
    BY <1>1, <1>2, NothingOccupied DEF EmptyFiles
  <2>2. QED
    BY <1>1, <2>1, ContentNow DEF ContentIs
<1>4. AbstractContent = [f \in File |-> <<>>]
  <2>1. AbstractContent = [f \in File |-> AbstractContent[f]]
    BY ContentNow DEF ContentIs
  <2>2. [f \in File |-> AbstractContent[f]] = [f \in File |-> <<>>]
    BY <1>3
  <2>3. QED
    BY <2>1, <2>2, Zenon
<1>5. AbstractCall = Content!NoCall
  BY <1>1 DEF AbstractCall, Idle, Content!NoCall
<1>6. QED
  BY <1>1, <1>4, <1>5 DEF Content!Init

LEMMA UnchangedRefines == UNCHANGED vars => UNCHANGED Content!vars
<1> SUFFICES ASSUME UNCHANGED vars PROVE UNCHANGED Content!vars
  OBVIOUS
<1>1. UNCHANGED <<storage, files, call, status>>
  BY DEF vars, storageVars
<1>2. \A f : Bytes(f)' = Bytes(f)
  BY <1>1, BytesAreSlots
<1>3. \A f, i : BytesUpTo(f, i)' = BytesUpTo(f, i)
  BY <1>1, BytesAreSlots
<1>4. AbstractContent' = AbstractContent
  <2>1. ASSUME NEW f \in File PROVE ContentOf(f)' = ContentOf(f)
    BY <1>1 DEF ContentOf, Block, Bytes, BytesUpTo, ExtentBytes, Occupied, Extent, ChunksAmount
  <2>2. QED
    BY <2>1 DEF AbstractContent
<1>5. AbstractCall' = AbstractCall
  BY <1>1 DEF AbstractCall
<1>6. QED
  BY <1>1, <1>4, <1>5 DEF Content!vars

\* Every step is one FileContent allows, or none to it.
LEMMA StepRefines == DataInv /\ [Next]_vars => [Content!Next]_(Content!vars)
<1> SUFFICES ASSUME DataInv, [Next]_vars PROVE Content!Next \/ UNCHANGED Content!vars
  OBVIOUS
<1>1. ASSUME NEW f \in File, NEW data \in Data, AppendRefused(f, data) \/ AppendStart(f, data)
      PROVE  Content!Next
  <2>1. Content!AppendData(f, data)
    BY <1>1, AppendStartRefines, AppendRefusedRefines
  <2>2. QED
    BY <2>1 DEF Content!Next
<1>2. ASSUME NEW f \in File, NEW amount \in Amount,
             TruncateRefused(f, amount) \/ TruncateStart(f, amount)
      PROVE  Content!Next
  <2>1. Content!Truncate(f, amount)
    BY <1>2, TruncateStartRefines, TruncateRefusedRefines
  <2>2. QED
    BY <2>1 DEF Content!Next
<1>3. ASSUME NEW f \in File, DeleteStart(f) PROVE Content!Next
  <2>1. Content!DeleteData(f)
    BY <1>3, DeleteStartRefines
  <2>2. QED
    BY <2>1 DEF Content!Next
<1>4. CASE Continue
  <2>1. Content!Finish \/ UNCHANGED Content!vars
    BY <1>4, AppendWriteRefines, TruncateWholeRefines, TruncateBelowRefines,
       TruncateTailRefines, DeleteRefines DEF Continue
  <2>2. QED
    BY <2>1 DEF Content!Next
<1>5. CASE UNCHANGED vars
  BY <1>5, UnchangedRefines
<1>6. QED
  BY <1>1, <1>2, <1>3, <1>4, <1>5 DEF Next, Start

\* Whatever chunks the data goes to, the file operations do to the bytes of the files what
\* FileContent says, and nothing else: file_append, file_truncate_by and
\* file_delete_data, with the calls that fail their tests (file_logic.c:32-137, :399-485,
\* :556-587).
THEOREM ImplementsContent == Spec => ImplementsFileContent
<1>1. Spec => Content!Init /\ [][Content!Next]_(Content!vars)
  <2>1. Init => Content!Init
    BY InitRefines
  <2>2. DataInv /\ [Next]_vars => [Content!Next]_(Content!vars)
    BY StepRefines
  <2>3. Spec => []DataInv
    BY DataInvariant
  <2>4. QED
    BY <2>1, <2>2, <2>3, PTL DEF Spec
<1>2. QED
  BY <1>1 DEF ImplementsFileContent, Content!Spec
=============================================================================
