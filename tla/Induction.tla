-------------------------------- MODULE Induction --------------------------------
(***************************************************************************)
(* Induction over the natural numbers for the proof modules, as facts      *)
(* about sets and functions: a set of counterexamples has a least element. *)
(***************************************************************************)
EXTENDS WellFoundedInduction, TLAPS

LEMMA LessThanWellFounded == IsWellFoundedOn({p \in Nat \X Nat : p[1] < p[2]}, Nat)
BY NatLessThanWellFounded DEF OpToRel

LEMMA LeastElement ==
  ASSUME NEW T \in SUBSET Nat, T # {}
  PROVE  \E m \in T : \A n \in T : m <= n
<1> DEFINE R == {p \in Nat \X Nat : p[1] < p[2]}
<1>1. IsWellFoundedOn(R, Nat)
  BY LessThanWellFounded
<1>2. PICK m \in T : \A n \in T : <<n, m>> \notin R
  <2> HIDE DEF R
  <2> QED
    BY <1>1, WFMin
<1>3. \A n \in T : ~(n < m)
  BY <1>2
<1>4. QED
  BY <1>2, <1>3

\* A set that holds 0 and, with every number below n, its successor, holds all
\* the numbers up to n.
LEMMA UpTo ==
  ASSUME NEW n \in Nat, NEW T, 0 \in T, \A i \in 0 .. n - 1 : i \in T => i + 1 \in T
  PROVE  \A i \in 0 .. n : i \in T
<1> DEFINE missing == {i \in 0 .. n : i \notin T}
<1> SUFFICES ASSUME missing # {} PROVE FALSE
  OBVIOUS
<1>1. PICK m \in missing : \A i \in missing : m <= i
  <2>1. missing \in SUBSET Nat
    OBVIOUS
  <2> HIDE DEF missing
  <2> QED
    BY <2>1, LeastElement
<1>2. m - 1 \in 0 .. n - 1 /\ m - 1 + 1 = m
  BY <1>1
<1>3. m - 1 \in T
  <2>1. m - 1 \notin missing
    BY <1>1, <1>2
  <2>2. QED
    BY <1>2, <2>1
<1>4. QED
  BY <1>1, <1>2, <1>3

\* What a recursive definition promises is there: a function that starts with b and
\* makes every value from the one before it.
LEMMA Recursion ==
  ASSUME NEW S, NEW b \in S, NEW n \in Nat, NEW step \in [1 .. n -> [S -> S]]
  PROVE  \E f \in [0 .. n -> S] :
           f[0] = b /\ \A i \in 1 .. n : f[i] = step[i][f[i - 1]]
<1> DEFINE Starts(k, f) == f[0] = b /\ \A i \in 1 .. k : f[i] = step[i][f[i - 1]]
           T == {k \in 0 .. n : \E f \in [0 .. k -> S] : Starts(k, f)}
<1>1. 0 \in T
  <2> DEFINE f == [i \in 0 .. 0 |-> b]
  <2>1. f \in [0 .. 0 -> S] /\ Starts(0, f) /\ 0 \in 0 .. n
    OBVIOUS
  <2> HIDE DEF f, Starts
  <2>2. QED
    BY <2>1
<1>2. ASSUME NEW k \in 0 .. n - 1, k \in T PROVE k + 1 \in T
  <2>1. PICK f \in [0 .. k -> S] : Starts(k, f)
    BY <1>2
  <2> DEFINE g == [i \in 0 .. k + 1 |-> IF i = k + 1 THEN step[k + 1][f[k]] ELSE f[i]]
  <2>2. step[k + 1][f[k]] \in S
    <3>1. k + 1 \in 1 .. n /\ f[k] \in S
      OBVIOUS
    <3>2. QED
      BY <3>1
  <2>3. g \in [0 .. k + 1 -> S]
    BY <2>2
  <2>4. ASSUME NEW i \in 1 .. k + 1 PROVE g[i] = step[i][g[i - 1]]
    <3>1. CASE i = k + 1
      <4>1. g[i - 1] = f[k] /\ g[i] = step[k + 1][f[k]]
        BY <3>1
      <4>2. QED
        BY <3>1, <4>1
    <3>2. CASE i \in 1 .. k
      <4>1. g[i] = f[i] /\ g[i - 1] = f[i - 1]
        BY <3>2
      <4>2. f[i] = step[i][f[i - 1]]
        BY <2>1, <3>2
      <4>3. QED
        BY <4>1, <4>2
    <3>3. QED
      BY <3>1, <3>2
  <2>5. Starts(k + 1, g)
    <3>1. g[0] = b
      BY <2>1
    <3> HIDE DEF g
    <3>2. QED
      BY <2>4, <3>1
  <2>6. k + 1 \in 0 .. n
    OBVIOUS
  <2> HIDE DEF g, Starts
  <2>7. QED
    BY <2>3, <2>5, <2>6
<1>3. n \in T
  <2> HIDE DEF T
  <2>1. \A i \in 0 .. n : i \in T
    BY <1>1, <1>2, UpTo
  <2>2. QED
    BY <2>1
<1>4. QED
  BY <1>3
=============================================================================
