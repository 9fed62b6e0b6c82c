------------------------------ MODULE Induction ------------------------------
(***************************************************************************)
(* Induction and recursive functions on intervals of numbers, from the     *)
(* well-foundedness of Nat.  A set takes the place of the predicate that   *)
(* an induction proves.                                                    *)
(***************************************************************************)
EXTENDS Integers, WellFoundedInduction, TLAPS

LessThan == {pair \in Nat \X Nat : pair[1] < pair[2]}

LEMMA LeastNumber ==
  ASSUME NEW T, T \subseteq Nat, T # {}
  PROVE  \E x \in T : \A y \in T : x <= y
<1>1. IsWellFoundedOn(LessThan, Nat)  BY NatLessThanWellFounded DEF OpToRel, LessThan
<1>2. \E x \in T : \A y \in T : ~(<<y, x>> \in LessThan)  BY <1>1, WFMin
<1>3. ASSUME NEW x \in T, NEW y \in T, ~(<<y, x>> \in LessThan) PROVE x <= y
  BY <1>3 DEF LessThan
<1> QED  BY <1>2, <1>3

LEMMA Upwards ==
  ASSUME NEW N \in Nat, NEW T, 1 \in T, \A i \in 2..N : i - 1 \in T => i \in T
  PROVE  \A i \in 1..N : i \in T
<1> DEFINE B == {i \in 1..N : i \notin T}
<1> SUFFICES ASSUME B # {} PROVE FALSE  OBVIOUS
<1>1. B \subseteq Nat  OBVIOUS
<1>2. PICK b \in B : \A y \in B : b <= y  BY <1>1, LeastNumber
<1>3. b \in 1..N /\ b \notin T /\ b # 1  OBVIOUS
<1>4. b - 1 \notin B  BY <1>2, <1>3
<1>5. b - 1 \in T /\ b \in 2..N  BY <1>3, <1>4
<1> QED  BY <1>3, <1>5

LEMMA Downwards ==
  ASSUME NEW N \in Nat, NEW T, N \in T, \A i \in 1..(N - 1) : i + 1 \in T => i \in T
  PROVE  \A i \in 1..N : i \in T
<1> DEFINE U == {k \in Nat : N + 1 - k \in T}
<1>1. 1 \in U  OBVIOUS
<1>2. ASSUME NEW k \in 2..N, k - 1 \in U PROVE k \in U
  <2>1. N + 1 - k \in 1..(N - 1) /\ N + 1 - k + 1 = N + 1 - (k - 1)  OBVIOUS
  <2>2. N + 1 - (k - 1) \in T  BY <1>2
  <2>3. N + 1 - k \in T  BY <2>1, <2>2
  <2> QED  BY <2>3
<1>3. \A k \in 1..N : k \in U
  <2> HIDE DEF U
  <2> QED  BY <1>1, <1>2, Upwards
<1>4. ASSUME NEW i \in 1..N PROVE i \in T
  <2>1. N + 1 - i \in 1..N /\ N + 1 - (N + 1 - i) = i  OBVIOUS
  <2>2. N + 1 - i \in U  BY <1>3, <2>1
  <2> QED  BY <2>1, <2>2
<1> QED  BY <1>4

\* f is computed from its first value on, or from its last one back.
Up(f, N, first, step) == f[1] = first /\ \A i \in 2..N : f[i] = step[<<i, f[i - 1]>>]
Down(f, N, last, step) == f[N] = last /\ \A i \in 1..(N - 1) : f[i] = step[<<i, f[i + 1]>>]

LEMMA UpwardsFunction ==
  ASSUME NEW N \in Nat \ {0}, NEW S, NEW first \in S, NEW step \in [Int \X S -> S]
  PROVE  \E f \in [1..N -> S] : Up(f, N, first, step)
<1> DEFINE Fits(f, n) == /\ f \in [1..n -> S] /\ f[1] = first
                         /\ \A i \in 2..n : f[i] = step[<<i, f[i - 1]>>]
           T == {n \in Nat : \E f : Fits(f, n)}
<1>1. 1 \in T
  <2>1. Fits([i \in 1..1 |-> first], 1)  OBVIOUS
  <2> HIDE DEF Fits
  <2> QED  BY <2>1
<1>2. ASSUME NEW n \in 2..N, n - 1 \in T PROVE n \in T
  <2>1. PICK g : Fits(g, n - 1)  BY <1>2
  <2> DEFINE f == [i \in 1..n |-> IF i = n THEN step[<<n, g[n - 1]>>] ELSE g[i]]
  <2>2. g[n - 1] \in S /\ n \in Int /\ n - 1 \in 1..(n - 1)  BY <2>1
  <2>3. step[<<n, g[n - 1]>>] \in S  BY <2>2
  <2>4. f \in [1..n -> S]
    <3>1. ASSUME NEW i \in 1..n PROVE f[i] \in S
      <4>1. i = n \/ i \in 1..(n - 1)  OBVIOUS
      <4> QED  BY <2>1, <2>3, <4>1
    <3> QED  BY <3>1
  <2>5. f[1] = first  BY <2>1
  <2>6. ASSUME NEW i \in 2..n PROVE f[i] = step[<<i, f[i - 1]>>]
    <3>1. i - 1 \in 1..n /\ i - 1 # n /\ f[i - 1] = g[i - 1]  OBVIOUS
    <3>2. CASE i = n  BY <3>1, <3>2
    <3>3. CASE i # n
      <4>1. i \in 2..(n - 1)  BY <3>3
      <4>2. g[i] = step[<<i, g[i - 1]>>]  BY <2>1, <4>1
      <4> QED  BY <3>1, <3>3, <4>2
    <3> QED  BY <3>2, <3>3
  <2>7. Fits(f, n)  BY <2>4, <2>5, <2>6
  <2> HIDE DEF Fits, f
  <2>8. \E h : Fits(h, n)  BY <2>7
  <2> QED  BY <2>8
<1>3. N \in T
  <2> HIDE DEF T
  <2>1. \A i \in 1..N : i \in T  BY <1>1, <1>2, Upwards
  <2> QED  BY <2>1
<1>4. PICK f : Fits(f, N)  BY <1>3
<1> QED  BY <1>4 DEF Up

LEMMA DownwardsFunction ==
  ASSUME NEW N \in Nat \ {0}, NEW S, NEW last \in S, NEW step \in [Int \X S -> S]
  PROVE  \E f \in [1..N -> S] : Down(f, N, last, step)
<1> DEFINE back == [a \in Int \X S |-> step[<<N + 1 - a[1], a[2]>>]]
<1>1. back \in [Int \X S -> S]  OBVIOUS
<1>2. \E g \in [1..N -> S] : Up(g, N, last, back)
  <2> HIDE DEF back
  <2> QED  BY <1>1, UpwardsFunction
<1>3. PICK g \in [1..N -> S] : g[1] = last /\ \A i \in 2..N : g[i] = back[<<i, g[i - 1]>>]
  <2> HIDE DEF back
  <2> QED  BY <1>2 DEF Up
<1> DEFINE f == [i \in 1..N |-> g[N + 1 - i]]
<1>4. f \in [1..N -> S] /\ f[N] = last  BY <1>3
<1>5. ASSUME NEW i \in 1..(N - 1) PROVE f[i] = step[<<i, f[i + 1]>>]
  <2> DEFINE k == N + 1 - i
  <2>1. k \in 2..N /\ k - 1 \in 1..N /\ N + 1 - k = i /\ k - 1 = N + 1 - (i + 1) /\ k \in Int
    OBVIOUS
  <2>2. f[i] = g[k] /\ f[i + 1] = g[k - 1]  BY <2>1
  <2> HIDE DEF k
  <2>3. g[k] = back[<<k, g[k - 1]>>] /\ g[k - 1] \in S  BY <1>3, <2>1
  <2>4. back[<<k, g[k - 1]>>] = step[<<N + 1 - k, g[k - 1]>>]  BY <2>1, <2>3
  <2> QED  BY <2>1, <2>2, <2>3, <2>4
<1> HIDE DEF f
<1> QED  BY <1>4, <1>5 DEF Down

\* A function whose values are computed from any later ones.
Jumping(f, N, base, to, step) ==
  \A p \in 1..N : f[p] = IF to[p] > p THEN step[<<p, f[to[p]]>>] ELSE base[p]

LEMMA JumpsFunction ==
  ASSUME NEW N \in Nat \ {0}, NEW S, NEW base \in [1..N -> S], NEW to \in [1..N -> 1..N],
         NEW step \in [Int \X S -> S]
  PROVE  \E f \in [1..N -> S] : Jumping(f, N, base, to, step)
<1> DEFINE H == [1..N -> S]
           Put(i, h) == [h EXCEPT ![i] = IF to[i] > i THEN step[<<i, h[to[i]]>>] ELSE base[i]]
           grow == [a \in Int \X H |-> IF a[1] \in 1..N THEN Put(a[1], a[2]) ELSE base]
<1>1. ASSUME NEW i \in 1..N, NEW h \in H
      PROVE  /\ Put(i, h) \in H
             /\ \A j \in 1..N : j # i => Put(i, h)[j] = h[j]
             /\ Put(i, h)[i] = IF to[i] > i THEN step[<<i, h[to[i]]>>] ELSE base[i]
  <2>1. to[i] \in 1..N /\ h[to[i]] \in S /\ base[i] \in S /\ <<i, h[to[i]]>> \in Int \X S
    OBVIOUS
  <2>2. step[<<i, h[to[i]]>>] \in S  BY <2>1
  <2> QED  BY <2>1, <2>2
<1>2. grow \in [Int \X H -> H] /\ base \in H
  <2> HIDE DEF Put, H
  <2>1. ASSUME NEW a \in Int \X H PROVE (IF a[1] \in 1..N THEN Put(a[1], a[2]) ELSE base) \in H
    <3>1. base \in H  BY DEF H
    <3> QED  BY <1>1, <3>1
  <2>2. base \in H  BY DEF H
  <2> QED  BY <2>1, <2>2
<1>3. PICK h \in [1..N -> H] : Down(h, N, base, grow)
  <2> HIDE DEF grow, H
  <2> QED  BY <1>2, DownwardsFunction
<1>4. ASSUME NEW i \in 1..(N - 1) PROVE i \in 1..N /\ i + 1 \in 1..N /\ h[i + 1] \in H /\ h[i] = Put(i, h[i + 1])
  <2> HIDE DEF H, Put
  <2>1. i \in 1..N /\ i + 1 \in 1..N /\ i \in Int  OBVIOUS
  <2>2. h[i + 1] \in H /\ <<i, h[i + 1]>> \in Int \X H  BY <2>1
  <2>3. grow[<<i, h[i + 1]>>] = Put(i, h[i + 1])  BY <2>1, <2>2
  <2>4. h[i] = grow[<<i, h[i + 1]>>]
    <3> HIDE DEF grow
    <3> QED  BY <1>3 DEF Down
  <2> QED  BY <2>1, <2>2, <2>3, <2>4
<1>5. h[N] = base  BY <1>3 DEF Down
<1> HIDE DEF grow, Put
\* Later values stay as they are.
<1>6. \A i \in 1..N : \A j \in i..N : h[i][j] = h[j][j]
  <2> DEFINE T == {i \in 1..N : \A j \in i..N : h[i][j] = h[j][j]}
  <2>1. N \in T  OBVIOUS
  <2>2. ASSUME NEW i \in 1..(N - 1), i + 1 \in T PROVE i \in T
    <3>1. ASSUME NEW j \in i..N PROVE h[i][j] = h[j][j]
      <4>1. CASE j = i  BY <4>1
      <4>2. CASE j # i
        <5>1. j \in (i + 1)..N /\ j \in 1..N  BY <4>2
        <5>2. h[i + 1][j] = h[j][j]  BY <2>2, <5>1
        <5>3. h[i][j] = h[i + 1][j]
          <6>1. i \in 1..N /\ h[i + 1] \in H /\ h[i] = Put(i, h[i + 1])  BY <1>4
          <6> HIDE DEF H
          <6>2. Put(i, h[i + 1])[j] = h[i + 1][j]  BY <1>1, <4>2, <5>1, <6>1
          <6> QED  BY <6>1, <6>2
        <5> QED  BY <5>2, <5>3
      <4> QED  BY <4>1, <4>2
    <3>2. i \in 1..N  OBVIOUS
    <3> QED  BY <3>1, <3>2
  <2>3. \A i \in 1..N : i \in T
    <3> HIDE DEF T
    <3> QED  BY <2>1, <2>2, Downwards
  <2> QED  BY <2>3
<1> DEFINE f == h[1]
<1>7. f \in [1..N -> S]  OBVIOUS
<1>8. ASSUME NEW p \in 1..N
      PROVE  f[p] = IF to[p] > p THEN step[<<p, f[to[p]]>>] ELSE base[p]
  <2>0. 1 \in 1..N /\ to[p] \in 1..N /\ p \in 1..N  OBVIOUS
  <2>1. f[p] = h[p][p]  BY <1>6, <2>0
  <2>2. CASE p = N
    <3>1. ~(to[p] > p)  BY <2>0, <2>2
    <3> QED  BY <1>5, <2>1, <2>2, <3>1
  <2>3. CASE p # N
    <3>1. p \in 1..(N - 1)  BY <2>3
    <3>2. h[p][p] = IF to[p] > p THEN step[<<p, h[p + 1][to[p]]>>] ELSE base[p]
      <4>1. p \in 1..N /\ h[p + 1] \in H /\ h[p] = Put(p, h[p + 1])  BY <1>4, <3>1
      <4> DEFINE next == h[p + 1]
      <4> HIDE DEF H, next
      <4>2. Put(p, next)[p] = IF to[p] > p THEN step[<<p, next[to[p]]>>] ELSE base[p]
        BY <1>1, <4>1 DEF next
      <4> QED  BY <4>1, <4>2 DEF next
    <3>3. to[p] > p => h[p + 1][to[p]] = f[to[p]]
      <4>1. SUFFICES ASSUME to[p] > p PROVE h[p + 1][to[p]] = f[to[p]]  OBVIOUS
      <4>2. to[p] \in (p + 1)..N /\ to[p] \in 1..N /\ p + 1 \in 1..N  BY <2>0, <3>1, <4>1
      <4>3. h[p + 1][to[p]] = h[to[p]][to[p]]  BY <1>6, <4>2
      <4>4. h[1][to[p]] = h[to[p]][to[p]]  BY <1>6, <2>0, <4>2
      <4> QED  BY <4>3, <4>4
    <3> HIDE DEF f
    <3> QED  BY <2>1, <3>2, <3>3
  <2> QED  BY <2>2, <2>3
<1> HIDE DEF f
<1> QED  BY <1>7, <1>8 DEF Jumping
==============================================================================
