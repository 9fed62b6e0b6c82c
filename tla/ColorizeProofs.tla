--------------------------- MODULE ColorizeProofs ---------------------------
(***************************************************************************)
(* Theorems about the markup scanner of colorize.hpp.                      *)
(***************************************************************************)
EXTENDS Colorize, Induction, SequenceTheorems

-----------------------------------------------------------------------------
(* First places                                                            *)

LEMMA MinOf ==
  ASSUME NEW T, T \subseteq Nat, T # {}
  PROVE  Min(T) \in T /\ \A y \in T : Min(T) <= y
BY LeastNumber DEF Min

LEMMA FirstPlace ==
  ASSUME NEW s \in Seq(STRING), NEW tokens, NEW p \in 1..(Len(s) + 1)
  PROVE  /\ FirstFrom(s, tokens, p) \in p..(Len(s) + 1)
         /\ FirstFrom(s, tokens, p) <= Len(s) => s[FirstFrom(s, tokens, p)] \in tokens
         /\ \A i \in p..(FirstFrom(s, tokens, p) - 1) : i \in p..Len(s) /\ s[i] \notin tokens
<1> DEFINE T == {i \in p..Len(s) : s[i] \in tokens} \union {Len(s) + 1}
<1>1. Len(s) \in Nat  OBVIOUS
<1>2. T \subseteq Nat /\ T # {}  BY <1>1
<1>3. FirstFrom(s, tokens, p) = Min(T)  BY DEF FirstFrom
<1>4. Min(T) \in T /\ \A y \in T : Min(T) <= y
  <2> HIDE DEF T
  <2> QED  BY <1>2, MinOf
<1> DEFINE e == FirstFrom(s, tokens, p)
<1>5. e \in T /\ \A y \in T : e <= y  BY <1>3, <1>4, Zenon
<1> HIDE DEF e
<1>6. e \in p..(Len(s) + 1) /\ (e <= Len(s) => s[e] \in tokens)  BY <1>1, <1>5
<1>7. ASSUME NEW i \in p..(e - 1) PROVE i \in p..Len(s) /\ s[i] \notin tokens
  <2>1. i \in p..Len(s) /\ ~(e <= i)  BY <1>1, <1>6
  <2> QED  BY <1>5, <2>1
<1> QED  BY <1>6, <1>7 DEF e

\* A place is the first one if the tokens before it are others.
LEMMA FirstPlaceIs ==
  ASSUME NEW s \in Seq(STRING), NEW tokens, NEW p \in 1..(Len(s) + 1), NEW q \in p..(Len(s) + 1),
         q <= Len(s) => s[q] \in tokens, \A i \in p..(q - 1) : s[i] \notin tokens
  PROVE  FirstFrom(s, tokens, p) = q
<1> DEFINE e == FirstFrom(s, tokens, p)
<1>1. /\ e \in p..(Len(s) + 1) /\ (e <= Len(s) => s[e] \in tokens)
      /\ \A i \in p..(e - 1) : i \in p..Len(s) /\ s[i] \notin tokens
  BY FirstPlace
<1> HIDE DEF e
<1>2. Len(s) \in Nat  OBVIOUS
<1>3. ~(e < q)  BY <1>1, <1>2
<1>4. ~(q < e)
  <2> SUFFICES ASSUME q < e PROVE FALSE  OBVIOUS
  <2>1. q \in p..(e - 1)  BY <1>1, <1>2
  <2> QED  BY <1>1, <1>2, <2>1
<1>5. e = q  BY <1>1, <1>2, <1>3, <1>4
<1> QED  BY <1>5 DEF e

TextOK == str \in Seq(STRING) /\ Len(str) < NPos /\ NPos \in Nat

\* find_first_of and the first place.
LEMMA FindIs ==
  ASSUME TextOK, NEW tokens, NEW p \in 0..Len(str)
  PROVE  Find(tokens, p) = IF FirstFrom(str, tokens, p + 1) <= Len(str)
                           THEN FirstFrom(str, tokens, p + 1) - p - 1 ELSE NPos
<1> DEFINE n == Len(str)
           e == FirstFrom(str, tokens, p + 1)
           at == {i \in 0..(n - p - 1) : str[p + i + 1] \in tokens}
<1>1. n \in Nat /\ p \in 0..n /\ p + 1 \in 1..(n + 1)  BY DEF TextOK
<1>2. /\ e \in (p + 1)..(n + 1) /\ (e <= n => str[e] \in tokens)
      /\ \A i \in (p + 1)..(e - 1) : str[i] \notin tokens
  BY <1>1, FirstPlace DEF TextOK
<1>3. Find(tokens, p) = IF at = {} THEN NPos ELSE Min(at)  BY DEF Find
<1> HIDE DEF n, e
<1>4. CASE e <= n
  <2> DEFINE k == e - p - 1
  <2>1. k \in 0..(n - p - 1) /\ p + k + 1 = e  BY <1>1, <1>2, <1>4
  <2>2. k \in at  BY <1>2, <1>4, <2>1
  <2>3. \A i \in at : k <= i
    <3> SUFFICES ASSUME NEW i \in at, i < k PROVE FALSE  BY <1>1, <1>2
    <3>1. p + i + 1 \in (p + 1)..(e - 1)  BY <1>1, <1>2
    <3> QED  BY <1>2, <3>1
  <2>4. at \subseteq Nat /\ at # {}  BY <1>1, <2>2
  <2>5. Min(at) \in at /\ \A y \in at : Min(at) <= y
    <3> HIDE DEF at
    <3> QED  BY <2>4, MinOf
  <2>6. Min(at) = k
    <3>1. Min(at) \in Nat /\ k \in Nat  BY <2>1, <2>4, <2>5
    <3>2. Min(at) <= k /\ k <= Min(at)  BY <2>2, <2>3, <2>5
    <3> HIDE DEF k, at
    <3> QED  BY <3>1, <3>2
  <2> QED  BY <1>3, <1>4, <2>4, <2>6 DEF e, n
<1>5. CASE ~(e <= n)
  <2>1. \A i \in (p + 1)..n : str[i] \notin tokens  BY <1>1, <1>2, <1>5
  <2>2. \A i \in 0..(n - p - 1) : p + i + 1 \in (p + 1)..n  BY <1>1
  <2>3. at = {}  BY <2>1, <2>2
  <2> QED  BY <1>3, <1>5, <2>3 DEF e, n
<1> QED  BY <1>4, <1>5

-----------------------------------------------------------------------------
(* The meaning of a string                                                 *)

\* Everything that can stand in the text of a string.
Outputs(s) == {<<s[p]>> : p \in 1..Len(s)} \union {Sgr(FieldAt(s, p)) : p \in 1..Len(s)}
Results(s) == [text : Seq(Outputs(s)), error : BOOLEAN]

LEMMA Widths ==
  ASSUME NEW s \in Seq(STRING), NEW p \in 1..Len(s)
  PROVE  Width(s, p) \in Nat /\ p + Width(s, p) \in p..(Len(s) + 1)
<1> DEFINE e == Close(s, p)
<1>1. Len(s) \in Nat  OBVIOUS
<1>2. e \in p..(Len(s) + 1)  BY <1>1, FirstPlace DEF Close
<1>3. Doubled(s, p) => p + 2 \in p..(Len(s) + 1)  BY <1>1 DEF Doubled
<1>4. p + 1 \in p..(Len(s) + 1) /\ p + 0 \in p..(Len(s) + 1)  BY <1>1
<1>5. e \in (p + 2)..Len(s) => e - p + 1 \in Nat /\ p + (e - p + 1) \in p..(Len(s) + 1)
  BY <1>1, <1>2
<1> QED  BY <1>3, <1>4, <1>5 DEF Width

LEMMA StandsType ==
  ASSUME NEW s \in Seq(STRING), NEW p \in 1..Len(s), NEW m
  PROVE  Stands(s, p, m) \in Seq(Outputs(s))
<1>1. <<s[p]>> \in Outputs(s) /\ Sgr(FieldAt(s, p)) \in Outputs(s)  BY DEF Outputs
<1>2. <<>> \in Seq(Outputs(s)) /\ \A x \in Outputs(s) : <<x>> \in Seq(Outputs(s))  OBVIOUS
<1> QED  BY <1>1, <1>2 DEF Stands

\* What a place adds to what is meant from a later one.
Adding(s, m, p, rest) == [text |-> Stands(s, p, m) \o rest.text, error |-> rest.error]
Nothing(s, p) == [text |-> <<>>, error |-> p <= Len(s)]

LEMMA MeaningsFunction ==
  ASSUME NEW s \in Seq(STRING), NEW m
  PROVE  /\ Meanings(s, m) \in [1..(Len(s) + 1) -> Results(s)]
         /\ \A p \in 1..(Len(s) + 1) :
              Meanings(s, m)[p] = IF p > Len(s) \/ Width(s, p) = 0 THEN Nothing(s, p)
                                  ELSE Adding(s, m, p, Meanings(s, m)[p + Width(s, p)])
<1> DEFINE N == Len(s) + 1
           S == Results(s)
           Stops(p) == p > Len(s) \/ Width(s, p) = 0
           base == [p \in 1..N |-> Nothing(s, p)]
           to == [p \in 1..N |-> IF Stops(p) THEN p ELSE p + Width(s, p)]
           step == [a \in Int \X S |-> IF a[1] \in 1..Len(s) THEN Adding(s, m, a[1], a[2])
                                       ELSE Nothing(s, 1)]
           Body(f, p) == IF p > Len(s) \/ Width(s, p) = 0 THEN [text |-> <<>>, error |-> p <= Len(s)]
                         ELSE [text  |-> Stands(s, p, m) \o f[p + Width(s, p)].text,
                               error |-> f[p + Width(s, p)].error]
<1>1. Len(s) \in Nat /\ N \in Nat \ {0}  OBVIOUS
<1>2. \A p \in Int : Nothing(s, p) \in S  BY DEF Nothing, Results
<1>3. base \in [1..N -> S]  BY <1>1, <1>2
<1>4. to \in [1..N -> 1..N]
  <2>1. ASSUME NEW p \in 1..N PROVE (IF Stops(p) THEN p ELSE p + Width(s, p)) \in 1..N
    <3>1. ~Stops(p) => p \in 1..Len(s)  BY <1>1
    <3>2. ~Stops(p) => p + Width(s, p) \in p..N  BY <3>1, Widths
    <3> QED  BY <1>1, <3>2
  <2> HIDE DEF N, Stops
  <2> QED  BY <2>1
<1>5. step \in [Int \X S -> S]
  <2>1. ASSUME NEW a \in Int \X S
        PROVE  (IF a[1] \in 1..Len(s) THEN Adding(s, m, a[1], a[2]) ELSE Nothing(s, 1)) \in S
    <3>1. a[2].text \in Seq(Outputs(s)) /\ a[2].error \in BOOLEAN  BY DEF Results
    <3>2. a[1] \in 1..Len(s) => Stands(s, a[1], m) \o a[2].text \in Seq(Outputs(s))
      BY <3>1, StandsType, ConcatProperties
    <3>3. a[1] \in 1..Len(s) => Adding(s, m, a[1], a[2]) \in S  BY <3>1, <3>2 DEF Adding, Results
    <3> HIDE DEF S
    <3> QED  BY <1>2, <3>3
  <2> HIDE DEF S
  <2> QED  BY <2>1
<1>6. PICK f \in [1..N -> S] : Jumping(f, N, base, to, step)
  <2> HIDE DEF N, S, base, to, step
  <2> QED  BY <1>1, <1>3, <1>4, <1>5, JumpsFunction
<1>7. ASSUME NEW p \in 1..N PROVE f[p] = Body(f, p)
  <2>1. CASE Stops(p)
    <3>1. to[p] = p  BY <2>1
    <3>2. f[p] = base[p]
      <4>1. ~(to[p] > p)  BY <1>1, <3>1
      <4> HIDE DEF N, S, base, to, step
      <4> QED  BY <1>6, <4>1 DEF Jumping
    <3> QED  BY <2>1, <3>2 DEF Nothing
  <2>2. CASE ~Stops(p)
    <3>1. p \in 1..Len(s) /\ Width(s, p) # 0  BY <1>1, <2>2
    <3>2. Width(s, p) \in Nat /\ p + Width(s, p) \in 1..N /\ p + Width(s, p) > p
      BY <3>1, Widths
    <3>3. to[p] = p + Width(s, p)  BY <2>2
    <3>4. f[p] = step[<<p, f[p + Width(s, p)]>>]
      <4> HIDE DEF N, S, base, to, step
      <4> QED  BY <1>6, <3>2, <3>3 DEF Jumping
    <3>5. <<p, f[p + Width(s, p)]>> \in Int \X S
      <4> HIDE DEF S
      <4> QED  BY <3>1, <3>2
    <3>6. step[<<p, f[p + Width(s, p)]>>] = Adding(s, m, p, f[p + Width(s, p)])
      <4> HIDE DEF S
      <4> QED  BY <3>1, <3>5
    <3> HIDE DEF step
    <3> QED  BY <2>2, <3>4, <3>6 DEF Adding
  <2> QED  BY <2>1, <2>2
<1>8. f = [p \in 1..N |-> Body(f, p)]
  <2>1. f = [p \in 1..N |-> f[p]]  OBVIOUS
  <2> HIDE DEF Body, N
  <2> QED  BY <1>7, <2>1
<1> DEFINE M == Meanings(s, m)
<1>9. M = [p \in 1..N |-> Body(M, p)]
  <2> HIDE DEF S, base, to, step
  <2>1. \E g : g = [p \in 1..N |-> Body(g, p)]  BY <1>8
  <2> QED  BY <2>1, Zenon DEF Meanings
<1> HIDE DEF M
<1>10. \A p \in 1..N : M[p] = Body(M, p)
  <2> HIDE DEF Body, N
  <2> QED  BY <1>9
<1>11. \A p \in 1..N : M[p] \in S
  <2> DEFINE T == {p \in 1..N : \A q \in p..N : M[q] \in S}
  <2>1. N \in T
    <3>0. N \in 1..N /\ N > Len(s)  BY <1>1
    <3>1. M[N] = Nothing(s, N)
      <4> HIDE DEF N
      <4> QED  BY <1>10, <3>0 DEF Nothing
    <3> QED  BY <1>1, <1>2, <3>1
  <2>2. ASSUME NEW p \in 1..(N - 1), p + 1 \in T PROVE p \in T
    <3>1. p \in 1..Len(s) /\ p \in 1..N /\ \A q \in (p + 1)..N : M[q] \in S  BY <1>1, <2>2
    <3>2. M[p] \in S
      <4>1. CASE Width(s, p) = 0
        <5>1. M[p] = Nothing(s, p)  BY <1>10, <3>1, <4>1 DEF Nothing
        <5> QED  BY <1>2, <3>1, <5>1
      <4>2. CASE Width(s, p) # 0
        <5> DEFINE q == p + Width(s, p)
        <5>1. q \in (p + 1)..N  BY <3>1, <4>2, Widths
        <5>2. M[p] = Adding(s, m, p, M[q])
          <6>1. ~(p > Len(s))  BY <1>1, <3>1
          <6> QED  BY <1>10, <3>1, <4>2, <6>1 DEF Adding
        <5> HIDE DEF q
        <5>3. M[q].text \in Seq(Outputs(s)) /\ M[q].error \in BOOLEAN
          BY <3>1, <5>1 DEF Results
        <5>4. Stands(s, p, m) \o M[q].text \in Seq(Outputs(s))
          BY <3>1, <5>3, StandsType, ConcatProperties
        <5> QED  BY <5>2, <5>3, <5>4 DEF Adding, Results
      <4> QED  BY <4>1, <4>2
    <3>3. \A q \in p..N : q = p \/ q \in (p + 1)..N  BY <1>1, <3>1
    <3> QED  BY <3>1, <3>2, <3>3
  <2>3. \A p \in 1..N : p \in T
    <3> HIDE DEF T, N
    <3> QED  BY <1>1, <2>1, <2>2, Downwards
  <2> QED  BY <2>3
<1>12. M \in [1..N -> S]
  <2> HIDE DEF Body, N, S
  <2>1. M = [p \in 1..N |-> M[p]]  BY <1>9
  <2> QED  BY <1>11, <2>1
<1> QED  BY <1>10, <1>12 DEF Adding, Nothing, M

-----------------------------------------------------------------------------
(* What the meaning is at each kind of place                               *)

Meant(s, m, p) == Meanings(s, m)[p].text
Refused(s, m, p) == Meanings(s, m)[p].error

LEMMA MeantType ==
  ASSUME NEW s \in Seq(STRING), NEW m, NEW p \in 1..(Len(s) + 1)
  PROVE  Meant(s, m, p) \in Seq(Outputs(s)) /\ Refused(s, m, p) \in BOOLEAN
<1>1. Meanings(s, m)[p] \in Results(s)  BY MeaningsFunction
<1> QED  BY <1>1 DEF Meant, Refused, Results

LEMMA EndPlace ==
  ASSUME NEW s \in Seq(STRING), NEW m
  PROVE  Meant(s, m, Len(s) + 1) = <<>> /\ Refused(s, m, Len(s) + 1) = FALSE
<1>1. Len(s) + 1 \in 1..(Len(s) + 1) /\ Len(s) + 1 > Len(s)  OBVIOUS
<1>2. Meanings(s, m)[Len(s) + 1] = Nothing(s, Len(s) + 1)  BY <1>1, MeaningsFunction
<1>3. Nothing(s, Len(s) + 1).text = <<>>  BY DEF Nothing
<1>4. Nothing(s, Len(s) + 1).error = (Len(s) + 1 <= Len(s))  BY Zenon DEF Nothing
<1>5. (Len(s) + 1 <= Len(s)) = FALSE  OBVIOUS
<1>6. Nothing(s, Len(s) + 1).error = FALSE  BY <1>4, <1>5, Zenon
<1> QED  BY <1>2, <1>3, <1>6, Zenon DEF Meant, Refused

LEMMA WrongPlace ==
  ASSUME NEW s \in Seq(STRING), NEW m, NEW p \in 1..Len(s), Width(s, p) = 0
  PROVE  Refused(s, m, p)
<1>1. p \in 1..(Len(s) + 1) /\ p <= Len(s)  OBVIOUS
<1>2. Meanings(s, m)[p] = Nothing(s, p)  BY <1>1, MeaningsFunction
<1>3. Nothing(s, p).error  BY <1>1, Zenon DEF Nothing
<1> QED  BY <1>2, <1>3, Zenon DEF Refused

LEMMA RightPlace ==
  ASSUME NEW s \in Seq(STRING), NEW m, NEW p \in 1..Len(s), Width(s, p) # 0
  PROVE  /\ p + Width(s, p) \in (p + 1)..(Len(s) + 1)
         /\ Meant(s, m, p) = Stands(s, p, m) \o Meant(s, m, p + Width(s, p))
         /\ Refused(s, m, p) = Refused(s, m, p + Width(s, p))
<1>1. p \in 1..(Len(s) + 1) /\ ~(p > Len(s))  OBVIOUS
<1>2. Meanings(s, m)[p] = Adding(s, m, p, Meanings(s, m)[p + Width(s, p)])
  BY <1>1, MeaningsFunction
<1>3. p + Width(s, p) \in (p + 1)..(Len(s) + 1)  BY Widths
<1>4. ASSUME NEW rest
      PROVE  /\ Adding(s, m, p, rest).text = Stands(s, p, m) \o rest.text
             /\ Adding(s, m, p, rest).error = rest.error
  BY DEF Adding
<1> QED  BY <1>2, <1>3, <1>4, Zenon DEF Meant, Refused

Word(s, p) == <<s[p]>>
Only(x) == <<x>>

LEMMA OnlySeq ==
  ASSUME NEW X, NEW x \in X
  PROVE  Only(x) \in Seq(X) /\ Len(Only(x)) = 1 /\ Only(x)[1] = x
BY DEF Only

LEMMA WordPlace ==
  ASSUME NEW s \in Seq(STRING), NEW m, NEW p \in 1..Len(s), s[p] \notin {"[", "]"}
  PROVE  /\ Meant(s, m, p) = Only(Word(s, p)) \o Meant(s, m, p + 1)
         /\ Refused(s, m, p) = Refused(s, m, p + 1)
<1>1. Width(s, p) = 1 /\ Stands(s, p, m) = Only(Word(s, p))  BY DEF Width, Stands, Only, Word
<1>2. Width(s, p) # 0  BY <1>1
<1>3. Meant(s, m, p) = Stands(s, p, m) \o Meant(s, m, p + Width(s, p))
        /\ Refused(s, m, p) = Refused(s, m, p + Width(s, p))
  BY <1>2, RightPlace
<1> QED  BY <1>1, <1>3, Zenon

LEMMA EscapePlace ==
  ASSUME NEW s \in Seq(STRING), NEW m, NEW p \in 1..Len(s), s[p] \in {"[", "]"}, Doubled(s, p),
         s[p] = "[" => Close(s, p) <= Len(s)
  PROVE  /\ Meant(s, m, p) = Only(Word(s, p)) \o Meant(s, m, p + 2)
         /\ Refused(s, m, p) = Refused(s, m, p + 2)
<1>1. s[p] = "[" => ~(Close(s, p) > Len(s))
  <2>1. Len(s) \in Nat /\ p \in 1..(Len(s) + 1)  OBVIOUS
  <2>2. Close(s, p) \in p..(Len(s) + 1)  BY <2>1, FirstPlace DEF Close
  <2> QED  BY <2>1, <2>2
<1>2. Width(s, p) = 2 /\ Stands(s, p, m) = Only(Word(s, p))  BY <1>1 DEF Width, Stands, Only, Word
<1>3. Width(s, p) # 0  BY <1>2
<1>4. Meant(s, m, p) = Stands(s, p, m) \o Meant(s, m, p + Width(s, p))
        /\ Refused(s, m, p) = Refused(s, m, p + Width(s, p))
  BY <1>3, RightPlace
<1> QED  BY <1>2, <1>4, Zenon

LEMMA FieldPlace ==
  ASSUME NEW s \in Seq(STRING), NEW m, NEW p \in 1..Len(s), s[p] = "[", ~Doubled(s, p),
         Close(s, p) \in (p + 2)..Len(s), Accepts(FieldAt(s, p))
  PROVE  /\ Meant(s, m, p) = (IF m = "color" THEN <<Sgr(FieldAt(s, p))>> ELSE <<>>)
                               \o Meant(s, m, Close(s, p) + 1)
         /\ Refused(s, m, p) = Refused(s, m, Close(s, p) + 1)
<1> DEFINE e == Close(s, p)
<1>1. Width(s, p) = e - p + 1
        /\ Stands(s, p, m) = IF m = "color" THEN <<Sgr(FieldAt(s, p))>> ELSE <<>>
  BY DEF Width, Stands
<1>2. e \in (p + 2)..Len(s)  OBVIOUS
<1> HIDE DEF e
<1>3. e - p + 1 # 0 /\ p + (e - p + 1) = e + 1  BY <1>2
<1>4. Meant(s, m, p) = Stands(s, p, m) \o Meant(s, m, p + (e - p + 1))
        /\ Refused(s, m, p) = Refused(s, m, p + (e - p + 1))
  BY <1>1, <1>3, RightPlace
<1> QED  BY <1>1, <1>3, <1>4 DEF e

\* Text without brackets.
Run(s, p, n) == [i \in 1..n |-> Word(s, p + i)]

\* x is a with b behind it.
Joins(x, a, b) == x = a \o b

WordsIn(s, p, n, X) == \A i \in 1..n : Word(s, p + i) \in X

LEMMA RunGrows ==
  ASSUME NEW X, NEW s, NEW p \in Nat, NEW k \in Nat, WordsIn(s, p, k + 1, X)
  PROVE  /\ Run(s, p, k) \in Seq(X) /\ Run(s, p, k + 1) \in Seq(X)
         /\ Only(Word(s, p + k + 1)) \in Seq(X)
         /\ Joins(Run(s, p, k + 1), Run(s, p, k), Only(Word(s, p + k + 1)))
<1> DEFINE a == Run(s, p, k)
           b == Only(Word(s, p + k + 1))
           c == Run(s, p, k + 1)
<1>0. \A i \in 1..(k + 1) : Word(s, p + i) \in X  BY DEF WordsIn
<1>1. /\ a \in Seq(X) /\ c \in Seq(X) /\ b \in Seq(X)
      /\ Len(a) = k /\ Len(c) = k + 1 /\ Len(b) = 1
  <2>1. \A i \in 1..k : i \in 1..(k + 1)  OBVIOUS
  <2>2. [i \in 1..k |-> Word(s, p + i)] \in Seq(X)  BY <1>0, <2>1
  <2>3. [i \in 1..(k + 1) |-> Word(s, p + i)] \in Seq(X)  BY <1>0
  <2>4. k + 1 \in 1..(k + 1) /\ p + (k + 1) = p + k + 1  OBVIOUS
  <2>5. Word(s, p + k + 1) \in X  BY <1>0, <2>4
  <2>6. b \in Seq(X) /\ Len(b) = 1  BY <2>5, OnlySeq
  <2> QED  BY <2>2, <2>3, <2>6 DEF Run
<1>2. \A i \in 1..k : a[i] = Word(s, p + i)  BY DEF Run
<1>3. \A i \in 1..(k + 1) : c[i] = Word(s, p + i)  BY DEF Run
<1>4. b[1] = Word(s, p + k + 1)  BY DEF Only
<1> HIDE DEF a, b, c
<1>5. /\ a \o b \in Seq(X) /\ Len(a \o b) = Len(a) + Len(b)
      /\ \A i \in 1..(Len(a) + Len(b)) : (a \o b)[i] = IF i <= Len(a) THEN a[i] ELSE b[i - Len(a)]
  BY <1>1, ConcatProperties
<1>6. ASSUME NEW i \in 1..(k + 1) PROVE c[i] = (a \o b)[i]
  <2>1. (a \o b)[i] = IF i <= k THEN a[i] ELSE b[i - k]  BY <1>1, <1>5
  <2>2. CASE i <= k  BY <1>2, <1>3, <2>1, <2>2
  <2>3. CASE ~(i <= k)
    <3>1. i = k + 1 /\ i - k = 1 /\ p + i = p + k + 1  BY <2>3
    <3>2. c[i] = Word(s, p + k + 1)  BY <1>3, <3>1
    <3> QED  BY <1>4, <2>1, <2>3, <3>1, <3>2
  <2> QED  BY <2>2, <2>3
<1>7. c = a \o b
  <2>1. Len(c) = Len(a \o b) /\ \A i \in 1..Len(c) : c[i] = (a \o b)[i]  BY <1>1, <1>5, <1>6
  <2> QED  BY <1>1, <1>5, <2>1, SeqEqual
<1> QED  BY <1>1, <1>7 DEF a, b, c, Joins

LEMMA Regroup ==
  ASSUME NEW X, NEW a \in Seq(X), NEW b \in Seq(X), NEW c \in Seq(X), NEW ab, NEW bc, NEW abc,
         Joins(ab, a, b), Joins(bc, b, c), Joins(abc, a, bc)
  PROVE  Joins(abc, ab, c)
<1>1. (a \o b) \o c = a \o (b \o c)  BY ConcatAssociative
<1> QED  BY <1>1 DEF Joins

Plain(s, p, n) == \A i \in (p + 1)..(p + n) : s[i] \notin {"[", "]"}

LEMMA PlainRun ==
  ASSUME NEW s \in Seq(STRING), NEW m, NEW p \in 0..Len(s), NEW n \in 0..(Len(s) - p),
         Plain(s, p, n)
  PROVE  /\ Run(s, p, n) \in Seq(Outputs(s))
         /\ Joins(Meant(s, m, p + 1), Run(s, p, n), Meant(s, m, p + n + 1))
         /\ Refused(s, m, p + 1) = Refused(s, m, p + n + 1)
<1> DEFINE Fits(k) == /\ Run(s, p, k) \in Seq(Outputs(s))
                      /\ Joins(Meant(s, m, p + 1), Run(s, p, k), Meant(s, m, p + k + 1))
                      /\ Refused(s, m, p + 1) = Refused(s, m, p + k + 1)
           T == {k \in Nat : k <= n + 1 /\ Fits(k - 1)}
<1>0. Len(s) \in Nat /\ n \in Nat /\ p \in Nat /\ n + 1 \in Nat /\ n + 1 \in 1..(n + 1)
  OBVIOUS
<1>1. ASSUME NEW k \in 1..n PROVE p + k \in 1..Len(s) /\ p + k + 1 \in 1..(Len(s) + 1)
                                  /\ s[p + k] \notin {"[", "]"} /\ Word(s, p + k) \in Outputs(s)
  <2>1. p + k \in 1..Len(s) /\ p + k \in (p + 1)..(p + n) /\ p + k + 1 \in 1..(Len(s) + 1)
    BY <1>0
  <2> QED  BY <2>1 DEF Outputs, Word, Plain
<1>2. Fits(0)
  <2>1. Run(s, p, 0) = <<>>  BY DEF Run
  <2>2. p + 1 \in 1..(Len(s) + 1) /\ p + 0 + 1 = p + 1  BY <1>0
  <2>3. Meant(s, m, p + 1) \in Seq(Outputs(s))  BY <2>2, MeantType
  <2>4. <<>> \o Meant(s, m, p + 1) = Meant(s, m, p + 1) /\ <<>> \in Seq(Outputs(s))
    BY <2>3, ConcatEmptySeq
  <2> QED  BY <2>1, <2>2, <2>4 DEF Joins
<1>3. ASSUME NEW k \in Nat, k + 1 <= n, Fits(k) PROVE Fits(k + 1)
  <2> DEFINE b == Only(Word(s, p + k + 1))
             c == Meant(s, m, p + k + 2)
             X == Outputs(s)
  <2>1. k + 1 \in 1..n /\ p + (k + 1) = p + k + 1 /\ p + (k + 1) + 1 = p + k + 2  BY <1>0, <1>3
  <2>2. /\ Joins(Meant(s, m, p + k + 1), b, c)
        /\ Refused(s, m, p + k + 1) = Refused(s, m, p + k + 2)
        /\ c \in Seq(X)
    <3>1. /\ p + k + 1 \in 1..Len(s) /\ s[p + k + 1] \notin {"[", "]"}
          /\ p + k + 1 + 1 = p + k + 2 /\ p + k + 2 \in 1..(Len(s) + 1)
      BY <1>1, <2>1
    <3>2. /\ Meant(s, m, p + k + 1) = b \o Meant(s, m, p + k + 1 + 1)
          /\ Refused(s, m, p + k + 1) = Refused(s, m, p + k + 1 + 1)
      BY <3>1, WordPlace
    <3> QED  BY <3>1, <3>2, MeantType DEF Joins
  <2>3. WordsIn(s, p, k + 1, X)
    <3>1. \A i \in 1..(k + 1) : i \in 1..n  BY <1>0, <2>1
    <3> QED  BY <1>1, <3>1 DEF WordsIn
  <2>4. Fits(k)  BY <1>3
  <2> HIDE DEF b, c, X
  <2>5. /\ Run(s, p, k) \in Seq(X) /\ Run(s, p, k + 1) \in Seq(X) /\ b \in Seq(X)
        /\ Joins(Run(s, p, k + 1), Run(s, p, k), b)
    BY <1>0, <2>3, RunGrows DEF b
  <2>6. Joins(Meant(s, m, p + 1), Run(s, p, k + 1), c)
    BY <2>2, <2>4, <2>5, Regroup
  <2> QED  BY <2>1, <2>2, <2>4, <2>5, <2>6 DEF c, X
<1> HIDE DEF Fits
<1>4. 1 \in T  BY <1>0, <1>2
<1>5. ASSUME NEW j \in 2..(n + 1), j - 1 \in T PROVE j \in T
  <2>1. j - 2 \in Nat /\ j - 2 + 1 = j - 1 /\ j - 2 + 1 <= n /\ j \in Nat /\ j <= n + 1
          /\ j - 1 - 1 = j - 2
    BY <1>0
  <2>2. Fits(j - 2)  BY <1>5, <2>1
  <2>3. Fits(j - 2 + 1)  BY <1>3, <2>1, <2>2
  <2> QED  BY <2>1, <2>3
<1>6. n + 1 \in T
  <2> HIDE DEF T
  <2>1. \A k \in 1..(n + 1) : k \in T  BY <1>0, <1>4, <1>5, Upwards
  <2> QED  BY <1>0, <2>1
<1>7. Fits(n)
  <2>1. n + 1 - 1 = n  BY <1>0
  <2> QED  BY <1>6, <2>1
<1> QED  BY <1>7 DEF Fits

-----------------------------------------------------------------------------
(* One specifier                                                           *)

LEMMA EmphasesAre == Range(Emphases) = {"bold", "italic", "reverse", "strike"}
BY DEF Range, Emphases

LEMMA ColorsParsed ==
  ASSUME NEW s \in Seq(STRING)
  PROVE  /\ IsColor(s) => ParseColor(s) = Head(s) /\ Head(s) \in {"red", "blue", "rgb"}
         /\ ~IsColor(s) => ParseColor(s) = NoColor
         /\ NoColor \notin {"red", "blue", "rgb"}
<1>1. NoColor \notin {"red", "blue", "rgb"}  BY DEF NoColor
<1>2. Len(s) = 1 => s # <<>>
  <2>1. Len(<<>>) = 0 /\ 1 # 0  OBVIOUS
  <2> QED  BY <2>1, Zenon
<1> QED  BY <1>1, <1>2 DEF IsColor, ParseColor, NameToColor, RgbColors

\* A text is of one kind at most.
LEMMA KindsDiffer ==
  ASSUME NEW s \in Seq(STRING)
  PROVE  /\ s = <<"reset">> <=> Len(s) = 1 /\ Head(s) = "reset"
         /\ Len(s) = 1 => s # <<>>
         /\ IsColor(s) => s # <<>> /\ Head(s) \in {"red", "blue", "rgb"}
<1>1. s = <<"reset">> <=> Len(s) = 1 /\ s[1] = "reset"
  <2>1. s = <<"reset">> => Len(s) = 1 /\ s[1] = "reset"  OBVIOUS
  <2>2. ASSUME Len(s) = 1, s[1] = "reset" PROVE s = <<"reset">>
    <3> DEFINE t == Only("reset")
    <3>1. "reset" \in STRING  BY <2>2
    <3>2. t \in Seq(STRING) /\ Len(t) = 1 /\ t[1] = "reset"  BY <3>1, OnlySeq
    <3> HIDE DEF t
    <3>3. s = t
      <4>1. Len(s) = Len(t) /\ \A i \in 1..Len(s) : s[i] = t[i]  BY <2>2, <3>2
      <4> QED  BY <3>2, <4>1, SeqEqual
    <3> QED  BY <3>3 DEF t, Only
  <2> QED  BY <2>1, <2>2
<1>2. Len(s) = 1 => s # <<>>
  <2>1. Len(<<>>) = 0 /\ 1 # 0  OBVIOUS
  <2> QED  BY <2>1, Zenon
<1>3. Len(s) = 1 => Head(s) = s[1]  OBVIOUS
<1> QED  BY <1>1, <1>2, <1>3 DEF IsColor

LEMMA SidedApplied ==
  ASSUME NEW r, NEW s \in Seq(STRING), NEW side \in {"fg", "bg"}
  PROVE  /\ s = <<"reset">> => ApplySided(r, side, s) =
              IF side = "fg" THEN [r EXCEPT !.fgReset = TRUE] ELSE [r EXCEPT !.bgReset = TRUE]
         /\ IsColor(s) => ApplySided(r, side, s) = SetColor(r, side, Head(s))
         /\ s # <<"reset">> /\ ~IsColor(s) => ApplySided(r, side, s) = Bad(r)
<1>1. IsColor(s) => s # <<"reset">>  BY KindsDiffer
<1>2. IsColor(s) => ParseColor(s) = Head(s) /\ ParseColor(s) # NoColor  BY ColorsParsed
<1>3. ~IsColor(s) => ParseColor(s) = NoColor  BY ColorsParsed
<1>4. CASE s = <<"reset">>
  <2>1. ~IsColor(s)  BY <1>1, <1>4
  <2> QED  BY <1>3, <1>4, <2>1 DEF ApplySided
<1>5. CASE IsColor(s)  BY <1>1, <1>2, <1>5 DEF ApplySided
<1>6. CASE s # <<"reset">> /\ ~IsColor(s)  BY <1>3, <1>6 DEF ApplySided
<1> QED  BY <1>4, <1>5, <1>6

LEMMA SidedColor ==
  ASSUME NEW r, NEW s \in Seq(STRING), NEW side \in {"fg", "bg"}, IsColor(s)
  PROVE  ApplySided(r, side, s) = SetColor(r, side, Head(s))
BY SidedApplied

LEMMA SpecifierApplied ==
  ASSUME NEW r, NEW s \in Seq(STRING)
  PROVE  /\ s = <<"reset">> => ApplySpecifier(r, s) = [r EXCEPT !.reset = TRUE]
         /\ IsColor(s) => ApplySpecifier(r, s) = SetColor(r, "fg", Head(s))
         /\ Len(s) = 1 /\ Head(s) \in Range(Emphases)
              => ApplySpecifier(r, s) = [r EXCEPT !.emphasis = @ \union {Head(s)}]
         /\ s # <<>> /\ Head(s) = "fg:" => ApplySpecifier(r, s) = ApplySided(r, "fg", Tail(s))
         /\ s # <<>> /\ Head(s) = "bg:" => ApplySpecifier(r, s) = ApplySided(r, "bg", Tail(s))
         /\ ~Valid(s) /\ ~(s # <<>> /\ Head(s) \in Sides) => ApplySpecifier(r, s) = Bad(r)
<1>1. /\ s = <<"reset">> <=> Len(s) = 1 /\ Head(s) = "reset"
      /\ Len(s) = 1 => s # <<>>
      /\ IsColor(s) => s # <<>> /\ Head(s) \in {"red", "blue", "rgb"}
  BY KindsDiffer
<1>2. /\ IsColor(s) => ParseColor(s) = Head(s) /\ ParseColor(s) # NoColor
      /\ ~IsColor(s) => ParseColor(s) = NoColor
  BY ColorsParsed
<1>3. NameToEmphasis(Head(s)) <=> Head(s) \in {"bold", "italic", "reverse", "strike"}
  BY EmphasesAre DEF NameToEmphasis
<1>4. MalformedRgb(s) <=> s # <<>> /\ Head(s) = "badrgb"  BY DEF MalformedRgb
<1>5. CASE s = <<"reset">>
  <2>1. ~IsColor(s) /\ Head(s) = "reset" /\ s # <<>> /\ Valid(s)
    <3>1. ~IsColor(s) /\ Head(s) = "reset" /\ s # <<>> /\ Len(s) = 1  BY <1>1, <1>5
    <3> QED  BY <3>1 DEF Valid
  <2>2. ApplySpecifier(r, s) = [r EXCEPT !.reset = TRUE]
    BY <1>2, <1>3, <1>4, <1>5, <2>1 DEF ApplySpecifier
  <2> QED  BY <2>1, <2>2, EmphasesAre
<1>6. CASE IsColor(s)
  <2>1. s # <<"reset">> /\ Head(s) \in {"red", "blue", "rgb"} /\ Valid(s)  BY <1>1, <1>6 DEF Valid
  <2>2. ApplySpecifier(r, s) = SetColor(r, "fg", Head(s))
    BY <1>2, <1>3, <1>4, <1>6, <2>1 DEF ApplySpecifier
  <2> QED  BY <1>6, <2>1, <2>2, EmphasesAre
<1>7. CASE Len(s) = 1 /\ Head(s) \in Range(Emphases)
  <2>1. s # <<"reset">> /\ ~IsColor(s) /\ Head(s) \in {"bold", "italic", "reverse", "strike"} /\ Valid(s)
    BY <1>1, <1>7, EmphasesAre DEF Valid
  <2>2. ApplySpecifier(r, s) = [r EXCEPT !.emphasis = @ \union {Head(s)}]
    BY <1>2, <1>3, <1>4, <1>7, <2>1 DEF ApplySpecifier
  <2> QED  BY <2>1, <2>2
<1>8. ASSUME s # <<>>, Head(s) = "fg:"
      PROVE  ~IsColor(s) /\ s # <<"reset">> /\ ApplySpecifier(r, s) = ApplySided(r, "fg", Tail(s))
  <2>1. ~IsColor(s) /\ s # <<"reset">>  BY <1>1, <1>8
  <2> QED  BY <1>2, <1>3, <1>4, <1>8, <2>1 DEF ApplySpecifier
<1>9. ASSUME s # <<>>, Head(s) = "bg:"
      PROVE  ~IsColor(s) /\ s # <<"reset">> /\ ApplySpecifier(r, s) = ApplySided(r, "bg", Tail(s))
  <2>1. ~IsColor(s) /\ s # <<"reset">>  BY <1>1, <1>9
  <2> QED  BY <1>2, <1>3, <1>4, <1>9, <2>1 DEF ApplySpecifier
<1>10. CASE ~Valid(s) /\ ~(s # <<>> /\ Head(s) \in Sides)
  <2>1. /\ ~IsColor(s) /\ s # <<"reset">> /\ ~(Len(s) = 1 /\ Head(s) \in Range(Emphases))
        /\ ~(s # <<>> /\ Head(s) = "fg:") /\ ~(s # <<>> /\ Head(s) = "bg:")
    BY <1>1, <1>10 DEF Valid, Sides
  <2>2. ApplySpecifier(r, s) = Bad(r)
    BY <1>2, <2>1 DEF ApplySpecifier, NameToEmphasis
  <2> QED  BY <2>1, <2>2
<1>11. CASE s # <<>> /\ Head(s) \in {"fg:", "bg:"}
  <2>1. Head(s) \notin Range(Emphases)  BY <1>11, EmphasesAre
  <2> QED  BY <1>8, <1>9, <1>11, <2>1 DEF Sides
<1>12. \/ s = <<"reset">>
       \/ IsColor(s)
       \/ Len(s) = 1 /\ Head(s) \in Range(Emphases)
       \/ s # <<>> /\ Head(s) \in {"fg:", "bg:"}
       \/ ~Valid(s) /\ ~(s # <<>> /\ Head(s) \in Sides)
  BY <1>1 DEF Valid, Sides
<1> QED  BY <1>5, <1>6, <1>7, <1>10, <1>11, <1>12

-----------------------------------------------------------------------------
(* What one specifier does to the record                                   *)

ColorNames == {NoColor, "red", "blue", "rgb"}
Specs == [fg : ColorNames, bg : ColorNames, emphasis : SUBSET Range(Emphases), reset : BOOLEAN,
          fgReset : BOOLEAN, bgReset : BOOLEAN, bad : BOOLEAN]

\* One field of the record is set.
Puts(q, r, k, v) == q = [r EXCEPT ![k] = v]
IsPut(q, r, k, v) ==
  /\ q.fg = IF k = "fg" THEN v ELSE r.fg
  /\ q.bg = IF k = "bg" THEN v ELSE r.bg
  /\ q.emphasis = IF k = "emphasis" THEN v ELSE r.emphasis
  /\ q.reset = IF k = "reset" THEN v ELSE r.reset
  /\ q.fgReset = IF k = "fgReset" THEN v ELSE r.fgReset
  /\ q.bgReset = IF k = "bgReset" THEN v ELSE r.bgReset
  /\ q.bad = IF k = "bad" THEN v ELSE r.bad
  /\ k \in {"fg", "bg"} /\ v \in ColorNames => q \in Specs
  /\ k = "emphasis" /\ v \in SUBSET Range(Emphases) => q \in Specs
  /\ k \in {"reset", "fgReset", "bgReset", "bad"} /\ v \in BOOLEAN => q \in Specs

LEMMA Updated ==
  ASSUME NEW r \in Specs, NEW v, NEW q,
         NEW k \in {"fg", "bg", "emphasis", "reset", "fgReset", "bgReset", "bad"},
         Puts(q, r, k, v)
  PROVE  IsPut(q, r, k, v)
BY DEF Puts, IsPut, Specs

Pair(x, y) == <<x, y>>

LEMMA PairSeq ==
  ASSUME NEW X, NEW x \in X, NEW y \in X
  PROVE  Pair(x, y) \in Seq(X) /\ Len(Pair(x, y)) = 2 /\ Pair(x, y)[1] = x /\ Pair(x, y)[2] = y
BY DEF Pair

LEMMA Shapes ==
  ASSUME NEW s \in Seq(STRING), NEW w, NEW v
  PROVE  /\ s = <<w>> <=> Len(s) = 1 /\ Head(s) = w
         /\ s = <<v, w>> <=> s # <<>> /\ Head(s) = v /\ Tail(s) = <<w>>
         /\ s # <<>> => Tail(s) \in Seq(STRING) /\ Len(s) = Len(Tail(s)) + 1
         /\ s # <<>> /\ Tail(s) # <<>> => s[2] = Head(Tail(s))
<1>1. s = <<w>> => Len(s) = 1 /\ Head(s) = w  OBVIOUS
<1>2. ASSUME Len(s) = 1, Head(s) = w PROVE s = <<w>>
  <2>1. s[1] = w /\ w \in STRING  BY <1>2
  <2>2. Only(w) \in Seq(STRING) /\ Len(Only(w)) = 1 /\ Only(w)[1] = w  BY <2>1, OnlySeq
  <2>3. Len(s) = Len(Only(w)) /\ \A i \in 1..Len(s) : s[i] = Only(w)[i]
    <3>1. Len(s) = 1 /\ \A i \in 1..1 : i = 1  BY <1>2
    <3> QED  BY <2>1, <2>2, <3>1
  <2>4. s = Only(w)  BY <2>2, <2>3, SeqEqual
  <2> QED  BY <2>4 DEF Only
<1>3. s # <<>> => Tail(s) \in Seq(STRING) /\ Len(s) = Len(Tail(s)) + 1  OBVIOUS
<1>4. s # <<>> /\ Tail(s) # <<>> => s[2] = Head(Tail(s))  OBVIOUS
<1>5. s = <<v, w>> => s # <<>> /\ Head(s) = v /\ Tail(s) = <<w>>
  <2>1. <<v, w>> # <<>> /\ Head(<<v, w>>) = v /\ Tail(<<v, w>>) = <<w>>
    <3> DEFINE X == {v, w}
    <3>1. <<v, w>> \in Seq(X) /\ Len(<<v, w>>) = 2  OBVIOUS
    <3>2. Tail(<<v, w>>) = <<w>>  OBVIOUS
    <3> QED  BY <3>1, <3>2
  <2> QED  BY <2>1, Zenon
<1>6. ASSUME s # <<>>, Head(s) = v, Tail(s) = <<w>> PROVE s = <<v, w>>
  <2>1. Len(Tail(s)) = 1 /\ Tail(s)[1] = w
    <3>1. Len(Only(w)) = 1 /\ Only(w)[1] = w  BY DEF Only
    <3> QED  BY <1>6, <3>1 DEF Only
  <2>2. Len(s) = 2 /\ s[1] = v /\ s[2] = w  BY <1>3, <1>6, <2>1
  <2>3. v \in STRING /\ w \in STRING  BY <2>2
  <2>4. Pair(v, w) \in Seq(STRING) /\ Len(Pair(v, w)) = 2 /\ Pair(v, w)[1] = v /\ Pair(v, w)[2] = w
    <3>1. Pair(v, w) \in Seq(STRING)  BY <2>3, PairSeq
    <3>2. Len(Pair(v, w)) = 2 /\ Pair(v, w)[1] = v /\ Pair(v, w)[2] = w
      <4> DEFINE X == {v, w}
      <4>1. v \in X /\ w \in X  OBVIOUS
      <4> HIDE DEF X
      <4> QED  BY <4>1, PairSeq
    <3> QED  BY <3>1, <3>2
  <2>5. \A i \in 1..2 : i = 1 \/ i = 2  OBVIOUS
  <2>6. s = Pair(v, w)
    <3>1. Len(s) = Len(Pair(v, w)) /\ \A i \in 1..Len(s) : s[i] = Pair(v, w)[i]
      BY <2>2, <2>4, <2>5
    <3> QED  BY <2>4, <3>1, SeqEqual
  <2> QED  BY <2>6 DEF Pair
<1> QED  BY <1>1, <1>2, <1>3, <1>4, <1>5, <1>6

\* Every text has to do with one field of the record.
FieldNames == {"fg", "bg", "emphasis", "reset", "fgReset", "bgReset", "bad"}
Names(s, k) ==
  /\ s = <<"reset">> <=> k = "reset"
  /\ s = <<"fg:", "reset">> <=> k = "fgReset"
  /\ s = <<"bg:", "reset">> <=> k = "bgReset"
  /\ Paints(s, "fg:") <=> k = "fg"
  /\ Paints(s, "bg:") <=> k = "bg"
  /\ \A e \in Range(Emphases) : s = <<e>> <=> k = "emphasis" /\ e = Head(s)
  /\ k = "emphasis" => Head(s) \in Range(Emphases)
  /\ Valid(s) <=> k # "bad"
  /\ k \in {"fg", "bg"} => ColorName(s) \in ColorNames /\ ColorName(s) # NoColor
Value(r, s, k) == IF k \in {"fg", "bg"} THEN ColorName(s)
                  ELSE IF k = "emphasis" THEN r.emphasis \union {Head(s)} ELSE TRUE
Does(r, s, k) ==
  ApplySpecifier(r, s) = IF k = "fg" THEN SetColor(r, "fg", ColorName(s))
                         ELSE IF k = "bg" THEN SetColor(r, "bg", ColorName(s))
                         ELSE [r EXCEPT ![k] = Value(r, s, k)]

LEMMA SpecifierRead ==
  ASSUME NEW r \in Specs, NEW s \in Seq(STRING)
  PROVE  \E k \in FieldNames : Names(s, k) /\ Does(r, s, k)
<1> DEFINE sides == s # <<>> /\ Head(s) \in Sides
           word == Len(s) = 1 /\ Head(s) \in Range(Emphases)
<1>1. /\ s = <<"reset">> <=> Len(s) = 1 /\ Head(s) = "reset"
      /\ \A e : s = <<e>> <=> Len(s) = 1 /\ Head(s) = e
      /\ Len(s) = 1 => s # <<>>
      /\ IsColor(s) => s # <<>> /\ Head(s) \in {"red", "blue", "rgb"}
  BY KindsDiffer, Shapes
<1>2. /\ s = <<"fg:", "reset">> <=> s # <<>> /\ Head(s) = "fg:" /\ Tail(s) = <<"reset">>
      /\ s = <<"bg:", "reset">> <=> s # <<>> /\ Head(s) = "bg:" /\ Tail(s) = <<"reset">>
  BY Shapes
<1>3. ASSUME s # <<>>
      PROVE  /\ Tail(s) \in Seq(STRING)
             /\ IsColor(Tail(s)) => Tail(s) # <<"reset">> /\ Tail(s) # <<>> /\ s[2] = Head(Tail(s))
                                      /\ Head(Tail(s)) \in {"red", "blue", "rgb"}
  <2>1. Tail(s) \in Seq(STRING)  BY <1>3, Shapes
  <2>2. IsColor(Tail(s)) => Tail(s) # <<"reset">> /\ Tail(s) # <<>> /\ Head(Tail(s)) \in {"red", "blue", "rgb"}
    BY <2>1, KindsDiffer
  <2> QED  BY <1>3, <2>1, <2>2, Shapes
<1>4. NoColor \notin {"red", "blue", "rgb"} /\ {"red", "blue", "rgb"} \subseteq ColorNames
  BY DEF NoColor, ColorNames
<1>5. Sides = {"fg:", "bg:"} /\ Range(Emphases) = {"bold", "italic", "reverse", "strike"}
  BY EmphasesAre DEF Sides
<1>6. Valid(s) <=> IsColor(s) \/ word \/ s = <<"reset">>
                     \/ (sides /\ (IsColor(Tail(s)) \/ Tail(s) = <<"reset">>))
  BY <1>1 DEF Valid
<1>7. /\ Paints(s, "fg:") <=> IsColor(s) \/ (s # <<>> /\ Head(s) = "fg:" /\ IsColor(Tail(s)))
      /\ Paints(s, "bg:") <=> s # <<>> /\ Head(s) = "bg:" /\ IsColor(Tail(s))
  BY DEF Paints
<1>8. CASE s = <<"reset">>
  <2>1. Len(s) = 1 /\ Head(s) = "reset" /\ s # <<>> /\ ~IsColor(s)  BY <1>1, <1>8
  <2>2. Names(s, "reset")  BY <1>1, <1>2, <1>5, <1>6, <1>7, <1>8, <2>1 DEF Names
  <2>3. Does(r, s, "reset")  BY <1>8, SpecifierApplied DEF Does, Value
  <2> QED  BY <2>2, <2>3 DEF FieldNames
<1>9. CASE IsColor(s)
  <2>1. Head(s) \in {"red", "blue", "rgb"} /\ s # <<>> /\ ColorName(s) = Head(s)
    BY <1>1, <1>5, <1>9 DEF ColorName
  <2>2. Names(s, "fg")  BY <1>1, <1>2, <1>4, <1>5, <1>6, <1>7, <1>9, <2>1 DEF Names
  <2>3. Does(r, s, "fg")  BY <1>9, <2>1, SpecifierApplied DEF Does
  <2> QED  BY <2>2, <2>3 DEF FieldNames
<1>10. CASE word
  <2>1. s # <<>> /\ ~IsColor(s) /\ s # <<"reset">>  BY <1>1, <1>5, <1>10
  <2>2. Names(s, "emphasis")  BY <1>1, <1>2, <1>5, <1>6, <1>7, <1>10, <2>1 DEF Names
  <2>3. Does(r, s, "emphasis")  BY <1>10, SpecifierApplied DEF Does, Value
  <2> QED  BY <2>2, <2>3 DEF FieldNames
<1>11. ASSUME s # <<>>, NEW x \in {"fg", "bg"}, Head(s) = IF x = "fg" THEN "fg:" ELSE "bg:"
       PROVE  \E k \in FieldNames : Names(s, k) /\ Does(r, s, k)
  <2>1. ~IsColor(s) /\ s # <<"reset">> /\ ~word /\ sides  BY <1>1, <1>5, <1>11
  <2>2. ApplySpecifier(r, s) = ApplySided(r, x, Tail(s))  BY <1>11, SpecifierApplied
  <2>3. CASE Tail(s) = <<"reset">>
    <3> DEFINE k == IF x = "fg" THEN "fgReset" ELSE "bgReset"
    <3>0. ~IsColor(Tail(s))  BY <1>3, <1>11, <2>3
    <3>1. Names(s, k)
      BY <1>1, <1>2, <1>5, <1>6, <1>7, <1>11, <2>1, <2>3, <3>0 DEF Names
    <3>2. Does(r, s, k)  BY <1>3, <1>11, <2>2, <2>3, SidedApplied DEF Does, Value
    <3> QED  BY <3>1, <3>2 DEF FieldNames
  <2>4. CASE IsColor(Tail(s))
    <3>0. Tail(s) # <<"reset">> /\ ColorName(s) = Head(Tail(s)) /\ ColorName(s) \in {"red", "blue", "rgb"}
      BY <1>3, <1>5, <1>11, <2>4 DEF ColorName
    <3>1. Names(s, x)
      BY <1>1, <1>2, <1>4, <1>5, <1>6, <1>7, <1>11, <2>1, <2>4, <3>0 DEF Names
    <3>2. Does(r, s, x)
      <4>1. ApplySpecifier(r, s) = SetColor(r, x, ColorName(s))
        <5>1. Tail(s) \in Seq(STRING)  BY <1>3, <1>11
        <5>2. ApplySided(r, x, Tail(s)) = SetColor(r, x, Head(Tail(s)))
          BY <2>4, <5>1, SidedColor, Zenon
        <5> QED  BY <2>2, <3>0, <5>2
      <4>2. x = "fg" \/ (x = "bg" /\ x # "fg")  OBVIOUS
      <4> QED  BY <4>1, <4>2 DEF Does
    <3> QED  BY <3>1, <3>2 DEF FieldNames
  <2>5. CASE Tail(s) # <<"reset">> /\ ~IsColor(Tail(s))
    <3>1. Names(s, "bad")
      BY <1>1, <1>2, <1>5, <1>6, <1>7, <1>11, <2>1, <2>5 DEF Names
    <3>2. Does(r, s, "bad")  BY <1>3, <1>11, <2>2, <2>5, SidedApplied DEF Does, Value, Bad
    <3> QED  BY <3>1, <3>2 DEF FieldNames
  <2> QED  BY <2>3, <2>4, <2>5
<1>12. CASE sides
  <2>1. Head(s) = "fg:" \/ Head(s) = "bg:"  BY <1>5, <1>12
  <2> QED  BY <1>11, <1>12, <2>1
<1>13. CASE ~sides /\ ~Valid(s)
  <2>1. Names(s, "bad")  BY <1>1, <1>2, <1>5, <1>6, <1>7, <1>13 DEF Names
  <2>2. Does(r, s, "bad")  BY <1>13, SpecifierApplied DEF Does, Value, Bad
  <2> QED  BY <2>1, <2>2 DEF FieldNames
<1> QED  BY <1>6, <1>8, <1>9, <1>10, <1>12, <1>13

-----------------------------------------------------------------------------
(* The specifiers of a field                                               *)

\* The record r is what the specifiers of list at the places P say.
Named(list, P, s) == \E i \in P : list[i] = s
Painted(list, P, side, color) ==
  /\ \A i, j \in P : Paints(list[i], side) /\ Paints(list[j], side) => i = j
  /\ \A i \in P : Paints(list[i], side) => color = ColorName(list[i]) /\ color # NoColor
  /\ (\A i \in P : ~Paints(list[i], side)) => color = NoColor
Collected(r, list, P) ==
  /\ r \in Specs /\ r.bad = FALSE
  /\ \A i \in P : Valid(list[i])
  /\ r.reset = TRUE <=> Named(list, P, <<"reset">>)
  /\ r.fgReset = TRUE <=> Named(list, P, <<"fg:", "reset">>)
  /\ r.bgReset = TRUE <=> Named(list, P, <<"bg:", "reset">>)
  /\ \A e \in Range(Emphases) : e \in r.emphasis <=> Named(list, P, <<e>>)
  /\ Painted(list, P, "fg:", r.fg) /\ Painted(list, P, "bg:", r.bg)

LEMMA NothingCollected ==
  ASSUME NEW list
  PROVE  Collected(NoSpec, list, {})
BY EmphasesAre DEF Collected, Named, Painted, NoSpec, Specs, ColorNames

\* One more place: the record takes it in, or the field is not accepted.
LEMMA OneMoreCollected ==
  ASSUME NEW list, NEW P, P \subseteq DOMAIN list, NEW a \in DOMAIN list, a \notin P,
         list[a] \in Seq(STRING), NEW r, Collected(r, list, P)
  PROVE  \/ ApplySpecifier(r, list[a]).bad = TRUE /\ ~Accepts(list)
         \/ ApplySpecifier(r, list[a]).bad = FALSE
              /\ Collected(ApplySpecifier(r, list[a]), list, P \union {a})
<1> DEFINE s == list[a]
           q == ApplySpecifier(r, s)
           Q == P \union {a}
<1>1. r \in Specs /\ r.bad = FALSE  BY DEF Collected
<1>2. PICK k \in FieldNames : Names(s, k) /\ Does(r, s, k)  BY <1>1, SpecifierRead
<1>3. ~Valid(s) => ~Accepts(list)
  <2>1. s \in Range(list)  BY DEF Range
  <2> HIDE DEF s
  <2> QED  BY <2>1 DEF Accepts
<1>4. CASE k = "bad"
  <2>1. ~Valid(s)  BY <1>2, <1>4 DEF Names
  <2>2. q = [r EXCEPT !["bad"] = TRUE]  BY <1>2, <1>4 DEF Does, Value
  <2>3. q.bad = TRUE
    <3>1. Puts(q, r, "bad", TRUE)  BY <2>2 DEF Puts
    <3> HIDE DEF q
    <3>2. IsPut(q, r, "bad", TRUE)  BY <1>1, <3>1, Updated
    <3> QED  BY <3>2 DEF IsPut
  <2> QED  BY <1>3, <2>1, <2>3
<1>5. ASSUME NEW x \in {"fg", "bg"}, k = x, r[x] # NoColor PROVE q.bad = TRUE /\ ~Accepts(list)
  <2> DEFINE side == IF x = "fg" THEN "fg:" ELSE "bg:"
  <2>1. q = [r EXCEPT !["bad"] = TRUE]  BY <1>2, <1>5 DEF Does, SetColor, Bad
  <2>2. q.bad = TRUE
    <3>1. Puts(q, r, "bad", TRUE)  BY <2>1 DEF Puts
    <3> HIDE DEF q
    <3>2. IsPut(q, r, "bad", TRUE)  BY <1>1, <3>1, Updated
    <3> QED  BY <3>2 DEF IsPut
  <2>3. Paints(s, side)  BY <1>2, <1>5 DEF Names
  <2>4. PICK i \in P : Paints(list[i], side)  BY <1>5 DEF Collected, Painted
  <2>5. i \in Colors(list, side) /\ a \in Colors(list, side) /\ i # a  BY <2>3, <2>4 DEF Colors
  <2>6. side \in Sides  BY DEF Sides
  <2> QED  BY <2>2, <2>5, <2>6 DEF Accepts
<1>6. CASE k # "bad" /\ (k \in {"fg", "bg"} => r[k] = NoColor)
  <2>1. q = [r EXCEPT ![k] = Value(r, s, k)]
    BY <1>2, <1>6 DEF Does, SetColor, Value, FieldNames
  <2>2. /\ k \in {"fg", "bg"} => Value(r, s, k) \in ColorNames
        /\ k = "emphasis" => Value(r, s, k) \in SUBSET Range(Emphases)
        /\ k \in {"reset", "fgReset", "bgReset"} => Value(r, s, k) = TRUE
    BY <1>1, <1>2 DEF Names, Value, Specs
  <2>3. /\ q.fg = IF k = "fg" THEN ColorName(s) ELSE r.fg
        /\ q.bg = IF k = "bg" THEN ColorName(s) ELSE r.bg
        /\ q.emphasis = IF k = "emphasis" THEN r.emphasis \union {Head(s)} ELSE r.emphasis
        /\ q.reset = IF k = "reset" THEN TRUE ELSE r.reset
        /\ q.fgReset = IF k = "fgReset" THEN TRUE ELSE r.fgReset
        /\ q.bgReset = IF k = "bgReset" THEN TRUE ELSE r.bgReset
        /\ q.bad = r.bad
        /\ q \in Specs
    <3> DEFINE v == Value(r, s, k)
    <3>1. /\ k = "fg" => v = ColorName(s)
          /\ k = "bg" => v = ColorName(s)
          /\ k = "emphasis" => v = r.emphasis \union {Head(s)}
          /\ k \in {"reset", "fgReset", "bgReset"} => v = TRUE
      BY DEF Value
    <3>2. k \in {"fg", "bg", "emphasis", "reset", "fgReset", "bgReset", "bad"}  BY DEF FieldNames
    <3>3. Puts(q, r, k, v)  BY <2>1 DEF Puts
    <3>4. /\ k \in {"fg", "bg"} => v \in ColorNames
          /\ k = "emphasis" => v \in SUBSET Range(Emphases)
      BY <2>2
    <3> HIDE DEF q, s, v
    <3>5. IsPut(q, r, k, v)  BY <1>1, <3>2, <3>3, Updated
    <3>6. q \in Specs  BY <1>6, <3>1, <3>2, <3>4, <3>5 DEF IsPut
    <3> QED  BY <1>6, <3>1, <3>2, <3>5, <3>6 DEF IsPut
  <2>4. \A i \in Q : Valid(list[i])
    <3>1. Valid(s)  BY <1>2, <1>6 DEF Names
    <3> QED  BY <3>1 DEF Collected
  <2>5. \A w : Named(list, Q, w) <=> Named(list, P, w) \/ s = w  BY DEF Named
  <2>6. /\ q.reset = TRUE <=> Named(list, Q, <<"reset">>)
        /\ q.fgReset = TRUE <=> Named(list, Q, <<"fg:", "reset">>)
        /\ q.bgReset = TRUE <=> Named(list, Q, <<"bg:", "reset">>)
    <3>1. /\ s = <<"reset">> <=> k = "reset"
          /\ s = <<"fg:", "reset">> <=> k = "fgReset"
          /\ s = <<"bg:", "reset">> <=> k = "bgReset"
      BY <1>2 DEF Names
    <3>2. /\ r.reset = TRUE <=> Named(list, P, <<"reset">>)
          /\ r.fgReset = TRUE <=> Named(list, P, <<"fg:", "reset">>)
          /\ r.bgReset = TRUE <=> Named(list, P, <<"bg:", "reset">>)
      BY DEF Collected
    <3> HIDE DEF q, s, Q
    <3> QED  BY <2>3, <2>5, <3>1, <3>2
  <2>7. \A e \in Range(Emphases) : e \in q.emphasis <=> Named(list, Q, <<e>>)
    <3> TAKE e \in Range(Emphases)
    <3>1. s = <<e>> <=> k = "emphasis" /\ e = Head(s)  BY <1>2 DEF Names
    <3>2. e \in r.emphasis <=> Named(list, P, <<e>>)  BY DEF Collected
    <3>3. e \in q.emphasis <=> e \in r.emphasis \/ (k = "emphasis" /\ e = Head(s))
      <4> HIDE DEF q, s
      <4> QED  BY <2>3
    <3> HIDE DEF q, s, Q
    <3> QED  BY <2>5, <3>1, <3>2, <3>3
  <2>8. ASSUME NEW x \in {"fg", "bg"}, NEW side, NEW old, NEW new,
               Painted(list, P, side, old), Paints(s, side) <=> k = x,
               k = x => old = NoColor /\ new = ColorName(s) /\ new # NoColor,
               k # x => new = old
        PROVE  Painted(list, Q, side, new)
    <3>1. CASE k = x
      <4>1. \A i \in P : ~Paints(list[i], side)  BY <2>8, <3>1 DEF Painted
      <4>2. \A i \in Q : Paints(list[i], side) => i = a  BY <4>1
      <4> QED  BY <2>8, <3>1, <4>2 DEF Painted
    <3>2. CASE k # x
      <4>1. \A i \in Q : Paints(list[i], side) => i \in P  BY <2>8, <3>2
      <4>2. (\A i \in Q : ~Paints(list[i], side)) => \A i \in P : ~Paints(list[i], side)  OBVIOUS
      <4> QED  BY <2>8, <3>2, <4>1, <4>2 DEF Painted
    <3> QED  BY <3>1, <3>2
  <2>9. Painted(list, Q, "fg:", q.fg)
    <3>1. Painted(list, P, "fg:", r.fg)  BY DEF Collected
    <3>2. Paints(s, "fg:") <=> k = "fg"  BY <1>2 DEF Names
    <3>3. k = "fg" => r.fg = NoColor /\ q.fg = ColorName(s) /\ q.fg # NoColor
      <4>1. k = "fg" => ColorName(s) # NoColor  BY <1>2 DEF Names
      <4> HIDE DEF q, s
      <4> QED  BY <1>6, <2>3, <4>1
    <3>4. k # "fg" => q.fg = r.fg
      <4> HIDE DEF q, s
      <4> QED  BY <2>3
    <3> HIDE DEF q, s, Q
    <3> QED  BY <2>8, <3>1, <3>2, <3>3, <3>4
  <2>10. Painted(list, Q, "bg:", q.bg)
    <3>1. Painted(list, P, "bg:", r.bg)  BY DEF Collected
    <3>2. Paints(s, "bg:") <=> k = "bg"  BY <1>2 DEF Names
    <3>3. k = "bg" => r.bg = NoColor /\ q.bg = ColorName(s) /\ q.bg # NoColor
      <4>1. k = "bg" => ColorName(s) # NoColor  BY <1>2 DEF Names
      <4> HIDE DEF q, s
      <4> QED  BY <1>6, <2>3, <4>1
    <3>4. k # "bg" => q.bg = r.bg
      <4> HIDE DEF q, s
      <4> QED  BY <2>3
    <3> HIDE DEF q, s, Q
    <3> QED  BY <2>8, <3>1, <3>2, <3>3, <3>4
  <2>11. q.bad = FALSE  BY <1>1, <2>3
  <2> HIDE DEF q
  <2>12. Collected(q, list, Q)  BY <2>3, <2>4, <2>6, <2>7, <2>9, <2>10, <2>11 DEF Collected
  <2> QED  BY <2>11, <2>12 DEF q
<1> QED  BY <1>4, <1>5, <1>6

\* When every place is collected, the check at the end of do_parse tells
\* whether the field is accepted, and the escape sequence is the field's.
LEMMA AllCollected ==
  ASSUME NEW list, NEW r, Collected(r, list, DOMAIN list)
  PROVE  /\ Accepts(list) <=> ~Contradictory(r)
         /\ ~Contradictory(r) => Escape(r) = Sgr(list)
<1> DEFINE P == DOMAIN list
           words == Range(list)
           Sets(side, color) == /\ \A i, j \in Colors(list, side) : i = j
                                /\ \A i \in Colors(list, side) : color = ColorName(list[i])
                                                                   /\ color # NoColor
                                /\ Colors(list, side) = {} => color = NoColor
<1>1. \A w : w \in words <=> Named(list, P, w)  BY DEF Range, Named
<1>2. \A side, color : Painted(list, P, side, color) => Sets(side, color)
  BY DEF Painted, Colors
<1>3. Sets("fg:", r.fg) /\ Sets("bg:", r.bg)  BY <1>2 DEF Collected
<1>4. /\ r.reset = TRUE <=> <<"reset">> \in words
      /\ r.fgReset = TRUE <=> <<"fg:", "reset">> \in words
      /\ r.bgReset = TRUE <=> <<"bg:", "reset">> \in words
      /\ \A e \in Range(Emphases) : e \in r.emphasis <=> <<e>> \in words
  <2> HIDE DEF words
  <2> QED  BY <1>1 DEF Collected
<1>5. \A s \in words : Valid(s)  BY DEF Range, Collected
<1>6. r.emphasis \subseteq Range(Emphases)
        /\ r.reset \in BOOLEAN /\ r.fgReset \in BOOLEAN /\ r.bgReset \in BOOLEAN
  BY DEF Collected, Specs
<1>7. r.emphasis = {} <=> \A e \in Range(Emphases) : <<e>> \notin words
  <2> HIDE DEF words
  <2> QED  BY <1>4, <1>6
<1>8. r.fg = NoColor <=> Colors(list, "fg:") = {}  BY <1>3
<1>9. Contradictory(r) <=> r.reset = TRUE /\ (r.fg # NoColor \/ r.emphasis # {})
  BY <1>6 DEF Contradictory
<1>10. Accepts(list) <=> ~Contradictory(r)
  <2>1. Accepts(list) <=> (<<"reset">> \in words =>
                             Colors(list, "fg:") = {}
                               /\ \A e \in Range(Emphases) : <<e>> \notin words)
    BY <1>3, <1>5 DEF Accepts, Sides
  <2> HIDE DEF words
  <2> QED  BY <1>4, <1>7, <1>8, <1>9, <2>1
<1>11. Escape(r) = Sgr(list)
  <2> DEFINE If(w, code) == IF w \in words THEN <<code>> ELSE <<>>
             Side(side, code) == IF Colors(list, side) = {} THEN <<>>
                                 ELSE LET i == CHOOSE i \in Colors(list, side) : TRUE
                                      IN  <<code, "2", ColorName(list[i])>>
  <2>1. /\ Bit(r.emphasis, "bold", "1") = If(<<"bold">>, "1")
        /\ Bit(r.emphasis, "italic", "3") = If(<<"italic">>, "3")
        /\ Bit(r.emphasis, "reverse", "7") = If(<<"reverse">>, "7")
        /\ Bit(r.emphasis, "strike", "9") = If(<<"strike">>, "9")
    <3>1. /\ "bold" \in r.emphasis <=> <<"bold">> \in words
          /\ "italic" \in r.emphasis <=> <<"italic">> \in words
          /\ "reverse" \in r.emphasis <=> <<"reverse">> \in words
          /\ "strike" \in r.emphasis <=> <<"strike">> \in words
      BY <1>4, EmphasesAre
    <3> HIDE DEF words
    <3> QED  BY <3>1 DEF Bit
  <2>2. EachBit(r.emphasis) = If(<<"bold">>, "1") \o If(<<"italic">>, "3")
                                \o If(<<"reverse">>, "7") \o If(<<"strike">>, "9")
    <3> HIDE DEF If
    <3> QED  BY <2>1 DEF EachBit
  <2>3. /\ (IF r.fgReset THEN <<"39">> ELSE <<>>) = If(<<"fg:", "reset">>, "39")
        /\ (IF r.bgReset THEN <<"49">> ELSE <<>>) = If(<<"bg:", "reset">>, "49")
    <3>1. /\ r.fgReset <=> <<"fg:", "reset">> \in words
          /\ r.bgReset <=> <<"bg:", "reset">> \in words
      <4> HIDE DEF words
      <4> QED  BY <1>4, <1>6
    <3> HIDE DEF words
    <3> QED  BY <3>1, Zenon
  <2>4. ASSUME NEW side, NEW color, NEW code, Sets(side, color)
        PROVE  ColorParams(code, color) = Side(side, code)
    <3>1. CASE Colors(list, side) = {}  BY <2>4, <3>1 DEF ColorParams
    <3>2. CASE Colors(list, side) # {}
      <4> DEFINE i == CHOOSE i \in Colors(list, side) : TRUE
      <4>1. i \in Colors(list, side)  BY <3>2
      <4>2. color = ColorName(list[i]) /\ color # NoColor  BY <2>4, <4>1
      <4> HIDE DEF i
      <4>3. ColorParams(code, color) = <<code, "2", ColorName(list[i])>>
        BY <4>2 DEF ColorParams
      <4> QED  BY <3>2, <4>3 DEF i
    <3> QED  BY <3>1, <3>2
  <2>5. ColorParams("38", r.fg) = Side("fg:", "38") /\ ColorParams("48", r.bg) = Side("bg:", "48")
    <3> HIDE DEF Side, Sets
    <3> QED  BY <1>3, <2>4
  <2>6. r.reset <=> <<"reset">> \in words
    <3> HIDE DEF words
    <3> QED  BY <1>4, <1>6
  <2>7. Sgr(list) = IF <<"reset">> \in words THEN <<"esc", "0">>
                    ELSE <<"esc">> \o (If(<<"bold">>, "1") \o If(<<"italic">>, "3")
                                         \o If(<<"reverse">>, "7") \o If(<<"strike">>, "9"))
                           \o If(<<"fg:", "reset">>, "39") \o If(<<"bg:", "reset">>, "49")
                           \o Side("fg:", "38") \o Side("bg:", "48")
    BY Zenon DEF Sgr
  <2> HIDE DEF If, Side, words
  <2> QED  BY <2>2, <2>3, <2>5, <2>6, <2>7, Zenon DEF Escape
<1> QED  BY <1>10, <1>11

\* Where the specifiers of a field begin and end.
First(s, f) == IF s[f + 1] = "|" THEN f + 2 ELSE f + 1
After(s, a) == FirstFrom(s, {"|", "]"}, a)
UpTo(list, a) == {i \in DOMAIN list : i <= a}

\* A field is open at f: not an escape, and not empty.
Opens(s, f) == /\ f \in 1..(Len(s) - 1) /\ s[f] = "["
               /\ s[f + 1] # "[" /\ s[f + 1] # "]"

LEMMA FieldShape ==
  ASSUME NEW s \in Seq(STRING), NEW f, Opens(s, f), Close(s, f) <= Len(s)
  PROVE  /\ Close(s, f) \in (f + 2)..Len(s) /\ s[Close(s, f)] = "]"
         /\ \A i \in f..(Close(s, f) - 1) : s[i] # "]"
         /\ First(s, f) \in (f + 1)..Close(s, f)
         /\ DOMAIN FieldAt(s, f) = {First(s, f)} \union
                                   {i \in (First(s, f) + 1)..Close(s, f) : s[i - 1] = "|"}
         /\ \A a \in DOMAIN FieldAt(s, f) :
              /\ a \in First(s, f)..Close(s, f) /\ After(s, a) \in a..Close(s, f)
              /\ FieldAt(s, f)[a] = SubSeq(s, a, After(s, a) - 1)
              /\ FieldAt(s, f)[a] \in Seq(STRING)
<1> DEFINE e == Close(s, f)
           L == FieldAt(s, f)
           starts == {First(s, f)} \union {i \in (First(s, f) + 1)..e : s[i - 1] = "|"}
<1>1. Len(s) \in Nat /\ f \in 1..(Len(s) - 1) /\ f \in 1..(Len(s) + 1)  BY DEF Opens
<1>2. /\ e \in f..(Len(s) + 1) /\ (e <= Len(s) => s[e] \in {"]"})
      /\ \A i \in f..(e - 1) : i \in f..Len(s) /\ s[i] \notin {"]"}
  BY <1>1, FirstPlace DEF Close
<1>3. e # f /\ e # f + 1 /\ s[e] = "]"  BY <1>2 DEF Opens
<1>4. L = [i \in starts |-> SubSeq(s, i, After(s, i) - 1)]
  BY DEF FieldAt, Specifiers, First, After
<1> HIDE DEF e, L
<1>5. e \in (f + 2)..Len(s) /\ First(s, f) \in (f + 1)..e
  <2>1. e <= Len(s)  BY DEF e
  <2> QED  BY <1>1, <1>2, <1>3, <2>1 DEF First
<1>6. DOMAIN L = starts  BY <1>4
<1>7. ASSUME NEW a \in DOMAIN L
      PROVE  /\ a \in First(s, f)..e /\ After(s, a) \in a..e
             /\ L[a] = SubSeq(s, a, After(s, a) - 1) /\ L[a] \in Seq(STRING)
  <2>1. a \in First(s, f)..e /\ a \in 1..(Len(s) + 1)  BY <1>1, <1>5, <1>6
  <2>2. /\ After(s, a) \in a..(Len(s) + 1)
        /\ \A i \in a..(After(s, a) - 1) : s[i] \notin {"|", "]"}
    BY <2>1, FirstPlace DEF After
  <2>3. ~(e < After(s, a))
    <3>1. e < After(s, a) => e \in a..(After(s, a) - 1)  BY <1>1, <1>5, <2>1, <2>2
    <3> QED  BY <1>3, <2>2, <3>1
  <2>4. After(s, a) \in a..e  BY <1>1, <1>5, <2>1, <2>2, <2>3
  <2>5. L[a] = SubSeq(s, a, After(s, a) - 1)  BY <1>4, <1>6
  <2>6. SubSeq(s, a, After(s, a) - 1) \in Seq(STRING)
    <3>1. \A i \in a..(After(s, a) - 1) : i \in 1..Len(s)  BY <1>1, <1>5, <2>1, <2>4
    <3> QED  BY <2>1, <2>4, <3>1, <1>1, <1>5, SubSeqProperties
  <2> QED  BY <2>1, <2>4, <2>5, <2>6
<1> QED  BY <1>2, <1>3, <1>5, <1>6, <1>7 DEF e, L

LEMMA FirstSpecifier ==
  ASSUME NEW s \in Seq(STRING), NEW f, Opens(s, f), Close(s, f) <= Len(s)
  PROVE  UpTo(FieldAt(s, f), First(s, f)) = {First(s, f)}
<1> DEFINE e == Close(s, f)
           p == First(s, f)
           L == FieldAt(s, f)
<1>1. p \in (f + 1)..e /\ DOMAIN L = {p} \union {i \in (p + 1)..e : s[i - 1] = "|"}
        /\ e \in (f + 2)..Len(s)
  BY FieldShape
<1>2. f \in Nat /\ Len(s) \in Nat  BY DEF Opens
<1> HIDE DEF e, p, L
<1>3. UpTo(L, p) = {p}
  <2>1. p \in Nat /\ \A i \in (p + 1)..e : ~(i <= p)  BY <1>1, <1>2
  <2> QED  BY <1>1, <2>1 DEF UpTo
<1> QED  BY <1>3 DEF p, L

\* The specifier behind the one at a, if a "|" ends that, and none otherwise.
LEMMA NextSpecifier ==
  ASSUME NEW s \in Seq(STRING), NEW f, Opens(s, f), Close(s, f) <= Len(s),
         NEW a \in DOMAIN FieldAt(s, f)
  PROVE  /\ After(s, a) # Close(s, f) =>
              /\ s[After(s, a)] = "|" /\ After(s, a) + 1 \in DOMAIN FieldAt(s, f)
              /\ After(s, a) + 1 \notin UpTo(FieldAt(s, f), a)
              /\ UpTo(FieldAt(s, f), After(s, a) + 1)
                   = UpTo(FieldAt(s, f), a) \union {After(s, a) + 1}
         /\ After(s, a) = Close(s, f) => UpTo(FieldAt(s, f), a) = DOMAIN FieldAt(s, f)
<1> DEFINE e == Close(s, f)
           p == First(s, f)
           L == FieldAt(s, f)
           q == After(s, a)
<1>1. /\ e \in (f + 2)..Len(s) /\ p \in (f + 1)..e /\ a \in p..e /\ q \in a..e
      /\ DOMAIN L = {p} \union {i \in (p + 1)..e : s[i - 1] = "|"}
      /\ \A i \in f..(e - 1) : s[i] # "]"
  BY FieldShape
<1>2. Len(s) \in Nat /\ f \in 1..Len(s)  BY DEF Opens
<1>3. a \in 1..(Len(s) + 1)  BY <1>1, <1>2
<1>4. (q <= Len(s) => s[q] \in {"|", "]"}) /\ \A i \in a..(q - 1) : s[i] \notin {"|", "]"}
  BY <1>3, FirstPlace DEF After
<1>5. a \in DOMAIN L  OBVIOUS
<1> HIDE DEF e, p, L, q
<1>6. \A i \in DOMAIN L : i <= a \/ i >= q + 1
  <2> TAKE i \in DOMAIN L
  <2>1. i \in p..e /\ (i # p => s[i - 1] = "|")  BY <1>1, <1>2
  <2>2. SUFFICES ASSUME i > a, i < q + 1 PROVE FALSE  BY <1>1, <1>2, <2>1
  <2>3. i - 1 \in a..(q - 1) /\ i # p  BY <1>1, <1>2, <2>1, <2>2
  <2> QED  BY <1>4, <2>1, <2>3
<1>7. CASE q # e
  <2>1. q \in f..(e - 1) /\ q <= Len(s)  BY <1>1, <1>2, <1>7
  <2>2. s[q] = "|"  BY <1>1, <1>4, <2>1
  <2>3. q + 1 \in (p + 1)..e /\ q + 1 - 1 = q  BY <1>1, <1>2, <1>7
  <2>4. q + 1 \in DOMAIN L  BY <1>1, <2>2, <2>3
  <2>5. \A i \in DOMAIN L : i <= q + 1 <=> i <= a \/ i = q + 1
    <3> TAKE i \in DOMAIN L
    <3>1. i \in p..e /\ p \in Nat /\ e \in Nat  BY <1>1, <1>2
    <3>2. a \in Nat /\ q \in Nat /\ a <= q  BY <1>1, <1>2
    <3>3. i <= a \/ i >= q + 1  BY <1>6
    <3> QED  BY <3>1, <3>2, <3>3
  <2>6. ~(q + 1 <= a)  BY <1>1, <1>2
  <2>7. UpTo(L, q + 1) = UpTo(L, a) \union {q + 1} /\ q + 1 \notin UpTo(L, a)
    BY <2>4, <2>5, <2>6 DEF UpTo
  <2> QED  BY <1>7, <2>2, <2>4, <2>7 DEF e, L, q
<1>8. CASE q = e
  <2>1. \A i \in DOMAIN L : i <= a
    <3> TAKE i \in DOMAIN L
    <3>1. i \in p..e  BY <1>1, <1>2
    <3> QED  BY <1>1, <1>2, <1>6, <1>8, <3>1
  <2>2. UpTo(L, a) = DOMAIN L  BY <2>1 DEF UpTo
  <2> QED  BY <1>8, <2>2 DEF e, L, q
<1> QED  BY <1>7, <1>8

-----------------------------------------------------------------------------
(* What is written                                                         *)

\* The output o stands for what is before place p.
Wrote(s, m, o, p) == /\ o \in Seq(Outputs(s))
                     /\ m # "check" => Joins(Meant(s, m, 1), o, Meant(s, m, p))
                     /\ Refused(s, m, p) = Refused(s, m, 1)

\* More is written, unless the scanner only checks.
Writes(m, o, new, x) == /\ m = "check" => new = o
                        /\ m # "check" => Joins(new, o, x)

LEMMA WroteNothing ==
  ASSUME NEW s \in Seq(STRING), NEW m
  PROVE  Wrote(s, m, <<>>, 1)
<1>1. 1 \in 1..(Len(s) + 1)  OBVIOUS
<1>2. Meant(s, m, 1) \in Seq(Outputs(s))  BY <1>1, MeantType
<1>3. <<>> \o Meant(s, m, 1) = Meant(s, m, 1) /\ <<>> \in Seq(Outputs(s))  BY <1>2, ConcatEmptySeq
<1> QED  BY <1>3 DEF Wrote, Joins

LEMMA WroteMore ==
  ASSUME NEW s \in Seq(STRING), NEW m, NEW p \in 1..(Len(s) + 1), NEW q \in 1..(Len(s) + 1),
         NEW o, NEW new, NEW x \in Seq(Outputs(s)), Wrote(s, m, o, p), Writes(m, o, new, x),
         m # "check" => Joins(Meant(s, m, p), x, Meant(s, m, q)),
         Refused(s, m, p) = Refused(s, m, q)
  PROVE  Wrote(s, m, new, q)
<1>1. o \in Seq(Outputs(s)) /\ Refused(s, m, q) = Refused(s, m, 1)  BY DEF Wrote
<1>2. CASE m = "check"  BY <1>1, <1>2 DEF Wrote, Writes
<1>3. CASE m # "check"
  <2>1. Joins(Meant(s, m, 1), o, Meant(s, m, p)) /\ Joins(Meant(s, m, p), x, Meant(s, m, q))
          /\ Joins(new, o, x)
    BY <1>3 DEF Wrote, Writes
  <2>2. Meant(s, m, q) \in Seq(Outputs(s))  BY MeantType
  <2>3. Joins(Meant(s, m, 1), new, Meant(s, m, q))
    BY <1>1, <2>1, <2>2, Regroup
  <2>4. new \in Seq(Outputs(s))
    <3>1. o \o x \in Seq(Outputs(s))  BY <1>1, ConcatProperties
    <3> QED  BY <2>1, <3>1 DEF Joins
  <2> QED  BY <1>1, <2>3, <2>4 DEF Wrote
<1> QED  BY <1>2, <1>3

LEMMA WroteText ==
  ASSUME NEW s \in Seq(STRING), NEW m, NEW p \in 0..Len(s), NEW n \in 0..(Len(s) - p),
         Plain(s, p, n), NEW o, NEW new, Wrote(s, m, o, p + 1), Writes(m, o, new, Run(s, p, n))
  PROVE  p + n + 1 \in 1..(Len(s) + 1) /\ Wrote(s, m, new, p + n + 1)
<1>1. p + 1 \in 1..(Len(s) + 1) /\ p + n + 1 \in 1..(Len(s) + 1)  OBVIOUS
<1>2. /\ Run(s, p, n) \in Seq(Outputs(s))
      /\ Joins(Meant(s, m, p + 1), Run(s, p, n), Meant(s, m, p + n + 1))
      /\ Refused(s, m, p + 1) = Refused(s, m, p + n + 1)
  BY PlainRun
<1> QED  BY <1>1, <1>2, WroteMore

\* Text and an escaped bracket behind it.
LEMMA WroteEscape ==
  ASSUME NEW s \in Seq(STRING), NEW m, NEW p \in 0..Len(s), NEW n \in 0..(Len(s) - p - 1),
         Plain(s, p, n), NEW o, NEW new, Wrote(s, m, o, p + 1),
         s[p + n + 1] \in {"[", "]"}, Doubled(s, p + n + 1),
         s[p + n + 1] = "[" => Close(s, p + n + 1) <= Len(s),
         Writes(m, o, new, Run(s, p, n + 1))
  PROVE  p + n + 3 \in 1..(Len(s) + 1) /\ Wrote(s, m, new, p + n + 3)
<1> DEFINE q == p + n + 1
           b == Only(Word(s, q))
           mid == o \o Run(s, p, n)
<1>1. /\ p + 1 \in 1..(Len(s) + 1) /\ q \in 1..Len(s) /\ q + 2 = p + n + 3 /\ p \in Nat /\ n \in Nat
      /\ n \in 0..(Len(s) - p) /\ n + 1 \in 0..(Len(s) - p) /\ q \in 1..(Len(s) + 1)
  OBVIOUS
<1>2. q + 2 \in 1..(Len(s) + 1)  BY <1>1 DEF Doubled
<1>3. WordsIn(s, p, n + 1, Outputs(s))
  <2>1. \A i \in 1..(n + 1) : p + i \in 1..Len(s)  BY <1>1
  <2> QED  BY <2>1 DEF WordsIn, Outputs, Word
<1>4. /\ Run(s, p, n) \in Seq(Outputs(s)) /\ Run(s, p, n + 1) \in Seq(Outputs(s))
      /\ b \in Seq(Outputs(s)) /\ Joins(Run(s, p, n + 1), Run(s, p, n), b)
  BY <1>1, <1>3, RunGrows
<1>5. /\ Joins(Meant(s, m, p + 1), Run(s, p, n), Meant(s, m, q))
      /\ Refused(s, m, p + 1) = Refused(s, m, q)
  BY <1>1, PlainRun
<1>6. /\ Joins(Meant(s, m, q), b, Meant(s, m, q + 2))
      /\ Refused(s, m, q) = Refused(s, m, q + 2)
  <2>1. s[q] \in {"[", "]"} /\ Doubled(s, q) /\ (s[q] = "[" => Close(s, q) <= Len(s))  OBVIOUS
  <2> HIDE DEF q
  <2> QED  BY <1>1, <2>1, EscapePlace DEF Joins, q
<1> HIDE DEF q, b
<1>7. Joins(Meant(s, m, p + 1), Run(s, p, n + 1), Meant(s, m, q + 2))
  <2>1. Meant(s, m, q + 2) \in Seq(Outputs(s))  BY <1>2, MeantType
  <2> QED  BY <1>4, <1>5, <1>6, <2>1, Regroup
<1>8. Wrote(s, m, new, q + 2)
  BY <1>1, <1>2, <1>4, <1>5, <1>6, <1>7, WroteMore
<1> QED  BY <1>1, <1>2, <1>8

LEMMA WroteField ==
  ASSUME NEW s \in Seq(STRING), NEW m, NEW f, Opens(s, f), Close(s, f) <= Len(s),
         Accepts(FieldAt(s, f)), NEW o, NEW new, Wrote(s, m, o, f),
         new = IF m = "color" THEN Append(o, Sgr(FieldAt(s, f))) ELSE o
  PROVE  Wrote(s, m, new, Close(s, f) + 1)
<1> DEFINE e == Close(s, f)
           x == IF m = "color" THEN Only(Sgr(FieldAt(s, f))) ELSE <<>>
<1>1. f \in 1..Len(s) /\ f \in 1..(Len(s) + 1) /\ s[f] = "[" /\ ~Doubled(s, f)
  BY DEF Opens, Doubled
<1>2. e \in (f + 2)..Len(s)  BY FieldShape
<1>3. e + 1 \in 1..(Len(s) + 1)  BY <1>1, <1>2
<1>4. Meant(s, m, f) = x \o Meant(s, m, e + 1) /\ Refused(s, m, f) = Refused(s, m, e + 1)
  BY <1>1, <1>2, FieldPlace DEF Only
<1>5. x \in Seq(Outputs(s))
  <2>1. Sgr(FieldAt(s, f)) \in Outputs(s)  BY <1>1 DEF Outputs
  <2>2. Only(Sgr(FieldAt(s, f))) \in Seq(Outputs(s))  BY <2>1, OnlySeq
  <2>3. <<>> \in Seq(Outputs(s))  OBVIOUS
  <2> QED  BY <2>2, <2>3
<1>6. Writes(m, o, new, x)
  <2>1. o \in Seq(Outputs(s))  BY DEF Wrote
  <2>2. CASE m = "color"
    <3>1. Append(o, Sgr(FieldAt(s, f))) = o \o Only(Sgr(FieldAt(s, f)))
      <4> DEFINE y == Sgr(FieldAt(s, f))
      <4>1. y \in Outputs(s)  BY <1>1 DEF Outputs
      <4> HIDE DEF y
      <4>2. Append(o, y) = o \o <<y>>  BY <2>1, <4>1, AppendIsConcat
      <4> QED  BY <4>2 DEF y, Only
    <3> QED  BY <2>2, <3>1 DEF Writes, Joins
  <2>3. CASE m # "color"
    <3>1. o \o <<>> = o  BY <2>1, ConcatEmptySeq
    <3> QED  BY <2>3, <3>1 DEF Writes, Joins
  <2> QED  BY <2>2, <2>3
<1>7. Joins(Meant(s, m, f), x, Meant(s, m, e + 1))  BY <1>4 DEF Joins
<1> HIDE DEF e, x
<1>8. Wrote(s, m, new, e + 1)  BY <1>1, <1>3, <1>4, <1>5, <1>6, <1>7, WroteMore
<1> QED  BY <1>8 DEF e

-----------------------------------------------------------------------------
(* What find_first_of tells the scanner                                    *)

LEMMA FindFacts ==
  ASSUME TextOK, NEW tokens, NEW p \in 0..Len(str)
  PROVE  \/ /\ Find(tokens, p) = NPos
            /\ \A i \in (p + 1)..Len(str) : str[i] \notin tokens
         \/ /\ Find(tokens, p) \in 0..(Len(str) - p - 1)
            /\ str[p + Find(tokens, p) + 1] \in tokens
            /\ \A i \in (p + 1)..(p + Find(tokens, p)) : str[i] \notin tokens
<1> DEFINE e == FirstFrom(str, tokens, p + 1)
<1>1. Len(str) \in Nat /\ p \in Nat /\ p + 1 \in 1..(Len(str) + 1)  BY DEF TextOK
<1>2. /\ e \in (p + 1)..(Len(str) + 1) /\ (e <= Len(str) => str[e] \in tokens)
      /\ \A i \in (p + 1)..(e - 1) : str[i] \notin tokens
  BY <1>1, FirstPlace DEF TextOK
<1>3. Find(tokens, p) = IF e <= Len(str) THEN e - p - 1 ELSE NPos  BY FindIs
<1> HIDE DEF e
<1>4. CASE e <= Len(str)
  <2>1. e - p - 1 \in 0..(Len(str) - p - 1) /\ p + (e - p - 1) + 1 = e /\ p + (e - p - 1) = e - 1
    BY <1>1, <1>2, <1>4
  <2> QED  BY <1>2, <1>3, <1>4, <2>1
<1>5. CASE ~(e <= Len(str))
  <2>1. e - 1 = Len(str)  BY <1>1, <1>2, <1>5
  <2> QED  BY <1>2, <1>3, <1>5, <2>1
<1> QED  BY <1>4, <1>5

\* The same token is found from a later place that it is not before.
LEMMA FindLater ==
  ASSUME TextOK, NEW tokens, NEW p \in 0..Len(str), NEW d \in 0..(Len(str) - p),
         \A i \in (p + 1)..(p + d) : str[i] \notin tokens
  PROVE  Find(tokens, p + d) = IF Find(tokens, p) = NPos THEN NPos ELSE Find(tokens, p) - d
<1> DEFINE n == Len(str)
           e == FirstFrom(str, tokens, p + 1)
<1>1. n \in Nat /\ p \in Nat /\ d \in Nat /\ p + 1 \in 1..(n + 1) /\ p + d \in 0..n
        /\ n < NPos /\ NPos \in Nat
  BY DEF TextOK
<1>2. /\ e \in (p + 1)..(n + 1) /\ (e <= n => str[e] \in tokens)
      /\ \A i \in (p + 1)..(e - 1) : str[i] \notin tokens
  BY <1>1, FirstPlace DEF TextOK
<1>3. Find(tokens, p) = IF e <= n THEN e - p - 1 ELSE NPos  BY FindIs
<1>4. Find(tokens, p + d) = IF FirstFrom(str, tokens, p + d + 1) <= n
                            THEN FirstFrom(str, tokens, p + d + 1) - (p + d) - 1 ELSE NPos
  BY <1>1, FindIs
<1>5. e >= p + d + 1
  <2>1. SUFFICES ASSUME e < p + d + 1 PROVE FALSE  BY <1>1, <1>2
  <2>2. e \in (p + 1)..(p + d) /\ e <= n  BY <1>1, <1>2, <2>1
  <2> QED  BY <1>2, <2>2
<1>6. FirstFrom(str, tokens, p + d + 1) = e
  <2> DEFINE a == p + d + 1
  <2>1. a \in 1..(n + 1) /\ e \in a..(n + 1)  BY <1>1, <1>2, <1>5
  <2>2. \A i \in a..(e - 1) : str[i] \notin tokens
    <3>1. \A i \in a..(e - 1) : i \in (p + 1)..(e - 1)  BY <1>1, <1>2
    <3> QED  BY <1>2, <3>1
  <2>3. str \in Seq(STRING) /\ (e <= n => str[e] \in tokens)  BY <1>2 DEF TextOK
  <2> HIDE DEF a, e
  <2>4. FirstFrom(str, tokens, a) = e  BY <2>1, <2>2, <2>3, FirstPlaceIs
  <2> QED  BY <2>4 DEF a
<1> HIDE DEF e, n
<1>7. e <= n => e - p - 1 # NPos /\ e - (p + d) - 1 = e - p - 1 - d  BY <1>1, <1>2
<1> QED  BY <1>3, <1>4, <1>6, <1>7

LEMMA AtNone ==
  ASSUME TextOK, NEW p \in 0..Len(str), Find({"["}, p) = Find({"]"}, p)
  PROVE  Plain(str, p, Len(str) - p)
<1> DEFINE l == Find({"["}, p)
           r == Find({"]"}, p)
<1>1. Len(str) \in Nat /\ p \in Nat /\ NPos \in Nat /\ Len(str) < NPos /\ p + (Len(str) - p) = Len(str)
  BY DEF TextOK
<1>2. \/ l = NPos /\ \A i \in (p + 1)..Len(str) : str[i] \notin {"["}
      \/ l \in 0..(Len(str) - p - 1) /\ str[p + l + 1] \in {"["}
  BY FindFacts
<1>3. \/ r = NPos /\ \A i \in (p + 1)..Len(str) : str[i] \notin {"]"}
      \/ r \in 0..(Len(str) - p - 1) /\ str[p + r + 1] \in {"]"}
  BY FindFacts
<1>4. l = r  OBVIOUS
<1> HIDE DEF l, r
<1> QED  BY <1>1, <1>2, <1>3, <1>4 DEF Plain

LEMMA AtLeft ==
  ASSUME TextOK, NEW p \in 0..Len(str), Find({"["}, p) < Find({"]"}, p)
  PROVE  /\ Find({"["}, p) \in 0..(Len(str) - p - 1)
         /\ str[p + Find({"["}, p) + 1] = "["
         /\ Plain(str, p, Find({"["}, p))
         /\ \A i \in (p + 1)..(p + Find({"["}, p) + 1) : str[i] # "]"
         /\ Find({"]"}, p) = NPos <=> ~(Close(str, p + Find({"["}, p) + 1) <= Len(str))
<1> DEFINE l == Find({"["}, p)
           r == Find({"]"}, p)
           q == p + l + 1
           e == FirstFrom(str, {"]"}, q)
<1>1. Len(str) \in Nat /\ p \in Nat /\ NPos \in Nat /\ Len(str) < NPos /\ p <= Len(str)
  BY DEF TextOK
<1>2. \/ l = NPos
      \/ /\ l \in 0..(Len(str) - p - 1) /\ str[p + l + 1] \in {"["}
         /\ \A i \in (p + 1)..(p + l) : str[i] \notin {"["}
  BY FindFacts
<1>3. \/ r = NPos /\ \A i \in (p + 1)..Len(str) : str[i] \notin {"]"}
      \/ /\ r \in 0..(Len(str) - p - 1) /\ str[p + r + 1] \in {"]"}
         /\ \A i \in (p + 1)..(p + r) : str[i] \notin {"]"}
  BY FindFacts
<1>4. l < r  OBVIOUS
<1> HIDE DEF l, r
<1>5. /\ l \in 0..(Len(str) - p - 1) /\ str[p + l + 1] = "["
      /\ \A i \in (p + 1)..(p + l) : str[i] \notin {"["}
  BY <1>1, <1>2, <1>3, <1>4
<1>6. \A i \in (p + 1)..(p + l + 1) : str[i] # "]"
  <2> TAKE i \in (p + 1)..(p + l + 1)
  <2>1. CASE r = NPos
    <3>1. i \in (p + 1)..Len(str)  BY <1>1, <1>5
    <3>2. ~(r \in 0..(Len(str) - p - 1))  BY <1>1, <2>1
    <3> QED  BY <1>3, <3>1, <3>2
  <2>2. CASE r # NPos
    <3>1. i \in (p + 1)..(p + r)  BY <1>1, <1>3, <1>4, <1>5, <2>2
    <3> QED  BY <1>3, <2>2, <3>1
  <2> QED  BY <2>1, <2>2
<1>7. Plain(str, p, l)
  <2>1. \A i \in (p + 1)..(p + l) : i \in (p + 1)..(p + l + 1)  BY <1>1, <1>5
  <2> QED  BY <1>5, <1>6, <2>1 DEF Plain
<1>8. /\ e \in q..(Len(str) + 1) /\ (e <= Len(str) => str[e] \in {"]"})
      /\ \A i \in q..(e - 1) : str[i] \notin {"]"}
  <2>1. q \in 1..(Len(str) + 1)  BY <1>1, <1>5
  <2> HIDE DEF q
  <2> QED  BY <2>1, FirstPlace DEF TextOK
<1> HIDE DEF e
<1>9. r = NPos <=> ~(e <= Len(str))
  <2>1. CASE r = NPos
    <3>1. ~(r \in 0..(Len(str) - p - 1))  BY <1>1, <2>1
    <3>2. e <= Len(str) => e \in (p + 1)..Len(str)  BY <1>1, <1>5, <1>8
    <3> QED  BY <1>3, <1>8, <2>1, <3>1, <3>2
  <2>2. CASE r # NPos
    <3>1. r \in 0..(Len(str) - p - 1) /\ str[p + r + 1] = "]"  BY <1>3, <2>2
    <3>2. ~(e <= Len(str)) => p + r + 1 \in q..(e - 1)  BY <1>1, <1>4, <1>5, <1>8, <3>1
    <3> QED  BY <1>8, <2>2, <3>1, <3>2
  <2> QED  BY <2>1, <2>2
<1> QED  BY <1>5, <1>6, <1>7, <1>9 DEF l, r, e, Close

LEMMA AtRight ==
  ASSUME TextOK, NEW p \in 0..Len(str), Find({"]"}, p) < Find({"["}, p)
  PROVE  /\ Find({"]"}, p) \in 0..(Len(str) - p - 1)
         /\ str[p + Find({"]"}, p) + 1] = "]"
         /\ Plain(str, p, Find({"]"}, p))
         /\ \A i \in (p + 1)..(p + Find({"]"}, p) + 1) : str[i] # "["
<1> DEFINE l == Find({"["}, p)
           r == Find({"]"}, p)
<1>1. Len(str) \in Nat /\ p \in Nat /\ NPos \in Nat /\ Len(str) < NPos /\ p <= Len(str)
  BY DEF TextOK
<1>2. \/ l = NPos /\ \A i \in (p + 1)..Len(str) : str[i] \notin {"["}
      \/ /\ l \in 0..(Len(str) - p - 1) /\ str[p + l + 1] \in {"["}
         /\ \A i \in (p + 1)..(p + l) : str[i] \notin {"["}
  BY FindFacts
<1>3. \/ r = NPos
      \/ /\ r \in 0..(Len(str) - p - 1) /\ str[p + r + 1] \in {"]"}
         /\ \A i \in (p + 1)..(p + r) : str[i] \notin {"]"}
  BY FindFacts
<1>4. r < l  OBVIOUS
<1> HIDE DEF l, r
<1>5. /\ r \in 0..(Len(str) - p - 1) /\ str[p + r + 1] = "]"
      /\ \A i \in (p + 1)..(p + r) : str[i] \notin {"]"}
  BY <1>1, <1>2, <1>3, <1>4
<1>6. \A i \in (p + 1)..(p + r + 1) : str[i] # "["
  <2> TAKE i \in (p + 1)..(p + r + 1)
  <2>1. CASE l = NPos
    <3>1. i \in (p + 1)..Len(str)  BY <1>1, <1>5
    <3>2. ~(l \in 0..(Len(str) - p - 1))  BY <1>1, <2>1
    <3> QED  BY <1>2, <3>1, <3>2
  <2>2. CASE l # NPos
    <3>1. i \in (p + 1)..(p + l)  BY <1>1, <1>2, <1>4, <1>5, <2>2
    <3> QED  BY <1>2, <2>2, <3>1
  <2> QED  BY <2>1, <2>2
<1>7. Plain(str, p, r)
  <2>1. \A i \in (p + 1)..(p + r) : i \in (p + 1)..(p + r + 1)  BY <1>1, <1>5
  <2> QED  BY <1>5, <1>6, <2>1 DEF Plain
<1> QED  BY <1>5, <1>6, <1>7 DEF l, r

-----------------------------------------------------------------------------
(* The inductive invariant                                                 *)

\* Inside the field at f.  If it is closed, the specifiers up to one of them
\* are in spec, and pos is at the end of that one; if it is not, pos never
\* comes back to before the "[".
InField(f) ==
  /\ Opens(str, f) /\ Wrote(str, mode, out, f)
  /\ \/ /\ Close(str, f) <= Len(str)
        /\ pos = f /\ spec = NoSpec
     \/ /\ Close(str, f) <= Len(str)
        /\ \E a \in DOMAIN FieldAt(str, f) :
             /\ pos = After(str, a) - 1
             /\ Collected(spec, FieldAt(str, f), UpTo(FieldAt(str, f), a))
     \/ /\ ~(Close(str, f) <= Len(str))
        /\ pos \in (f - 1)..Len(str) /\ spec \in Specs

ColInv ==
  /\ TextOK /\ phase \in {"scan", "parse", "done", "thrown"}
  /\ phase = "scan" => /\ pos \in 0..Len(str)
                       /\ left = Find({"["}, pos) /\ right = Find({"]"}, pos)
                       /\ Wrote(str, mode, out, pos + 1)
  /\ phase = "parse" => \E f \in 1..Len(str) : InField(f)
  /\ phase = "done" => Wrote(str, mode, out, Len(str) + 1)
  /\ phase = "thrown" => /\ Refused(str, mode, 1)
                         /\ \E p \in 1..(Len(str) + 1) : Wrote(str, mode, out, p)

LEMMA ColInitInv ==
  ColInit => ColInv
<1> SUFFICES ASSUME ColInit PROVE ColInv  OBVIOUS
<1>1. TextOK  BY TextFits DEF TextFits, ColInit, TextOK
<1>2. Wrote(str, mode, <<>>, 1)  BY <1>1, WroteNothing DEF TextOK
<1>3. 0 \in 0..Len(str) /\ 0 + 1 = 1  BY <1>1 DEF TextOK
<1> QED  BY <1>1, <1>2, <1>3 DEF ColInit, ColInv

\* What OnChars writes.
LEMMA CharsWritten ==
  ASSUME NEW last, OnChars(last)
  PROVE  Writes(mode, out, out', Run(str, pos, last - pos))
BY DEF OnChars, Writes, Joins, Run, Word

LEMMA SameFind ==
  ASSUME str' = str
  PROVE  Find({"["}, pos)' = Find({"["}, pos') /\ Find({"]"}, pos)' = Find({"]"}, pos')
BY DEF Find

LEMMA ScanRestInv ==
  ASSUME ColInv, ScanRest
  PROVE  ColInv'
<1>1. /\ TextOK /\ pos \in 0..Len(str) /\ Wrote(str, mode, out, pos + 1)
      /\ Find({"["}, pos) = Find({"]"}, pos)
  BY DEF ColInv, ScanRest
<1>2. Plain(str, pos, Len(str) - pos)  BY <1>1, AtNone
<1>3. Writes(mode, out, out', Run(str, pos, Len(str) - pos))  BY CharsWritten DEF ScanRest
<1>4. /\ str \in Seq(STRING) /\ Len(str) - pos \in 0..(Len(str) - pos)
      /\ pos + (Len(str) - pos) + 1 = Len(str) + 1
  BY <1>1 DEF TextOK
<1>5. Wrote(str, mode, out', Len(str) + 1)
  <2> DEFINE n == Len(str) - pos
  <2>1. n \in 0..(Len(str) - pos) /\ Plain(str, pos, n) /\ Writes(mode, out, out', Run(str, pos, n))
    BY <1>2, <1>3, <1>4
  <2>2. pos + n + 1 = Len(str) + 1  BY <1>4
  <2> HIDE DEF n
  <2>3. Wrote(str, mode, out', pos + n + 1)  BY <1>1, <1>4, <2>1, WroteText
  <2> QED  BY <2>2, <2>3
<1>6. TextOK'  BY <1>1 DEF TextOK, ScanRest
<1> QED  BY <1>5, <1>6 DEF ColInv, ScanRest

LEMMA ScanEndInv ==
  ASSUME ColInv, ScanEnd
  PROVE  ColInv'
<1>1. /\ TextOK /\ pos \in 0..Len(str) /\ Wrote(str, mode, out, pos + 1)  BY DEF ColInv, ScanEnd
<1>2. pos = Len(str)  BY <1>1 DEF ScanEnd, Remaining, TextOK
<1>3. TextOK'  BY <1>1 DEF TextOK, ScanEnd
<1> QED  BY <1>1, <1>2, <1>3 DEF ColInv, ScanEnd

\* A scan that stops at a place that is wrong.
LEMMA ThrowInv ==
  ASSUME TextOK, Throw, NEW q \in 1..Len(str), NEW p \in 1..(Len(str) + 1),
         Wrote(str, mode, out, p), Refused(str, mode, p) = Refused(str, mode, q), Width(str, q) = 0
  PROVE  ColInv'
<1>1. Refused(str, mode, q)  BY WrongPlace DEF TextOK
<1>2. Refused(str, mode, 1)  BY <1>1, Zenon DEF Wrote
<1>3. TextOK'  BY DEF TextOK, Throw
<1> QED  BY <1>2, <1>3 DEF Throw, ColInv

LEMMA ScanUnmatchedLeftInv ==
  ASSUME ColInv, ScanUnmatchedLeft
  PROVE  ColInv'
<1> DEFINE q == pos + left + 1
<1>1. /\ TextOK /\ pos \in 0..Len(str) /\ Wrote(str, mode, out, pos + 1)
      /\ left = Find({"["}, pos) /\ right = Find({"]"}, pos) /\ left < right
  BY DEF ColInv, ScanUnmatchedLeft
<1>2. /\ left \in 0..(Len(str) - pos - 1) /\ str[q] = "[" /\ Plain(str, pos, left)
      /\ right = NPos <=> ~(Close(str, q) <= Len(str))
  BY <1>1, AtLeft
<1>3. str \in Seq(STRING) /\ Len(str) \in Nat /\ NPos \in Nat /\ Len(str) < NPos  BY <1>1 DEF TextOK
<1>4. /\ q \in 1..Len(str) /\ pos + 1 \in 1..(Len(str) + 1)
      /\ left + 1 < Remaining(pos) <=> q < Len(str)
      /\ pos + (left + 1) + 1 = q + 1 /\ left \in 0..(Len(str) - pos)
  <2>1. pos \in Nat /\ left \in 0..(Len(str) - pos - 1) /\ Len(str) \in Nat  BY <1>1, <1>2, <1>3
  <2> QED  BY <2>1 DEF Remaining
<1>5. Refused(str, mode, pos + 1) = Refused(str, mode, q)  BY <1>1, <1>2, <1>3, <1>4, PlainRun
<1>6. q < Len(str) => right = NPos /\ str[q + 1] = "["
  BY <1>4 DEF ScanUnmatchedLeft, UnmatchedLeft, At
<1>7. Close(str, q) \in q..(Len(str) + 1)
  <2>1. q \in 1..(Len(str) + 1)  BY <1>3, <1>4
  <2> HIDE DEF q
  <2> QED  BY <1>3, <2>1, FirstPlace DEF Close
<1> HIDE DEF q
<1>8. Width(str, q) = 0
  <2>1. CASE q < Len(str)
    <3>1. Close(str, q) > Len(str) /\ Doubled(str, q)  BY <1>2, <1>3, <1>4, <1>6, <1>7, <2>1 DEF Doubled
    <3> QED  BY <1>2, <3>1 DEF Width
  <2>2. CASE ~(q < Len(str))
    <3>1. ~Doubled(str, q) /\ Close(str, q) \notin (q + 2)..Len(str)
      BY <1>3, <1>4, <1>7, <2>2 DEF Doubled
    <3> QED  BY <1>2, <3>1 DEF Width
  <2> QED  BY <2>1, <2>2
<1> QED  BY <1>1, <1>4, <1>5, <1>8, ThrowInv DEF ScanUnmatchedLeft

LEMMA ScanLeftEscapeInv ==
  ASSUME ColInv, ScanLeftEscape
  PROVE  ColInv'
<1> DEFINE q == pos + left + 1
<1>1. /\ TextOK /\ pos \in 0..Len(str) /\ Wrote(str, mode, out, pos + 1)
      /\ left = Find({"["}, pos) /\ right = Find({"]"}, pos) /\ left < right
  BY DEF ColInv, ScanLeftEscape
<1>2. /\ left \in 0..(Len(str) - pos - 1) /\ str[q] = "[" /\ Plain(str, pos, left)
      /\ right = NPos <=> ~(Close(str, q) <= Len(str))
      /\ \A i \in (pos + 1)..(pos + left + 1) : str[i] # "]"
  BY <1>1, AtLeft
<1>3. str \in Seq(STRING) /\ Len(str) \in Nat /\ NPos \in Nat /\ Len(str) < NPos  BY <1>1 DEF TextOK
<1>4. /\ q \in 1..Len(str)
      /\ left + 1 < Remaining(pos) <=> q < Len(str)
      /\ pos + (left + 1) + 1 = q + 1
  <2>1. pos \in Nat /\ left \in 0..(Len(str) - pos - 1) /\ Len(str) \in Nat  BY <1>1, <1>2, <1>3
  <2> QED  BY <2>1 DEF Remaining
<1>5. q < Len(str) /\ str[q + 1] = "[" /\ right # NPos
  BY <1>4 DEF ScanLeftEscape, UnmatchedLeft, At
<1>6. Doubled(str, q) /\ Close(str, q) <= Len(str)  BY <1>2, <1>5 DEF Doubled
<1>7. Writes(mode, out, out', Run(str, pos, left + 1))
  <2>1. (pos + left + 1) - pos = left + 1  BY <1>1, <1>2, <1>3
  <2>2. Writes(mode, out, out', Run(str, pos, (pos + left + 1) - pos))
    BY CharsWritten DEF ScanLeftEscape
  <2> QED  BY <2>1, <2>2
<1>8. pos + left + 3 \in 1..(Len(str) + 1) /\ Wrote(str, mode, out', pos + left + 3)
  BY <1>1, <1>2, <1>3, <1>6, <1>7, WroteEscape
<1>9. /\ pos' = pos + left + 2 /\ pos' = pos + (left + 2)
      /\ pos' + 1 = pos + left + 3 /\ pos' \in 0..Len(str)
      /\ left + 2 \in 0..(Len(str) - pos)
  <2>1. pos' = pos + left + 2  BY DEF ScanLeftEscape
  <2>2. q < Len(str) /\ left \in Nat /\ pos \in Nat  BY <1>1, <1>2, <1>3, <1>5
  <2>3. pos + left + 2 \in 0..Len(str) /\ left + 2 \in 0..(Len(str) - pos)  BY <1>3, <2>2
  <2> QED  BY <2>1, <2>2, <2>3
<1>10. Find({"]"}, pos + (left + 2)) = right - (left + 2)
  <2> DEFINE d == left + 2
  <2>1. \A i \in (pos + 1)..(pos + d) : str[i] \notin {"]"}
    <3> TAKE i \in (pos + 1)..(pos + d)
    <3>1. i \in (pos + 1)..(pos + left + 1) \/ i = q + 1
      <4>1. pos \in Nat /\ left \in Nat  BY <1>1, <1>2, <1>3
      <4> QED  BY <4>1
    <3> QED  BY <1>2, <1>5, <3>1
  <2>2. d \in 0..(Len(str) - pos)  BY <1>9
  <2> HIDE DEF d
  <2>3. Find({"]"}, pos + d) = right - d  BY <1>1, <1>5, <2>1, <2>2, FindLater
  <2> QED  BY <2>3 DEF d
<1>11. str' = str /\ phase' = "scan" /\ mode' = mode /\ left' = Find({"["}, pos')
         /\ right' = Find({"]"}, pos')
  BY <1>5, <1>9, <1>10 DEF ScanLeftEscape
<1>12. left' = Find({"["}, pos)' /\ right' = Find({"]"}, pos)'  BY <1>11, SameFind
<1>13. TextOK'  BY <1>1, <1>11 DEF TextOK
<1> QED  BY <1>8, <1>9, <1>11, <1>12, <1>13 DEF ColInv

LEMMA ScanFieldInv ==
  ASSUME ColInv, ScanField
  PROVE  ColInv'
<1> DEFINE q == pos + left + 1
<1>1. /\ TextOK /\ pos \in 0..Len(str) /\ Wrote(str, mode, out, pos + 1)
      /\ left = Find({"["}, pos) /\ right = Find({"]"}, pos) /\ left < right
  BY DEF ColInv, ScanField
<1>2. /\ left \in 0..(Len(str) - pos - 1) /\ str[q] = "[" /\ Plain(str, pos, left)
  BY <1>1, AtLeft
<1>3. str \in Seq(STRING) /\ Len(str) \in Nat  BY <1>1 DEF TextOK
<1>4. /\ q \in 1..Len(str) /\ left \in 0..(Len(str) - pos)
      /\ left + 1 < Remaining(pos) <=> q < Len(str)
      /\ pos + (left + 1) + 1 = q + 1 /\ pos + left - pos = left
  BY <1>1, <1>2, <1>3 DEF Remaining
<1>5. q < Len(str) /\ str[q + 1] # "["
  BY <1>4 DEF ScanField, UnmatchedLeft, At
<1>6. Writes(mode, out, out', Run(str, pos, left))
  <2> DEFINE last == pos + left
  <2>1. last - pos = left  BY <1>1, <1>2, <1>3
  <2>2. OnChars(last)  BY Zenon DEF ScanField
  <2> HIDE DEF last
  <2>3. Writes(mode, out, out', Run(str, pos, last - pos))  BY <2>2, CharsWritten
  <2> QED  BY <2>1, <2>3
<1>7. Wrote(str, mode, out', q)  BY <1>1, <1>2, <1>3, <1>4, <1>6, WroteText
<1>8. /\ str' = str /\ mode' = mode /\ pos' = q /\ spec' = NoSpec
      /\ phase' = IF str[q + 1] = "]" THEN "thrown" ELSE "parse"
  BY <1>4 DEF ScanField, At
<1>9. TextOK'  BY <1>1, <1>8 DEF TextOK
<1>10. Close(str, q) \in q..(Len(str) + 1) /\ (str[q + 1] = "]" => Close(str, q) = q + 1)
  <2>1. /\ q \in 1..(Len(str) + 1) /\ q + 1 \in q..(Len(str) + 1)
        /\ \A i \in q..(q + 1 - 1) : i = q
    BY <1>3, <1>4, <1>5
  <2>2. str[q] \notin {"]"}  BY <1>2
  <2> HIDE DEF q
  <2>3. str[q + 1] = "]" => FirstFrom(str, {"]"}, q) = q + 1
    BY <1>3, <2>1, <2>2, FirstPlaceIs
  <2> QED  BY <1>3, <2>1, <2>3, FirstPlace DEF Close
<1> HIDE DEF q
<1>11. CASE str[q + 1] = "]"
  <2>1. Width(str, q) = 0
    <3>1. ~Doubled(str, q) /\ Close(str, q) \notin (q + 2)..Len(str)
      BY <1>2, <1>4, <1>10, <1>11 DEF Doubled
    <3> QED  BY <1>2, <3>1 DEF Width
  <2>2. Refused(str, mode, q)  BY <1>3, <1>4, <2>1, WrongPlace
  <2>3. Refused(str, mode, 1)  BY <1>7, <2>2, Zenon DEF Wrote
  <2>4. q \in 1..(Len(str) + 1)  BY <1>3, <1>4
  <2> QED  BY <1>7, <1>8, <1>9, <1>11, <2>3, <2>4 DEF ColInv
<1>12. CASE str[q + 1] # "]"
  <2>1. Opens(str, q)  BY <1>2, <1>3, <1>4, <1>5, <1>12 DEF Opens
  <2>2. NoSpec \in Specs  BY EmphasesAre DEF NoSpec, Specs, ColorNames
  <2>3. PICK f \in 1..Len(str) : f = q  BY <1>4
  <2>4. f \in (f - 1)..Len(str)  OBVIOUS
  <2>5. Opens(str', f) /\ Wrote(str', mode', out', f) /\ pos' = f /\ spec' = NoSpec
          /\ pos' \in (f - 1)..Len(str') /\ spec' \in Specs
    BY <1>7, <1>8, <2>1, <2>2, <2>3, <2>4
  <2>6. InField(f)'  BY <2>5 DEF InField
  <2>7. f \in 1..Len(str')  BY <1>8
  <2> QED  BY <1>8, <1>9, <1>12, <2>6, <2>7 DEF ColInv
<1> QED  BY <1>11, <1>12

LEMMA ScanUnmatchedRightInv ==
  ASSUME ColInv, ScanUnmatchedRight
  PROVE  ColInv'
<1> DEFINE q == pos + right + 1
<1>1. /\ TextOK /\ pos \in 0..Len(str) /\ Wrote(str, mode, out, pos + 1)
      /\ left = Find({"["}, pos) /\ right = Find({"]"}, pos) /\ right < left
  BY DEF ColInv, ScanUnmatchedRight
<1>2. right \in 0..(Len(str) - pos - 1) /\ str[q] = "]" /\ Plain(str, pos, right)
  BY <1>1, AtRight
<1>3. str \in Seq(STRING) /\ Len(str) \in Nat  BY <1>1 DEF TextOK
<1>4. /\ q \in 1..Len(str) /\ pos + 1 \in 1..(Len(str) + 1)
      /\ right + 1 < Remaining(pos) <=> q < Len(str)
      /\ pos + (right + 1) + 1 = q + 1 /\ right \in 0..(Len(str) - pos)
  <2>1. pos \in Nat /\ right \in 0..(Len(str) - pos - 1) /\ Len(str) \in Nat  BY <1>1, <1>2, <1>3
  <2> QED  BY <2>1 DEF Remaining
<1>5. Refused(str, mode, pos + 1) = Refused(str, mode, q)  BY <1>1, <1>2, <1>3, <1>4, PlainRun
<1>6. q < Len(str) => str[q + 1] # "]"
  BY <1>4 DEF ScanUnmatchedRight, UnmatchedRight, At
<1> HIDE DEF q
<1>7. Width(str, q) = 0
  <2>1. ~Doubled(str, q)  BY <1>2, <1>6 DEF Doubled
  <2> QED  BY <1>2, <2>1 DEF Width
<1> QED  BY <1>1, <1>4, <1>5, <1>7, ThrowInv DEF ScanUnmatchedRight

LEMMA ScanRightEscapeInv ==
  ASSUME ColInv, ScanRightEscape
  PROVE  ColInv'
<1> DEFINE q == pos + right + 1
<1>1. /\ TextOK /\ pos \in 0..Len(str) /\ Wrote(str, mode, out, pos + 1)
      /\ left = Find({"["}, pos) /\ right = Find({"]"}, pos) /\ right < left
  BY DEF ColInv, ScanRightEscape
<1>2. /\ right \in 0..(Len(str) - pos - 1) /\ str[q] = "]" /\ Plain(str, pos, right)
      /\ \A i \in (pos + 1)..(pos + right + 1) : str[i] # "["
  BY <1>1, AtRight
<1>3. str \in Seq(STRING) /\ Len(str) \in Nat /\ NPos \in Nat /\ Len(str) < NPos  BY <1>1 DEF TextOK
<1>4. /\ q \in 1..Len(str)
      /\ right + 1 < Remaining(pos) <=> q < Len(str)
      /\ pos + (right + 1) + 1 = q + 1
  <2>1. pos \in Nat /\ right \in 0..(Len(str) - pos - 1) /\ Len(str) \in Nat  BY <1>1, <1>2, <1>3
  <2> QED  BY <2>1 DEF Remaining
<1>5. q < Len(str) /\ str[q + 1] = "]"
  BY <1>4 DEF ScanRightEscape, UnmatchedRight, At
<1>6. Doubled(str, q)  BY <1>2, <1>5 DEF Doubled
<1>7. Writes(mode, out, out', Run(str, pos, right + 1))
  <2> DEFINE last == pos + right + 1
  <2>1. last - pos = right + 1  BY <1>1, <1>2, <1>3
  <2>2. OnChars(last)  BY Zenon DEF ScanRightEscape
  <2> HIDE DEF last
  <2>3. Writes(mode, out, out', Run(str, pos, last - pos))  BY <2>2, CharsWritten
  <2> QED  BY <2>1, <2>3
<1>8. pos + right + 3 \in 1..(Len(str) + 1) /\ Wrote(str, mode, out', pos + right + 3)
  BY <1>1, <1>2, <1>3, <1>6, <1>7, WroteEscape
<1>9. /\ pos' = pos + right + 2 /\ pos' = pos + (right + 2)
      /\ pos' + 1 = pos + right + 3 /\ pos' \in 0..Len(str)
      /\ right + 2 \in 0..(Len(str) - pos)
  <2>1. pos' = pos + right + 2  BY DEF ScanRightEscape
  <2>2. q < Len(str) /\ right \in Nat /\ pos \in Nat  BY <1>1, <1>2, <1>3, <1>5
  <2>3. pos + right + 2 \in 0..Len(str) /\ right + 2 \in 0..(Len(str) - pos)  BY <1>3, <2>2
  <2> QED  BY <2>1, <2>2, <2>3
<1>10. Find({"["}, pos + (right + 2)) = IF left # NPos THEN left - (right + 2) ELSE left
  <2> DEFINE d == right + 2
  <2>1. \A i \in (pos + 1)..(pos + d) : str[i] \notin {"["}
    <3> TAKE i \in (pos + 1)..(pos + d)
    <3>1. i \in (pos + 1)..(pos + right + 1) \/ i = q + 1
      <4>1. pos \in Nat /\ right \in Nat  BY <1>1, <1>2, <1>3
      <4> QED  BY <4>1
    <3> QED  BY <1>2, <1>5, <3>1
  <2>2. d \in 0..(Len(str) - pos)  BY <1>9
  <2> HIDE DEF d
  <2>3. Find({"["}, pos + d) = IF left = NPos THEN NPos ELSE left - d
    BY <1>1, <2>1, <2>2, FindLater
  <2> QED  BY <2>3 DEF d
<1>11. str' = str /\ phase' = "scan" /\ mode' = mode /\ left' = Find({"["}, pos')
         /\ right' = Find({"]"}, pos')
  BY <1>9, <1>10 DEF ScanRightEscape
<1>12. left' = Find({"["}, pos)' /\ right' = Find({"]"}, pos)'  BY <1>11, SameFind
<1>13. TextOK'  BY <1>1, <1>11 DEF TextOK
<1> QED  BY <1>8, <1>9, <1>11, <1>12, <1>13 DEF ColInv

-----------------------------------------------------------------------------
(* Inside a field                                                          *)

\* The text that do_parse looks at from b on, and where it goes from there.
TextAt(s, b, len) == IF len = NPos THEN SubSeq(s, b + 1, Len(s)) ELSE SubSeq(s, b + 1, b + len)

LEMMA TextRead ==
  ASSUME TextOK, NEW b \in 0..Len(str), NEW len, len = Find({"|", "]"}, b)
  PROVE  /\ TextAt(str, b, len) \in Seq(STRING)
         /\ len # NPos => b + len \in b..Len(str)
         /\ After(str, b + 1) <= Len(str) =>
              /\ len # NPos /\ b + len = After(str, b + 1) - 1
              /\ TextAt(str, b, len) = SubSeq(str, b + 1, After(str, b + 1) - 1)
         /\ b < Len(str) /\ str[b + 1] = "[" =>
              TextAt(str, b, len) # <<>> /\ Head(TextAt(str, b, len)) = "["
<1> DEFINE n == Len(str)
           e == After(str, b + 1)
           x == TextAt(str, b, len)
           to == IF len = NPos THEN n ELSE b + len
<1>1. str \in Seq(STRING) /\ n \in Nat /\ b \in Nat /\ n < NPos /\ NPos \in Nat /\ b + 1 \in 1..(n + 1)
  BY DEF TextOK
<1>2. /\ e \in (b + 1)..(n + 1) /\ (e <= n => str[e] \in {"|", "]"})
      /\ \A i \in (b + 1)..(e - 1) : str[i] \notin {"|", "]"}
  BY <1>1, FirstPlace DEF After
<1>3. len = IF e <= n THEN e - b - 1 ELSE NPos  BY FindIs DEF After
<1> HIDE DEF e, n
<1>4. e <= n => len # NPos /\ b + len = e - 1 /\ b + len \in b..n  BY <1>1, <1>2, <1>3
<1>5. to \in b..n /\ x = SubSeq(str, b + 1, to)  BY <1>1, <1>3, <1>4 DEF TextAt, n
<1> HIDE DEF to, x
<1>6. \A i \in (b + 1)..to : str[i] \in STRING
  <2>1. \A i \in (b + 1)..to : i \in 1..n  BY <1>1, <1>5
  <2> QED  BY <1>1, <2>1 DEF n
<1>7. /\ x \in Seq(STRING) /\ Len(x) = IF b + 1 <= to THEN to - (b + 1) + 1 ELSE 0
      /\ \A i \in 1..(to - (b + 1) + 1) : x[i] = str[b + 1 + i - 1]
  <2>1. b + 1 \in Int /\ to \in Int  BY <1>1, <1>5
  <2> QED  BY <1>5, <1>6, <2>1, SubSeqProperties
<1>8. ASSUME b < n, str[b + 1] = "[" PROVE x # <<>> /\ Head(x) = "["
  <2>1. to >= b + 1
    <3>1. CASE e <= n
      <4>1. e # b + 1  BY <1>2, <1>8, <3>1
      <4> QED  BY <1>1, <1>2, <1>4, <3>1, <4>1 DEF to
    <3>2. CASE ~(e <= n)  BY <1>1, <1>3, <1>8, <3>2 DEF to
    <3> QED  BY <3>1, <3>2
  <2>2. 1 \in 1..(to - (b + 1) + 1) /\ b + 1 + 1 - 1 = b + 1  BY <1>1, <1>5, <2>1
  <2>3. x[1] = str[b + 1] /\ Len(x) >= 1  BY <1>1, <1>5, <1>7, <2>1, <2>2
  <2>4. x # <<>>
    <3>1. Len(<<>>) = 0 /\ ~(0 >= 1)  OBVIOUS
    <3> QED  BY <2>3, <3>1
  <2> QED  BY <1>7, <1>8, <2>3, <2>4
<1>9. e <= n => x = SubSeq(str, b + 1, e - 1)  BY <1>3, <1>4, <1>5 DEF to
<1>10. len # NPos => b + len \in b..n  BY <1>3, <1>4
<1> QED  BY <1>4, <1>7, <1>8, <1>9, <1>10 DEF e, n, x

LEMMA SpecsKept ==
  ASSUME NEW r \in Specs, NEW s \in Seq(STRING)
  PROVE  /\ ApplySpecifier(r, s) \in Specs
         /\ s # <<>> /\ Head(s) = "[" => ApplySpecifier(r, s).bad = TRUE
<1> DEFINE q == ApplySpecifier(r, s)
<1>1. PICK k \in FieldNames : Names(s, k) /\ Does(r, s, k)  BY SpecifierRead
<1>2. q = [r EXCEPT !["bad"] = TRUE] \/ (k # "bad" /\ q = [r EXCEPT ![k] = Value(r, s, k)])
  BY <1>1 DEF Does, SetColor, Bad, Value, FieldNames
<1>3. CASE q = [r EXCEPT !["bad"] = TRUE]
  <2>1. Puts(q, r, "bad", TRUE)  BY <1>3 DEF Puts
  <2> HIDE DEF q
  <2>2. IsPut(q, r, "bad", TRUE)  BY <2>1, Updated
  <2>3. q \in Specs /\ q.bad = TRUE  BY <2>2 DEF IsPut
  <2> QED  BY <2>3 DEF q
<1>4. CASE k # "bad" /\ q = [r EXCEPT ![k] = Value(r, s, k)]
  <2> DEFINE v == Value(r, s, k)
  <2>1. Puts(q, r, k, v)  BY <1>4 DEF Puts
  <2>2. k \in {"fg", "bg", "emphasis", "reset", "fgReset", "bgReset", "bad"}  BY DEF FieldNames
  <2>3. /\ k \in {"fg", "bg"} => v \in ColorNames
        /\ k = "emphasis" => v \in SUBSET Range(Emphases)
        /\ k \in {"reset", "fgReset", "bgReset"} => v = TRUE
    BY <1>1 DEF Names, Value, Specs
  <2>4. ~(s # <<>> /\ Head(s) = "[")
    <3>1. Valid(s)  BY <1>1, <1>4 DEF Names
    <3> QED  BY <3>1, EmphasesAre DEF Valid, IsColor, Sides
  <2> HIDE DEF q, v
  <2>5. IsPut(q, r, k, v)  BY <2>1, <2>2, Updated
  <2>6. q \in Specs  BY <1>4, <2>2, <2>3, <2>5 DEF IsPut
  <2> QED  BY <2>4, <2>6 DEF q
<1> QED  BY <1>2, <1>3, <1>4

\* A field that is not closed or not accepted is wrong.
LEMMA WrongField ==
  ASSUME TextOK, NEW f, Opens(str, f),
         ~(Close(str, f) <= Len(str)) \/ ~Accepts(FieldAt(str, f)), Wrote(str, mode, out, f)
  PROVE  f \in 1..Len(str) /\ Width(str, f) = 0 /\ Refused(str, mode, 1)
<1>1. /\ f \in 1..Len(str) /\ str[f] = "[" /\ ~Doubled(str, f) /\ str \in Seq(STRING)
      /\ Close(str, f) \in (f + 2)..Len(str) => Close(str, f) <= Len(str)
  BY DEF TextOK, Opens, Doubled
<1>2. Width(str, f) = 0  BY <1>1 DEF Width
<1>3. Refused(str, mode, f)  BY <1>1, <1>2, WrongPlace
<1>4. Refused(str, mode, 1)  BY <1>3, Zenon DEF Wrote
<1> QED  BY <1>1, <1>2, <1>4

\* One turn of the loop, with the places that it uses.
Turn(b, len) ==
  /\ b = IF At(0) = "|" THEN pos + 1 ELSE pos
  /\ len = Find({"|", "]"}, b)
  /\ spec' = ApplySpecifier(spec, TextAt(str, b, len))
  /\ phase' = IF spec'.bad THEN "thrown" ELSE "parse"
  /\ pos' = IF spec'.bad THEN b ELSE IF len = NPos THEN b - 1 ELSE b + len
  /\ str' = str /\ mode' = mode /\ out' = out

LEMMA ThrownInField ==
  ASSUME ColInv, NEW f, Opens(str, f), Wrote(str, mode, out, f),
         ~(Close(str, f) <= Len(str)) \/ ~Accepts(FieldAt(str, f)),
         phase' = "thrown", str' = str, mode' = mode, out' = out
  PROVE  ColInv'
<1>1. TextOK  BY DEF ColInv
<1>2. f \in 1..Len(str) /\ Refused(str, mode, 1)  BY <1>1, WrongField
<1>3. f \in 1..(Len(str) + 1)  BY <1>1, <1>2 DEF TextOK
<1>4. TextOK'  BY <1>1 DEF TextOK
<1> QED  BY <1>2, <1>3, <1>4 DEF ColInv

\* The specifier that begins at a is the next one of a closed field.
LEMMA ClosedTurn ==
  ASSUME ColInv, NEW f, Opens(str, f), Wrote(str, mode, out, f), Close(str, f) <= Len(str),
         NEW P, NEW a \in DOMAIN FieldAt(str, f), P \subseteq DOMAIN FieldAt(str, f), a \notin P,
         UpTo(FieldAt(str, f), a) = P \union {a}, Collected(spec, FieldAt(str, f), P),
         NEW b \in 0..Len(str), b + 1 = a, NEW len, Turn(b, len)
  PROVE  ColInv'
<1> DEFINE L == FieldAt(str, f)
<1>1. TextOK /\ str \in Seq(STRING)  BY DEF ColInv, TextOK
<1>2. /\ Close(str, f) \in (f + 2)..Len(str) /\ After(str, a) \in a..Close(str, f)
      /\ L[a] = SubSeq(str, a, After(str, a) - 1) /\ L[a] \in Seq(STRING)
  BY <1>1, FieldShape
<1>3. f \in 1..Len(str) /\ Len(str) \in Nat  BY <1>1 DEF Opens
<1>4. After(str, b + 1) <= Len(str) /\ b \in Nat /\ After(str, a) \in Nat  BY <1>2, <1>3
<1>5. /\ len # NPos /\ b + len = After(str, a) - 1 /\ b + len \in b..Len(str)
      /\ TextAt(str, b, len) = L[a]
  BY <1>1, <1>2, <1>4, TextRead DEF Turn
<1>6. spec' = ApplySpecifier(spec, L[a])  BY <1>5 DEF Turn
<1>7. \/ spec'.bad = TRUE /\ ~Accepts(L)
      \/ spec'.bad = FALSE /\ Collected(spec', L, UpTo(L, a))
  <2>1. \/ ApplySpecifier(spec, L[a]).bad = TRUE /\ ~Accepts(L)
        \/ ApplySpecifier(spec, L[a]).bad = FALSE
             /\ Collected(ApplySpecifier(spec, L[a]), L, P \union {a})
    <3>1. a \in DOMAIN L /\ P \subseteq DOMAIN L /\ L[a] \in Seq(STRING) /\ Collected(spec, L, P)
      BY <1>2
    <3> HIDE DEF L
    <3> QED  BY <3>1, OneMoreCollected
  <2>2. UpTo(L, a) = P \union {a}  OBVIOUS
  <2> HIDE DEF L
  <2> QED  BY <1>6, <2>1, <2>2, Zenon
<1>8. CASE spec'.bad = TRUE /\ ~Accepts(L)
  <2>1. phase' = "thrown" /\ str' = str /\ mode' = mode /\ out' = out  BY <1>8 DEF Turn
  <2> QED  BY <1>8, <2>1, ThrownInField
<1>9. CASE spec'.bad = FALSE /\ Collected(spec', L, UpTo(L, a))
  <2>1. phase' = "parse" /\ pos' = b + len /\ str' = str /\ mode' = mode /\ out' = out
    BY <1>5, <1>9 DEF Turn
  <2>2. pos' = After(str, a) - 1  BY <1>5, <2>1
  <2>3. InField(f)'
    <3>1. /\ Opens(str', f) /\ Wrote(str', mode', out', f) /\ Close(str', f) <= Len(str')
          /\ a \in DOMAIN FieldAt(str', f) /\ pos' = After(str', a) - 1
          /\ Collected(spec', FieldAt(str', f), UpTo(FieldAt(str', f), a))
      BY <1>9, <2>1, <2>2
    <3> QED  BY <3>1 DEF InField
  <2>4. TextOK' /\ f \in 1..Len(str')  BY <1>1, <1>3, <2>1 DEF TextOK
  <2> QED  BY <2>1, <2>3, <2>4 DEF ColInv
<1> QED  BY <1>7, <1>8, <1>9

LEMMA UnclosedTurn ==
  ASSUME ColInv, NEW f, Opens(str, f), Wrote(str, mode, out, f), ~(Close(str, f) <= Len(str)),
         pos \in (f - 1)..Len(str), spec \in Specs, ~AtFieldEnd, NEW b, NEW len, Turn(b, len)
  PROVE  ColInv'
<1>1. TextOK /\ str \in Seq(STRING) /\ Len(str) \in Nat /\ f \in 1..(Len(str) - 1) /\ str[f] = "["
  BY DEF ColInv, TextOK, Opens
<1>2. pos + 0 + 1 = pos + 1 /\ pos < Len(str) /\ At(0) = str[pos + 1]
  BY <1>1 DEF AtFieldEnd, Remaining, At
<1>3. b \in 0..Len(str) /\ b >= f - 1 /\ len = Find({"|", "]"}, b)
      /\ (b = f - 1 => b < Len(str) /\ str[b + 1] = "[")
  <2>1. CASE At(0) = "|"
    <3>1. b = pos + 1  BY <2>1 DEF Turn
    <3> QED  BY <1>1, <1>2, <3>1 DEF Turn
  <2>2. CASE At(0) # "|"
    <3>1. b = pos  BY <2>2 DEF Turn
    <3>2. b = f - 1 => b + 1 = f  BY <1>1
    <3> QED  BY <1>1, <1>2, <3>1, <3>2 DEF Turn
  <2> QED  BY <2>1, <2>2
<1> DEFINE x == TextAt(str, b, len)
<1>4. /\ x \in Seq(STRING) /\ (len # NPos => b + len \in b..Len(str))
      /\ (b = f - 1 => x # <<>> /\ Head(x) = "[")
  BY <1>1, <1>3, TextRead
<1>5. spec' = ApplySpecifier(spec, x)  BY DEF Turn
<1> HIDE DEF x
<1>6. spec' \in Specs /\ (b = f - 1 => spec'.bad = TRUE)  BY <1>4, <1>5, SpecsKept
<1>7. spec'.bad = TRUE \/ spec'.bad = FALSE  BY <1>6 DEF Specs
<1>8. CASE spec'.bad = TRUE
  <2>1. phase' = "thrown" /\ str' = str /\ mode' = mode /\ out' = out  BY <1>8 DEF Turn
  <2> QED  BY <2>1, ThrownInField
<1>9. CASE spec'.bad = FALSE
  <2>1. /\ phase' = "parse" /\ str' = str /\ mode' = mode /\ out' = out
        /\ pos' = IF len = NPos THEN b - 1 ELSE b + len
    BY <1>9 DEF Turn
  <2>2. b # f - 1  BY <1>6, <1>9, Zenon
  <2>3. pos' \in (f - 1)..Len(str)
    <3>1. CASE len = NPos
      <4>1. pos' = b - 1  BY <2>1, <3>1
      <4> QED  BY <1>1, <1>3, <2>2, <4>1
    <3>2. CASE len # NPos
      <4>1. pos' = b + len  BY <2>1, <3>2
      <4>2. pos' \in b..Len(str)  BY <1>4, <3>2, <4>1
      <4> QED  BY <1>1, <1>3, <4>2
    <3> QED  BY <3>1, <3>2
  <2>4. InField(f)'
    <3>1. /\ Opens(str', f) /\ Wrote(str', mode', out', f) /\ ~(Close(str', f) <= Len(str'))
          /\ pos' \in (f - 1)..Len(str') /\ spec' \in Specs
      BY <1>6, <2>1, <2>3
    <3> QED  BY <3>1 DEF InField
  <2>5. TextOK' /\ f \in 1..Len(str')  BY <1>1, <2>1 DEF TextOK
  <2> QED  BY <2>1, <2>4, <2>5 DEF ColInv
<1> QED  BY <1>7, <1>8, <1>9

LEMMA ParseSpecifierInv ==
  ASSUME ColInv, ParseSpecifier
  PROVE  ColInv'
<1>1. TextOK /\ str \in Seq(STRING) /\ Len(str) \in Nat  BY DEF ColInv, TextOK
<1>2. PICK f \in 1..Len(str) : InField(f)  BY DEF ColInv, ParseSpecifier
<1>3. Opens(str, f) /\ Wrote(str, mode, out, f)  BY <1>2 DEF InField
<1>4. ~AtFieldEnd  BY DEF ParseSpecifier
<1>5. PICK b : b = IF At(0) = "|" THEN pos + 1 ELSE pos  OBVIOUS
<1>6. PICK len : len = Find({"|", "]"}, b)  OBVIOUS
<1>7. Turn(b, len)
  BY <1>5, <1>6 DEF ParseSpecifier, Turn, TextAt, Rest
<1>8. CASE Close(str, f) <= Len(str) /\ pos = f /\ spec = NoSpec
  <2> DEFINE a == First(str, f)
             L == FieldAt(str, f)
  <2>1. /\ a \in DOMAIN L /\ UpTo(L, a) = {} \union {a} /\ a \in (f + 1)..Close(str, f)
        /\ Close(str, f) \in (f + 2)..Len(str)
    BY <1>1, <1>3, <1>8, FieldShape, FirstSpecifier
  <2>2. Collected(spec, L, {})  BY <1>8, NothingCollected
  <2>3. At(0) = str[f + 1]
    <3>1. pos + 0 + 1 = f + 1  BY <1>8
    <3> QED  BY <3>1 DEF At
  <2>4. b + 1 = a /\ b \in 0..Len(str)
    <3>1. b + 1 = a  BY <1>5, <1>8, <2>3 DEF First
    <3>2. b = f \/ b = f + 1  BY <1>5, <1>8
    <3> QED  BY <1>1, <2>1, <3>1, <3>2
  <2> HIDE DEF a
  <2> QED  BY <1>3, <1>7, <1>8, <2>1, <2>2, <2>4, ClosedTurn
<1>9. ASSUME Close(str, f) <= Len(str), NEW c \in DOMAIN FieldAt(str, f), pos = After(str, c) - 1,
             Collected(spec, FieldAt(str, f), UpTo(FieldAt(str, f), c))
      PROVE  ColInv'
  <2> DEFINE L == FieldAt(str, f)
             q == After(str, c)
  <2>1. /\ q \in c..Close(str, f) /\ c \in First(str, f)..Close(str, f)
        /\ Close(str, f) \in (f + 2)..Len(str) /\ First(str, f) \in (f + 1)..Close(str, f)
        /\ str[Close(str, f)] = "]"
    BY <1>1, <1>3, <1>9, FieldShape
  <2>2. q \in 1..Len(str) /\ pos = q - 1 /\ pos + 1 = q  BY <1>1, <1>9, <2>1
  <2>3. At(0) = str[q]
    <3>1. pos + 0 + 1 = q  BY <1>9, <2>2
    <3> QED  BY <3>1 DEF At
  <2>4. q # Close(str, f)  BY <1>4, <2>1, <2>3 DEF AtFieldEnd
  <2>5. /\ str[q] = "|" /\ q + 1 \in DOMAIN L /\ q + 1 \notin UpTo(L, c)
        /\ UpTo(L, q + 1) = UpTo(L, c) \union {q + 1}
    BY <1>1, <1>3, <1>9, <2>4, NextSpecifier
  <2>6. b = q
    <3>1. At(0) = "|" /\ q = pos + 1  BY <2>2, <2>3, <2>5
    <3> QED  BY <1>5, <3>1
  <2>7. UpTo(L, c) \subseteq DOMAIN L  BY DEF UpTo
  <2>8. b \in 0..Len(str) /\ b + 1 = q + 1  BY <2>2, <2>6
  <2> HIDE DEF q
  <2> QED  BY <1>3, <1>7, <1>9, <2>5, <2>7, <2>8, ClosedTurn
<1>10. CASE ~(Close(str, f) <= Len(str)) /\ pos \in (f - 1)..Len(str) /\ spec \in Specs
  BY <1>3, <1>4, <1>7, <1>10, UnclosedTurn
<1> QED  BY <1>2, <1>8, <1>9, <1>10 DEF InField

\* The specifiers of the field at f are all read.
LEMMA ClosedEnd ==
  ASSUME ColInv, ParseEnd, NEW f, Opens(str, f), Wrote(str, mode, out, f),
         Close(str, f) <= Len(str), pos = Close(str, f) - 1,
         Collected(spec, FieldAt(str, f), DOMAIN FieldAt(str, f))
  PROVE  ColInv'
<1> DEFINE L == FieldAt(str, f)
           e == Close(str, f)
<1>1. TextOK /\ str \in Seq(STRING) /\ Len(str) \in Nat  BY DEF ColInv, TextOK
<1>2. e \in (f + 2)..Len(str)  BY <1>1, FieldShape
<1>3. f \in 1..Len(str)  BY <1>1 DEF Opens
<1>4. pos + 1 = e /\ e \in 0..Len(str) /\ Remaining(pos) # 0  BY <1>1, <1>2, <1>3 DEF Remaining
<1>5. /\ Accepts(L) <=> ~Contradictory(spec)
      /\ ~Contradictory(spec) => Escape(spec) = Sgr(L)
  BY AllCollected
<1>6. CASE Contradictory(spec)
  <2>1. Throw  BY <1>6 DEF ParseEnd
  <2> QED  BY <1>5, <1>6, <2>1, ThrownInField DEF Throw
<1>7. CASE ~Contradictory(spec)
  <2>1. /\ pos' = pos + 1 /\ phase' = "scan" /\ str' = str /\ mode' = mode
        /\ out' = IF mode = "color" THEN Append(out, Escape(spec)) ELSE out
        /\ left' = Find({"["}, pos') /\ right' = Find({"]"}, pos')
    BY <1>4, <1>7 DEF ParseEnd
  <2>2. Accepts(L) /\ out' = IF mode = "color" THEN Append(out, Sgr(L)) ELSE out
    <3>1. Escape(spec) = Sgr(L)  BY <1>5, <1>7
    <3> QED  BY <1>5, <1>7, <2>1, <3>1
  <2>3. Wrote(str, mode, out', e + 1)  BY <1>1, <2>2, WroteField
  <2>4. pos' = e  BY <1>4, <2>1
  <2> HIDE DEF e, L
  <2>5. Wrote(str', mode', out', pos' + 1) /\ pos' \in 0..Len(str')  BY <1>4, <2>1, <2>3, <2>4
  <2>6. left' = Find({"["}, pos)' /\ right' = Find({"]"}, pos)'  BY <2>1, SameFind
  <2>7. TextOK'  BY <1>1, <2>1 DEF TextOK
  <2> QED  BY <2>1, <2>5, <2>6, <2>7 DEF ColInv
<1> QED  BY <1>6, <1>7

LEMMA ParseEndInv ==
  ASSUME ColInv, ParseEnd
  PROVE  ColInv'
<1>1. TextOK /\ str \in Seq(STRING) /\ Len(str) \in Nat  BY DEF ColInv, TextOK
<1>2. PICK f \in 1..Len(str) : InField(f)  BY DEF ColInv, ParseEnd
<1>3. Opens(str, f) /\ Wrote(str, mode, out, f)  BY <1>2 DEF InField
<1>4. Remaining(pos) > 0 => At(0) = "]"  BY DEF ParseEnd, AtFieldEnd
<1>5. CASE Close(str, f) <= Len(str) /\ pos = f /\ spec = NoSpec
  <2>1. f + 1 <= Len(str) /\ str[f + 1] # "]"  BY <1>1, <1>2, <1>3 DEF Opens
  <2>2. Remaining(pos) > 0 /\ pos + 0 + 1 = f + 1  BY <1>1, <1>5, <2>1 DEF Remaining
  <2> QED  BY <1>4, <2>1, <2>2 DEF At
<1>6. ASSUME Close(str, f) <= Len(str), NEW c \in DOMAIN FieldAt(str, f), pos = After(str, c) - 1,
             Collected(spec, FieldAt(str, f), UpTo(FieldAt(str, f), c))
      PROVE  ColInv'
  <2> DEFINE q == After(str, c)
             e == Close(str, f)
  <2>1. /\ q \in c..e /\ c \in First(str, f)..e /\ e \in (f + 2)..Len(str)
        /\ First(str, f) \in (f + 1)..e
        /\ \A i \in f..(e - 1) : str[i] # "]"
    BY <1>1, <1>3, <1>6, FieldShape
  <2>2. q \in f..e /\ pos = q - 1 /\ pos + 0 + 1 = q /\ Remaining(pos) > 0
    BY <1>1, <1>6, <2>1 DEF Remaining
  <2>3. str[q] = "]"  BY <1>4, <2>2 DEF At
  <2>4. q = e
    <3>1. q # e => q \in f..(e - 1)  BY <2>1, <2>2
    <3> QED  BY <2>1, <2>3, <3>1
  <2>5. UpTo(FieldAt(str, f), c) = DOMAIN FieldAt(str, f)  BY <1>1, <1>3, <1>6, <2>4, NextSpecifier
  <2>6. Collected(spec, FieldAt(str, f), DOMAIN FieldAt(str, f))  BY <1>6, <2>5
  <2> QED  BY <1>3, <1>6, <2>4, <2>6, ClosedEnd
<1>7. CASE ~(Close(str, f) <= Len(str)) /\ pos \in (f - 1)..Len(str) /\ spec \in Specs
  <2> DEFINE e == FirstFrom(str, {"]"}, f)
  <2>1. /\ e \in f..(Len(str) + 1) /\ ~(e <= Len(str))
        /\ \A i \in f..(e - 1) : str[i] \notin {"]"}
    <3>1. f \in 1..(Len(str) + 1)  BY <1>1
    <3> QED  BY <1>1, <1>7, <3>1, FirstPlace DEF Close
  <2> HIDE DEF e
  <2>2. Remaining(pos) = 0
    <3>1. SUFFICES ASSUME Remaining(pos) # 0 PROVE FALSE  OBVIOUS
    <3>2. pos \in Nat /\ pos < Len(str) /\ pos + 0 + 1 = pos + 1  BY <1>1, <1>7, <3>1 DEF Remaining
    <3>3. str[pos + 1] = "]"  BY <1>1, <1>4, <3>2 DEF Remaining, At
    <3>4. pos + 1 \in f..(e - 1)  BY <1>1, <1>7, <2>1, <3>2
    <3> QED  BY <2>1, <3>3, <3>4
  <2>3. Throw  BY <2>2 DEF ParseEnd
  <2> QED  BY <1>3, <1>7, <2>3, ThrownInField DEF Throw
<1> QED  BY <1>2, <1>5, <1>6, <1>7 DEF InField

LEMMA ColNextInv ==
  ASSUME ColInv, [ColNext]_colVars
  PROVE  ColInv'
<1>1. CASE ScanRest  BY <1>1, ScanRestInv
<1>2. CASE ScanEnd  BY <1>2, ScanEndInv
<1>3. CASE ScanUnmatchedLeft  BY <1>3, ScanUnmatchedLeftInv
<1>4. CASE ScanLeftEscape  BY <1>4, ScanLeftEscapeInv
<1>5. CASE ScanField  BY <1>5, ScanFieldInv
<1>6. CASE ScanUnmatchedRight  BY <1>6, ScanUnmatchedRightInv
<1>7. CASE ScanRightEscape  BY <1>7, ScanRightEscapeInv
<1>8. CASE ParseSpecifier  BY <1>8, ParseSpecifierInv
<1>9. CASE ParseEnd  BY <1>9, ParseEndInv
<1>10. CASE UNCHANGED colVars
  <2>1. /\ str' = str /\ mode' = mode /\ phase' = phase /\ pos' = pos /\ left' = left
        /\ right' = right /\ spec' = spec /\ out' = out
    BY <1>10 DEF colVars
  <2>2. TextOK' = TextOK /\ Find({"["}, pos)' = Find({"["}, pos) /\ Find({"]"}, pos)' = Find({"]"}, pos)
    BY <2>1 DEF TextOK, Find
  <2>3. ASSUME NEW f, InField(f) PROVE InField(f)'
    BY <2>1, <2>3 DEF InField
  <2> QED  BY <2>1, <2>2, <2>3 DEF ColInv
<1> QED
  BY <1>1, <1>2, <1>3, <1>4, <1>5, <1>6, <1>7, <1>8, <1>9, <1>10 DEF ColNext

-----------------------------------------------------------------------------
(* The theorems                                                            *)

\* In every state of a scan, what is written stands for what was scanned, and
\* the specifiers of an open field are collected as far as they were read.
THEOREM ScanKeepsMeaning == ColSpec => []ColInv
<1>1. ColInit => ColInv  BY ColInitInv
<1>2. ColInv /\ [ColNext]_colVars => ColInv'  BY ColNextInv
<1> QED  BY <1>1, <1>2, PTL DEF ColSpec

LEMMA BeginsWith ==
  ASSUME NEW X, NEW a \in Seq(X), NEW b \in Seq(X), NEW c, Joins(c, a, b)
  PROVE  IsPrefix(a, c)
<1>1. c = a \o b  BY DEF Joins
<1>2. /\ c \in Seq(X) /\ Len(c) = Len(a) + Len(b) /\ Len(a) \in Nat /\ Len(b) \in Nat
      /\ \A i \in 1..Len(a) : c[i] = a[i]
  <2>1. /\ a \o b \in Seq(X) /\ Len(a \o b) = Len(a) + Len(b)
        /\ \A i \in 1..Len(a) : (a \o b)[i] = a[i]
    BY ConcatProperties, LenProperties
  <2> QED  BY <1>1, <2>1, LenProperties
<1>3. SubSeq(a, 1, Len(a)) = SubSeq(c, 1, Len(a))
  <2> DEFINE n == Len(a)
  <2>1. n \in Nat /\ n <= Len(c)  BY <1>2
  <2>2. SubSeq(a, 1, n) = [i \in 1..n |-> a[i]] /\ SubSeq(c, 1, n) = [i \in 1..n |-> c[i]]
    BY <1>2, <2>1, SMT
  <2>3. [i \in 1..n |-> a[i]] = [i \in 1..n |-> c[i]]  BY <1>2
  <2> QED  BY <2>2, <2>3
<1> QED  BY <1>2, <1>3 DEF IsPrefix

LEMMA InvExact == ColInv => OutputExact
<1> SUFFICES ASSUME ColInv PROVE OutputExact  OBVIOUS
<1> DEFINE meaning == Meaning(str, mode)
           n == Len(str) + 1
<1>1. TextOK /\ str \in Seq(STRING) /\ Len(str) \in Nat /\ n \in 1..n  BY DEF ColInv, TextOK
<1>2. meaning.text = Meant(str, mode, 1) /\ meaning.error = Refused(str, mode, 1)
  BY DEF Meaning, Meant, Refused
<1>3. PICK p \in 1..n : Wrote(str, mode, out, p)
  <2>1. CASE phase = "scan"
    <3>1. pos + 1 \in 1..n /\ Wrote(str, mode, out, pos + 1)  BY <1>1, <2>1 DEF ColInv
    <3> QED  BY <3>1
  <2>2. CASE phase = "parse"
    <3>1. PICK f \in 1..Len(str) : Wrote(str, mode, out, f)  BY <2>2 DEF ColInv, InField
    <3>2. f \in 1..n  BY <1>1
    <3> QED  BY <3>1, <3>2
  <2>3. CASE phase = "done"  BY <1>1, <2>3 DEF ColInv
  <2>4. CASE phase = "thrown"  BY <2>4 DEF ColInv
  <2> QED  BY <2>1, <2>2, <2>3, <2>4 DEF ColInv
<1>4. mode # "check" => IsPrefix(out, Meant(str, mode, 1))
  <2> SUFFICES ASSUME mode # "check" PROVE IsPrefix(out, Meant(str, mode, 1))  OBVIOUS
  <2>1. out \in Seq(Outputs(str)) /\ Joins(Meant(str, mode, 1), out, Meant(str, mode, p))
    BY <1>3 DEF Wrote
  <2>2. Meant(str, mode, p) \in Seq(Outputs(str))  BY <1>1, <1>3, MeantType
  <2> QED  BY <2>1, <2>2, BeginsWith
<1>5. ASSUME phase = "done"
      PROVE  ~Refused(str, mode, 1) /\ (mode # "check" => out = Meant(str, mode, 1))
  <2>1. Wrote(str, mode, out, n)  BY <1>5 DEF ColInv
  <2>2. Meant(str, mode, n) = <<>> /\ Refused(str, mode, n) = FALSE  BY <1>1, EndPlace
  <2> HIDE DEF n
  <2>3. ~Refused(str, mode, 1)  BY <2>1, <2>2, Zenon DEF Wrote
  <2>4. ASSUME mode # "check" PROVE out = Meant(str, mode, 1)
    <3>1. out \in Seq(Outputs(str)) /\ Meant(str, mode, 1) = out \o <<>>
      BY <2>1, <2>2, <2>4 DEF Wrote, Joins
    <3> QED  BY <3>1, ConcatEmptySeq
  <2> QED  BY <2>3, <2>4
<1>6. phase = "thrown" => Refused(str, mode, 1)  BY DEF ColInv
<1> HIDE DEF meaning
<1> QED  BY <1>2, <1>4, <1>5, <1>6 DEF OutputExact, meaning

\* At any time what is written is a beginning of what the string means, and
\* when scan() returns it is all of it; scan() returns if the markup has no
\* error and throws if it has one: for every string, not only the short ones.
THEOREM OutputAlwaysExact == ColSpec => []OutputExact
BY ScanKeepsMeaning, InvExact, PTL
=============================================================================
