----------------------------- MODULE ListProofs -----------------------------
(***************************************************************************)
(* Facts about lists that the proofs about the components share.  The      *)
(* inductions are over sets of numbers: a set that holds 0 and with every  *)
(* number the next one is everything, because what is missing would have a *)
(* least element.                                                          *)
(***************************************************************************)
EXTENDS Lists, FiniteSetsExt, SequenceTheorems, WellFoundedInduction, TLAPS

\* A set of numbers that is not empty has a least element.
LEMMA LeastNumber ==
    ASSUME NEW S \in SUBSET Nat, S # {}
    PROVE  /\ Min(S) \in S /\ \A x \in S : Min(S) <= x
           /\ \E x \in S : \A y \in S : x <= y
  <1> DEFINE R == {ss \in Nat \X Nat : ss[1] < ss[2]}
  <1>1. IsWellFoundedOn(R, Nat)  BY NatLessThanWellFounded, Zenon DEF OpToRel
  <1> HIDE DEF R
  <1>2. PICK x \in S : \A y \in S : ~ (<<y, x>> \in R)  BY <1>1, WFMin
  <1>3. \A y \in S : x <= y
    <2> SUFFICES ASSUME NEW y \in S, ~(x <= y)  PROVE FALSE
      OBVIOUS
    <2>1. y < x /\ <<y, x>> \in Nat \X Nat  OBVIOUS
    <2>2. <<y, x>> \in R  BY <2>1 DEF R
    <2>3. QED  BY <1>2, <2>2
  <1>4. QED  BY <1>3 DEF Min

\* Induction up to a number, over a set.
LEMMA UpTo ==
    ASSUME NEW n \in Nat, NEW P, 0 \in P, \A i \in 0..n - 1 : i \in P => i + 1 \in P
    PROVE  \A i \in 0..n : i \in P
  <1> SUFFICES ASSUME NEW j \in 0..n, j \notin P  PROVE FALSE
    OBVIOUS
  <1> DEFINE B == {i \in 0..n : i \notin P}
  <1>1. B \in SUBSET Nat /\ B # {}  OBVIOUS
  <1> HIDE DEF B
  <1>2. PICK k \in B : \A y \in B : k <= y  BY <1>1, LeastNumber
  <1>3. k \in 0..n /\ k \notin P /\ k # 0  BY <1>2 DEF B
  <1>4. k - 1 \in 0..n - 1  BY <1>3
  <1>5. k - 1 \notin B  BY <1>2, <1>3
  <1>6. k - 1 \in P  BY <1>3, <1>5 DEF B
  <1>7. QED  BY <1>3, <1>4, <1>6

\* A list holds what was appended to it.
LEMMA HeldAppend ==
    ASSUME NEW S, NEW s \in Seq(S), NEW x \in S
    PROVE  Append(s, x) \in Seq(S) /\ Held(Append(s, x)) = Held(s) \cup {x}
  <1> DEFINE t == Append(s, x)
  <1>1. /\ t \in Seq(S) /\ Len(t) = Len(s) + 1 /\ Len(s) \in Nat
        /\ \A i \in 1..Len(s) : t[i] = s[i]
        /\ t[Len(s) + 1] = x
        /\ DOMAIN s = 1..Len(s) /\ DOMAIN t = 1..Len(t)
    BY AppendProperties, LenProperties
  <1> HIDE DEF t
  <1>2. DOMAIN t = (1..Len(s)) \cup {Len(s) + 1}  BY <1>1
  <1>3. Held(t) = Held(s) \cup {x}  BY <1>1, <1>2 DEF Held
  <1>4. QED  BY <1>1, <1>3 DEF t

\* An element that a list does not hold can be appended.
LEMMA AppendNoRepeats ==
    ASSUME NEW S, NEW s \in Seq(S), NEW x \in S, NoRepeats(s), x \notin Held(s)
    PROVE  NoRepeats(Append(s, x))
  <1> DEFINE t == Append(s, x)
  <1>1. /\ t \in Seq(S) /\ Len(t) = Len(s) + 1 /\ Len(s) \in Nat
        /\ \A i \in 1..Len(s) : t[i] = s[i]
        /\ t[Len(s) + 1] = x
        /\ DOMAIN s = 1..Len(s) /\ DOMAIN t = 1..Len(t)
    BY AppendProperties, LenProperties
  <1> HIDE DEF t
  <1>2. SUFFICES ASSUME NEW i \in DOMAIN t, NEW j \in DOMAIN t, t[i] = t[j]  PROVE i = j
    BY DEF NoRepeats, t
  <1>3. CASE i \in 1..Len(s) /\ j \in 1..Len(s)
    <2>1. s[i] = s[j]  BY <1>1, <1>2, <1>3
    <2>2. QED  BY <1>1, <1>3, <2>1 DEF NoRepeats
  <1>4. CASE i \in 1..Len(s) /\ j = Len(s) + 1
    BY <1>1, <1>2, <1>4 DEF Held
  <1>5. CASE i = Len(s) + 1 /\ j \in 1..Len(s)
    BY <1>1, <1>2, <1>5 DEF Held
  <1>6. QED  BY <1>1, <1>3, <1>4, <1>5

IsConcat(r, s, t) ==
    /\ Len(r) = Len(s) + Len(t) /\ Len(s) \in Nat /\ Len(t) \in Nat
    /\ \A i \in 1..Len(s) : r[i] = s[i]
    /\ \A i \in 1..Len(t) : r[Len(s) + i] = t[i]

\* The elements of a concatenation.
LEMMA ConcatParts ==
    ASSUME NEW S, NEW s \in Seq(S), NEW t \in Seq(S)
    PROVE  s \o t \in Seq(S) /\ IsConcat(s \o t, s, t)
  <1>1. Len(s) \in Nat /\ Len(t) \in Nat  BY LenProperties
  <1>2. s \o t \in Seq(S) /\ Len(s \o t) = Len(s) + Len(t)  BY ConcatProperties
  <1>3. ASSUME NEW i \in 1..Len(s)  PROVE (s \o t)[i] = s[i]  BY <1>1, ConcatProperties
  <1>4. ASSUME NEW i \in 1..Len(t)  PROVE (s \o t)[Len(s) + i] = t[i]
    BY <1>1, ConcatProperties
  <1>5. QED  BY <1>1, <1>2, <1>3, <1>4 DEF IsConcat

\* An element goes to the end of the second list.
LEMMA ConcatAppend ==
    ASSUME NEW S, NEW s \in Seq(S), NEW t \in Seq(S), NEW x \in S
    PROVE  s \o Append(t, x) = Append(s \o t, x)
  <1>1. <<x>> \in Seq(S) /\ s \o t \in Seq(S)  BY ConcatProperties
  <1>2. Append(t, x) = t \o <<x>>  BY AppendIsConcat
  <1>3. Append(s \o t, x) = (s \o t) \o <<x>>  BY <1>1, AppendIsConcat
  <1>4. (s \o t) \o <<x>> = s \o (t \o <<x>>)  BY <1>1, ConcatAssociative
  <1>5. QED  BY <1>2, <1>3, <1>4

\* A list that holds nothing is empty, and one that holds one element once
\* is that element.
LEMMA HoldsOne ==
    ASSUME NEW S, NEW s \in Seq(S)
    PROVE  /\ Held(s) = {} => s = <<>>
           /\ \A x \in S : NoRepeats(s) /\ Held(s) = {x} => s = <<x>>
  <1>1. Len(s) \in Nat /\ DOMAIN s = 1..Len(s)  BY LenProperties
  <1>2. ASSUME Held(s) = {}  PROVE s = <<>>
    <2>1. s # <<>> => 1 \in DOMAIN s  BY <1>1, EmptySeq
    <2>2. QED  BY <1>2, <2>1 DEF Held
  <1>3. ASSUME NEW x \in S, NoRepeats(s), Held(s) = {x}  PROVE s = <<x>>
    <2>1. \A i \in 1..Len(s) : s[i] = x  BY <1>1, <1>3 DEF Held
    <2>2. Len(s) # 0  BY <1>1, <1>3 DEF Held
    <2>3. Len(s) < 2
      <3> SUFFICES ASSUME Len(s) >= 2  PROVE FALSE
        BY <1>1
      <3>1. 1 \in 1..Len(s) /\ 2 \in 1..Len(s)  BY <1>1
      <3>2. s[1] = s[2]  BY <2>1, <3>1
      <3>3. 1 = 2  BY <1>1, <1>3, <3>1, <3>2 DEF NoRepeats
      <3>4. QED  BY <3>3
    <2>4. Len(s) = 1 /\ s[1] = x  BY <1>1, <2>1, <2>2, <2>3
    <2>5. <<x>> \in Seq(S) /\ Len(<<x>>) = 1 /\ <<x>>[1] = x  OBVIOUS
    <2>6. \A i \in 1..Len(s) : s[i] = <<x>>[i]  BY <2>4, <2>5
    <2>7. QED  BY <2>4, <2>5, <2>6, SeqEqual
  <1>4. QED  BY <1>2, <1>3

-----------------------------------------------------------------------------
(* Filter.                                                                 *)

IsKept(f, s, keep, n) ==
    /\ f[0] = <<>>
    /\ \A i \in 1..n :
        f[i] = IF s[i] \in keep THEN Append(f[i - 1], s[i]) ELSE f[i - 1]

Agree(f, g, n) == \A i \in 0..n : f[i] = g[i]

\* The recursion of Filter defines a function.
LEMMA KeptExists ==
    ASSUME NEW S, NEW s \in Seq(S), NEW keep
    PROVE  \E f \in [0..Len(s) -> Seq(S)] : IsKept(f, s, keep, Len(s))
  <1> DEFINE P == {n \in 0..Len(s) : \E f \in [0..n -> Seq(S)] : IsKept(f, s, keep, n)}
  <1>a. Len(s) \in Nat  BY LenProperties
  <1>b. 0 \in P
    <2> DEFINE f == [i \in 0..0 |-> <<>>]
    <2>1. <<>> \in Seq(S)  BY EmptySeq
    <2>2. f \in [0..0 -> Seq(S)] /\ IsKept(f, s, keep, 0)  BY <2>1 DEF IsKept
    <2>3. 0 \in 0..Len(s)  BY <1>a
    <2>4. QED  BY <2>2, <2>3
  <1>c. ASSUME NEW n \in 0..Len(s) - 1, n \in P  PROVE n + 1 \in P
    <2>1. PICK f \in [0..n -> Seq(S)] : IsKept(f, s, keep, n)  BY <1>c
    <2>2. s[n + 1] \in S /\ n + 1 \in 0..Len(s) /\ n \in 0..n  BY <1>a, ElementOfSeq
    <2> DEFINE x == IF s[n + 1] \in keep THEN Append(f[n], s[n + 1]) ELSE f[n]
               g == [i \in 0..n + 1 |-> IF i = n + 1 THEN x ELSE f[i]]
    <2>3. f[n] \in Seq(S)  BY <2>1, <2>2
    <2>4. x \in Seq(S)  BY <2>2, <2>3, AppendProperties
    <2> HIDE DEF x
    <2>5. g \in [0..n + 1 -> Seq(S)]  BY <2>1, <2>4
    <2>6. IsKept(g, s, keep, n + 1)
      <3>1. g[0] = <<>>  BY <2>1 DEF IsKept
      <3>2. ASSUME NEW i \in 1..n + 1
            PROVE  g[i] = IF s[i] \in keep THEN Append(g[i - 1], s[i]) ELSE g[i - 1]
        <4>1. CASE i = n + 1
          <5>1. g[i] = x /\ g[i - 1] = f[n]  BY <4>1
          <5>2. QED  BY <4>1, <5>1 DEF x
        <4>2. CASE i \in 1..n
          <5>1. g[i] = f[i] /\ g[i - 1] = f[i - 1]  BY <4>2
          <5>2. QED  BY <2>1, <4>2, <5>1 DEF IsKept
        <4>3. QED  BY <4>1, <4>2
      <3>3. QED  BY <3>1, <3>2 DEF IsKept
    <2>7. QED  BY <2>2, <2>5, <2>6
  <1>d. \A n \in 0..Len(s) - 1 : n \in P => n + 1 \in P  BY <1>c
  <1> HIDE DEF P
  <1>e. \A n \in 0..Len(s) : n \in P  BY <1>a, <1>b, <1>d, UpTo
  <1>f. Len(s) \in P  BY <1>a, <1>e
  <1>g. QED  BY <1>f DEF P

\* Two functions that follow the recursion agree.
LEMMA KeptUnique ==
    ASSUME NEW n \in Nat, NEW s, NEW keep, NEW f, NEW g,
           IsKept(f, s, keep, n), IsKept(g, s, keep, n)
    PROVE  Agree(f, g, n)
  <1> DEFINE P == {i \in 0..n : f[i] = g[i]}
  <1>1. 0 \in P  BY DEF IsKept
  <1>2. ASSUME NEW i \in 0..n - 1, i \in P  PROVE i + 1 \in P
    <2>1. i + 1 \in 1..n /\ (i + 1) - 1 = i  OBVIOUS
    <2>2. f[i + 1] = g[i + 1]  BY <1>2, <2>1 DEF IsKept
    <2>3. QED  BY <2>1, <2>2
  <1>3. \A i \in 0..n : i \in P
    <2> HIDE DEF P
    <2>1. QED  BY <1>1, <1>2, UpTo
  <1>4. QED  BY <1>3 DEF Agree

\* Filter is what the recursion ends in.
LEMMA FilterIsKept ==
    ASSUME NEW S, NEW s \in Seq(S), NEW keep
    PROVE  \E f \in [0..Len(s) -> Seq(S)] :
               IsKept(f, s, keep, Len(s)) /\ Filter(s, keep) = f[Len(s)]
  <1>a. Len(s) \in Nat  BY LenProperties
  <1> DEFINE Rec(f) == [i \in 0..Len(s) |->
                  IF i = 0 THEN <<>>
                  ELSE IF s[i] \in keep THEN Append(f[i - 1], s[i]) ELSE f[i - 1]]
             F == CHOOSE f : f = Rec(f)
  <1>1. PICK f \in [0..Len(s) -> Seq(S)] : IsKept(f, s, keep, Len(s))  BY KeptExists
  <1>2. f = Rec(f)
    <2>1. ASSUME NEW i \in 0..Len(s)  PROVE f[i] = Rec(f)[i]
      <3>1. CASE i = 0  BY <1>1, <3>1 DEF IsKept
      <3>2. CASE i \in 1..Len(s)
        <4>1. i # 0  BY <1>a, <3>2
        <4>2. QED  BY <1>1, <3>2, <4>1 DEF IsKept
      <3>3. QED  BY <1>a, <3>1, <3>2
    <2>2. f = [i \in 0..Len(s) |-> f[i]]  BY <1>1
    <2>3. QED  BY <2>1, <2>2
  <1>3. F = Rec(F)  BY <1>2
  <1>h. Filter(s, keep) = F[Len(s)]  BY DEF Filter
  <1> HIDE DEF F
  <1>4. IsKept(F, s, keep, Len(s))
    <2>1. F[0] = <<>>
      <3>1. F[0] = Rec(F)[0] /\ 0 \in 0..Len(s)  BY <1>3, <1>a
      <3>2. QED  BY <3>1
    <2>2. ASSUME NEW i \in 1..Len(s)
          PROVE  F[i] = IF s[i] \in keep THEN Append(F[i - 1], s[i]) ELSE F[i - 1]
      <3>1. F[i] = Rec(F)[i]  BY <1>3
      <3>2. i \in 0..Len(s) /\ i # 0  BY <1>a
      <3>3. QED  BY <3>1, <3>2
    <2>3. QED  BY <2>1, <2>2 DEF IsKept
  <1>5. Agree(F, f, Len(s))  BY <1>a, <1>1, <1>4, KeptUnique
  <1>6. F[Len(s)] = f[Len(s)]  BY <1>a, <1>5 DEF Agree
  <1>7. QED  BY <1>1, <1>h, <1>6

\* Nothing is left of the empty list.
LEMMA FilterEmpty == ASSUME NEW keep  PROVE Filter(<<>>, keep) = <<>>
  <1>1. <<>> \in Seq({}) /\ Len(<<>>) = 0  BY EmptySeq
  <1>2. PICK f \in [0..Len(<<>>) -> Seq({})] :
            IsKept(f, <<>>, keep, Len(<<>>)) /\ Filter(<<>>, keep) = f[Len(<<>>)]
    BY <1>1, FilterIsKept
  <1>3. QED  BY <1>1, <1>2 DEF IsKept

Appended(s, x, keep) ==
    /\ x \in keep => Filter(Append(s, x), keep) = Append(Filter(s, keep), x)
    /\ x \notin keep => Filter(Append(s, x), keep) = Filter(s, keep)

\* An element at the end is kept or not.
LEMMA FilterAppend ==
    ASSUME NEW S, NEW s \in Seq(S), NEW x \in S, NEW keep
    PROVE  /\ Filter(s, keep) \in Seq(S)
           /\ Appended(s, x, keep)
  <1> DEFINE t == Append(s, x)
  <1>n. PICK n \in Nat : n = Len(s)  BY LenProperties
  <1>1. /\ t \in Seq(S) /\ Len(t) = n + 1 /\ n \in Nat
        /\ \A i \in 1..n : s[i] = t[i]
        /\ t[n + 1] = x
    BY <1>n, AppendProperties, LenProperties
  <1> HIDE DEF t
  <1>2. PICK f \in [0..n -> Seq(S)] : IsKept(f, s, keep, n) /\ Filter(s, keep) = f[n]
    BY <1>n, FilterIsKept
  <1>3. PICK g \in [0..n + 1 -> Seq(S)] : IsKept(g, t, keep, n + 1) /\ Filter(t, keep) = g[n + 1]
    <2>1. \E g \in [0..Len(t) -> Seq(S)] :
              IsKept(g, t, keep, Len(t)) /\ Filter(t, keep) = g[Len(t)]
      BY <1>1, FilterIsKept
    <2>2. QED  BY <1>1, <2>1
  <1>4. IsKept(g, s, keep, n)
    <2>1. \A i \in 1..n : i \in 1..n + 1 /\ s[i] = t[i]  BY <1>1
    <2>2. QED  BY <1>3, <2>1 DEF IsKept
  <1>5. f[n] = g[n]
    <2>1. n \in Nat  BY <1>1
    <2>2. Agree(f, g, n)  BY <2>1, <1>2, <1>4, KeptUnique
    <2>3. QED  BY <1>1, <2>2 DEF Agree
  <1>6. g[n + 1] = IF t[n + 1] \in keep THEN Append(g[n], t[n + 1]) ELSE g[n]
    <2>1. n + 1 \in 1..n + 1 /\ (n + 1) - 1 = n  BY <1>1
    <2>2. QED  BY <1>3, <2>1 DEF IsKept
  <1>7. f[n] \in Seq(S)  BY <1>1, <1>2
  <1>8. QED  BY <1>1, <1>2, <1>3, <1>5, <1>6, <1>7 DEF t, Appended

\* What is kept are the elements of the list that are to be kept.
LEMMA FilterMembers ==
    ASSUME NEW S, NEW s \in Seq(S), NEW keep
    PROVE  /\ Filter(s, keep) \in Seq(S)
           /\ Held(Filter(s, keep)) = Held(s) \cap keep
  <1> DEFINE n == Len(s)
  <1>1. n \in Nat  BY LenProperties
  <1>2. PICK f \in [0..n -> Seq(S)] : IsKept(f, s, keep, n) /\ Filter(s, keep) = f[n]
    BY FilterIsKept
  <1> HIDE DEF n
  <1> DEFINE P == {i \in 0..n : Held(f[i]) = {s[j] : j \in 1..i} \cap keep}
  <1>3. 0 \in P
    <2>1. 1..0 = {} /\ 0 \in 0..n  BY <1>1
    <2>2. f[0] = <<>> /\ DOMAIN <<>> = {}  BY <1>2, EmptySeq DEF IsKept
    <2>3. QED  BY <2>1, <2>2 DEF Held
  <1>4. ASSUME NEW i \in 0..n - 1, i \in P  PROVE i + 1 \in P
    <2>1. /\ i + 1 \in 1..n /\ (i + 1) - 1 = i /\ i \in 0..n /\ i + 1 \in 0..n
          /\ 1..i + 1 = (1..i) \cup {i + 1}
      BY <1>1
    <2>2. f[i] \in Seq(S) /\ s[i + 1] \in S  BY <1>1, <1>2, <2>1, ElementOfSeq DEF n
    <2>3. f[i + 1] = IF s[i + 1] \in keep THEN Append(f[i], s[i + 1]) ELSE f[i]
      BY <1>2, <2>1 DEF IsKept
    <2>4. {s[j] : j \in 1..i + 1} = {s[j] : j \in 1..i} \cup {s[i + 1]}  BY <2>1
    <2>5. Held(f[i]) = {s[j] : j \in 1..i} \cap keep  BY <1>4
    <2>6. Held(Append(f[i], s[i + 1])) = Held(f[i]) \cup {s[i + 1]}
      BY <2>2, HeldAppend
    <2>7. Held(f[i + 1]) = {s[j] : j \in 1..i + 1} \cap keep
      BY <2>3, <2>4, <2>5, <2>6
    <2>8. QED  BY <2>1, <2>7
  <1>5. \A i \in 0..n - 1 : i \in P => i + 1 \in P  BY <1>4
  <1>6. \A i \in 0..n : i \in P
    <2> HIDE DEF P
    <2>1. QED  BY <1>1, <1>3, <1>5, UpTo
  <1>7. n \in 0..n /\ f[n] \in Seq(S)  BY <1>1, <1>2
  <1>8. Held(f[n]) = {s[j] : j \in 1..n} \cap keep  BY <1>6, <1>7
  <1>9. DOMAIN s = 1..n  BY LenProperties DEF n
  <1>10. QED  BY <1>2, <1>7, <1>8, <1>9 DEF Held

\* A list without repetitions has none afterwards.
LEMMA FilterNoRepeats ==
    ASSUME NEW S, NEW s \in Seq(S), NEW keep, NoRepeats(s)
    PROVE  NoRepeats(Filter(s, keep))
  <1>1. PICK n \in Nat : n = Len(s) /\ DOMAIN s = 1..n  BY LenProperties
  <1>2. PICK f \in [0..n -> Seq(S)] : IsKept(f, s, keep, n) /\ Filter(s, keep) = f[n]
    BY <1>1, FilterIsKept
  <1> DEFINE P == {i \in 0..n : NoRepeats(f[i]) /\ Held(f[i]) \subseteq {s[j] : j \in 1..i}}
  <1>3. 0 \in P
    <2>1. f[0] = <<>> /\ DOMAIN <<>> = {}  BY <1>2, EmptySeq DEF IsKept
    <2>2. QED  BY <1>1, <2>1 DEF Held, NoRepeats
  <1>4. ASSUME NEW i \in 0..n - 1, i \in P  PROVE i + 1 \in P
    <2>1. i + 1 \in 1..n /\ (i + 1) - 1 = i /\ i \in 0..n /\ i + 1 \in 0..n  BY <1>1
    <2>2. f[i] \in Seq(S) /\ s[i + 1] \in S  BY <1>1, <1>2, <2>1, ElementOfSeq
    <2>3. f[i + 1] = IF s[i + 1] \in keep THEN Append(f[i], s[i + 1]) ELSE f[i]
      BY <1>2, <2>1 DEF IsKept
    <2>4. NoRepeats(f[i]) /\ Held(f[i]) \subseteq {s[j] : j \in 1..i}  BY <1>4
    <2>5. s[i + 1] \notin {s[j] : j \in 1..i}
      <3> SUFFICES ASSUME NEW j \in 1..i, s[j] = s[i + 1]  PROVE FALSE
        OBVIOUS
      <3>1. j \in 1..n /\ j # i + 1  BY <1>1
      <3>2. QED  BY <1>1, <2>1, <3>1 DEF NoRepeats
    <2>6. {s[j] : j \in 1..i} \cup {s[i + 1]} \subseteq {s[j] : j \in 1..i + 1}
      <3>1. i + 1 \in 1..i + 1 /\ 1..i \subseteq 1..i + 1  BY <2>1
      <3>2. QED  BY <3>1
    <2>7. CASE s[i + 1] \in keep
      <3>1. s[i + 1] \notin Held(f[i])  BY <2>4, <2>5
      <3>2. NoRepeats(Append(f[i], s[i + 1]))  BY <2>2, <2>4, <3>1, AppendNoRepeats
      <3>3. Held(Append(f[i], s[i + 1])) = Held(f[i]) \cup {s[i + 1]}  BY <2>2, HeldAppend
      <3>4. Held(Append(f[i], s[i + 1])) \subseteq {s[j] : j \in 1..i + 1}
        BY <2>4, <2>6, <3>3
      <3>5. f[i + 1] = Append(f[i], s[i + 1])  BY <2>3, <2>7
      <3>6. QED  BY <2>1, <3>2, <3>4, <3>5
    <2>8. CASE s[i + 1] \notin keep
      <3>1. f[i + 1] = f[i]  BY <2>3, <2>8
      <3>2. Held(f[i]) \subseteq {s[j] : j \in 1..i + 1}  BY <2>4, <2>6
      <3>3. QED  BY <2>1, <2>4, <3>1, <3>2
    <2>9. QED  BY <2>7, <2>8
  <1>5. \A i \in 0..n - 1 : i \in P => i + 1 \in P  BY <1>4
  <1>6. \A i \in 0..n : i \in P
    <2> HIDE DEF P
    <2>1. QED  BY <1>1, <1>3, <1>5, UpTo
  <1>7. n \in P  BY <1>1, <1>6
  <1>8. QED  BY <1>2, <1>7

\* Nothing is kept of a list without elements to keep.
LEMMA FilterNone ==
    ASSUME NEW S, NEW s \in Seq(S), NEW keep, Held(s) \cap keep = {}
    PROVE  Filter(s, keep) = <<>>
  <1>1. Filter(s, keep) \in Seq(S) /\ Held(Filter(s, keep)) = {}  BY FilterMembers
  <1>2. QED  BY <1>1, HoldsOne

Divided(s, t, keep) == Filter(s \o t, keep) = Filter(s, keep) \o Filter(t, keep)

\* Filtering a concatenation.
LEMMA FilterConcat ==
    ASSUME NEW S, NEW s \in Seq(S), NEW t \in Seq(S), NEW keep
    PROVE  Divided(s, t, keep)
  <1>1. PICK n \in Nat : n = Len(t)  BY LenProperties
  <1> DEFINE F(x) == Filter(x, keep)
             q(i) == SubSeq(t, 1, i)
             P == {i \in 0..n : F(s \o q(i)) = F(s) \o F(q(i))}
  <1>2. \A x \in Seq(S) : F(x) \in Seq(S)  BY FilterMembers
  <1>a. ASSUME NEW y \in Seq(S), NEW z \in S
        PROVE  /\ z \in keep => F(Append(y, z)) = Append(F(y), z)
               /\ z \notin keep => F(Append(y, z)) = F(y)
    <2>1. Appended(y, z, keep)  BY FilterAppend
    <2>2. QED  BY <2>1 DEF Appended
  <1>3. ASSUME NEW i \in 0..n  PROVE q(i) \in Seq(S)
    <2>1. \A j \in 1..i : t[j] \in S
      <3> TAKE j \in 1..i
      <3>1. j \in 1..Len(t)  BY <1>1
      <3>2. QED  BY <3>1, ElementOfSeq
    <2>2. i \in Int  BY <1>1
    <2>3. QED  BY <2>1, <2>2, SubSeqProperties
  <1>4. 0 \in P
    <2>1. q(0) = <<>>  BY SubSeqEmpty
    <2>2. F(q(0)) = <<>>  BY <2>1, FilterEmpty
    <2>3. F(s) \in Seq(S)  BY <1>2
    <2> HIDE DEF F, q
    <2>4. s \o q(0) = s /\ F(s) \o <<>> = F(s)  BY <2>1, <2>3, ConcatEmptySeq
    <2>5. F(s \o q(0)) = F(s) \o F(q(0))  BY <2>2, <2>4
    <2>6. QED  BY <1>1, <2>5
  <1>5. ASSUME NEW i \in 0..n - 1, i \in P  PROVE i + 1 \in P
    <2> DEFINE x == t[i + 1]
    <2>1. i \in 0..n /\ i + 1 \in 0..n /\ i + 1 \in 1..Len(t) /\ (i + 1) - 1 = i
      BY <1>1
    <2>2. x \in S /\ q(i) \in Seq(S)  BY <1>3, <2>1, ElementOfSeq
    <2>3. q(i + 1) = Append(q(i), x)
      <3>1. 1 \in 1..Len(t) /\ i + 1 \in 1..Len(t)  BY <2>1
      <3>2. SubSeq(t, 1, i + 1) = SubSeq(t, 1, (i + 1) - 1) \o <<t[i + 1]>>
        BY <3>1, SubSeqRecursiveSecond
      <3>3. q(i + 1) = q(i) \o <<x>>  BY <2>1, <3>2
      <3> HIDE DEF q, x
      <3>4. QED  BY <2>2, <3>3, AppendIsConcat
    <2>4. F(s \o q(i)) = F(s) \o F(q(i))  BY <1>5
    <2>5. PICK u \in Seq(S) : u = q(i)  BY <2>2
    <2>6. PICK v \in Seq(S) : v = s \o u  BY ConcatProperties
    <2> HIDE DEF q, x, F
    <2>7. (x \in keep => F(Append(u, x)) = Append(F(u), x)) /\
          (x \notin keep => F(Append(u, x)) = F(u))
      BY <2>2, <1>a
    <2>8. (x \in keep => F(Append(v, x)) = Append(F(v), x)) /\
          (x \notin keep => F(Append(v, x)) = F(v))
      BY <2>2, <1>a
    <2>9. F(s) \in Seq(S) /\ F(u) \in Seq(S)  BY <1>2
    <2>10. F(s \o q(i + 1)) = F(s) \o F(q(i + 1))
      <3>1. PICK f \in Seq(S), g \in Seq(S) : f = F(s) /\ g = F(u)  BY <2>9
      <3>2. s \o Append(u, x) = Append(v, x)
        <4>1. s \o Append(u, x) = Append(s \o u, x)  BY <2>2, ConcatAppend
        <4>2. QED  BY <2>6, <4>1
      <3>3. f \o Append(g, x) = Append(f \o g, x)  BY <2>2, ConcatAppend
      <3>4. F(v) = f \o g  BY <2>4, <2>5, <2>6, <3>1
      <3>5. F(Append(v, x)) = f \o F(Append(u, x))  BY <2>7, <2>8, <3>1, <3>3, <3>4
      <3>6. QED  BY <2>3, <2>5, <3>1, <3>2, <3>5
    <2>11. QED  BY <2>1, <2>10
  <1>6. \A i \in 0..n - 1 : i \in P => i + 1 \in P  BY <1>5
  <1>7. \A i \in 0..n : i \in P
    <2> HIDE DEF P
    <2>1. QED  BY <1>1, <1>4, <1>6, UpTo
  <1>8. n \in P  BY <1>1, <1>7
  <1>9. q(n) = t  BY <1>1, SubSeqFull
  <1> HIDE DEF F, q
  <1>10. F(s \o t) = F(s) \o F(t)  BY <1>8, <1>9
  <1>11. QED  BY <1>10 DEF F, Divided

\* How many of the first i places of s hold d, if no more than one does.
Gone(s, d, i) == IF \E j \in 1..i : s[j] = d THEN 1 ELSE 0

\* Without one element the ones behind it move up by one place.
LEMMA RemovedPlaces ==
    ASSUME NEW S, NEW s \in Seq(S), NEW d, NoRepeats(s), NEW i \in 1..Len(s), s[i] # d
    PROVE  LET t == Filter(s, S \ {d})  p == i - Gone(s, d, i) IN
           p \in 1..Len(t) /\ t[p] = s[i]
  <1>1. PICK n \in Nat : n = Len(s) /\ DOMAIN s = 1..n  BY LenProperties
  <1> DEFINE keep == S \ {d}
             B(m) == Gone(s, d, m)
  <1>2. PICK f \in [0..n -> Seq(S)] : IsKept(f, s, keep, n) /\ Filter(s, keep) = f[n]
    BY <1>1, FilterIsKept
  <1> DEFINE P == {m \in 0..n : /\ Len(f[m]) = m - B(m)
                                /\ \A k \in 1..m : s[k] # d =>
                                     k - B(k) \in 1..Len(f[m]) /\ f[m][k - B(k)] = s[k]}
  <1>b. \A m \in 0..n : B(m) \in {0, 1}  BY DEF Gone
  <1>3. 0 \in P
    <2>1. f[0] = <<>> /\ Len(<<>>) = 0  BY <1>2, EmptySeq DEF IsKept
    <2>2. B(0) = 0  BY DEF Gone
    <2>3. QED  BY <1>1, <2>1, <2>2
  <1>4. ASSUME NEW m \in 0..n - 1, m \in P  PROVE m + 1 \in P
    <2>1. m + 1 \in 1..n /\ (m + 1) - 1 = m /\ m \in 0..n /\ m + 1 \in 0..n /\ m \in Nat  BY <1>1
    <2>2. f[m] \in Seq(S) /\ s[m + 1] \in S  BY <1>1, <1>2, <2>1, ElementOfSeq
    <2>3. f[m + 1] = IF s[m + 1] \in keep THEN Append(f[m], s[m + 1]) ELSE f[m]
      BY <1>2, <2>1 DEF IsKept
    <2>4. /\ Len(f[m]) = m - B(m)
          /\ \A k \in 1..m : s[k] # d => k - B(k) \in 1..Len(f[m]) /\ f[m][k - B(k)] = s[k]
      BY <1>4
    <2>5. B(m) \in {0, 1} /\ \A k \in 1..m + 1 : B(k) \in {0, 1}
      <3>1. \A k \in 1..m + 1 : k \in 0..n  BY <1>1
      <3>2. QED  BY <1>b, <2>1, <3>1
    <2>6. CASE s[m + 1] = d
      <3>1. f[m + 1] = f[m]  BY <2>3, <2>6
      <3>2. ~\E j \in 1..m : s[j] = d
        <4> SUFFICES ASSUME NEW j \in 1..m, s[j] = d  PROVE FALSE
          OBVIOUS
        <4>1. j \in DOMAIN s /\ m + 1 \in DOMAIN s /\ j # m + 1  BY <1>1, <2>1
        <4>2. QED  BY <2>6, <4>1 DEF NoRepeats
      <3>3. m + 1 \in 1..m + 1  BY <2>1
      <3>4. B(m) = 0 /\ B(m + 1) = 1  BY <2>6, <3>2, <3>3 DEF Gone
      <3>5. Len(f[m + 1]) = (m + 1) - B(m + 1)  BY <2>1, <2>4, <3>1, <3>4
      <3>6. ASSUME NEW k \in 1..m + 1, s[k] # d
            PROVE  k - B(k) \in 1..Len(f[m + 1]) /\ f[m + 1][k - B(k)] = s[k]
        <4>1. k \in 1..m  BY <2>1, <2>6, <3>6
        <4>2. QED  BY <2>4, <3>1, <3>6, <4>1
      <3>7. QED  BY <2>1, <3>5, <3>6
    <2>7. CASE s[m + 1] # d
      <3>1. f[m + 1] = Append(f[m], s[m + 1])  BY <2>2, <2>3, <2>7
      <3>2. B(m + 1) = B(m)
        <4>1. ASSUME NEW j \in 1..m + 1, s[j] = d  PROVE j \in 1..m  BY <2>1, <2>7, <4>1
        <4>2. ASSUME NEW j \in 1..m  PROVE j \in 1..m + 1  BY <2>1
        <4>3. QED  BY <4>1, <4>2 DEF Gone
      <3> DEFINE r == f[m]
                 l == Len(r)
      <3>3. /\ Len(f[m + 1]) = l + 1 /\ l \in Nat /\ f[m + 1][l + 1] = s[m + 1]
            /\ \A k \in 1..l : f[m + 1][k] = r[k]
        BY <2>2, <3>1, LenProperties, AppendProperties
      <3> HIDE DEF r
      <3>4. Len(f[m + 1]) = (m + 1) - B(m + 1) /\ l + 1 = (m + 1) - B(m + 1)
        BY <2>1, <2>4, <2>5, <3>2, <3>3 DEF r
      <3>5. ASSUME NEW k \in 1..m + 1, s[k] # d
            PROVE  k - B(k) \in 1..Len(f[m + 1]) /\ f[m + 1][k - B(k)] = s[k]
        <4>1. CASE k = m + 1  BY <3>3, <3>4, <4>1
        <4>2. CASE k \in 1..m
          <5>1. k - B(k) \in 1..l /\ r[k - B(k)] = s[k]  BY <2>4, <3>5, <4>2 DEF r
          <5>2. QED  BY <3>3, <5>1
        <4>3. QED  BY <2>1, <4>1, <4>2
      <3>6. QED  BY <2>1, <3>4, <3>5
    <2>8. QED  BY <2>6, <2>7
  <1>5. \A m \in 0..n - 1 : m \in P => m + 1 \in P  BY <1>4
  <1>6. \A m \in 0..n : m \in P
    <2> HIDE DEF P
    <2>1. QED  BY <1>1, <1>3, <1>5, UpTo
  <1>7. n \in P  BY <1>1, <1>6
  <1>8. QED  BY <1>1, <1>2, <1>7
=============================================================================
