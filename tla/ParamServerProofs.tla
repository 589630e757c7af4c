------------------------- MODULE ParamServerProofs -------------------------
(***************************************************************************)
(* Proofs about the parameter server and the nodes' caches, for any nodes, *)
(* names and values: the cache is current once the updates have arrived,   *)
(* and a search finds the nearest key.                                     *)
(***************************************************************************)
EXTENDS ParamServer, ListProofs, FiniteSetTheorems

Trees == {v \in UNION {[D -> Scalars \cup {Dict}] : D \in SUBSET Seq(Spaces)} : Tree(v)}
Update == [sub : Keys, key : Keys, val : Trees]
Message == [key : Keys, val : Trees]

-----------------------------------------------------------------------------
(* Names and their prefixes.                                               *)

Name == Seq(Spaces)

\* A part of a name is a name.
LEMMA Slice ==
    ASSUME NEW s \in Name, NEW a \in 1..Len(s) + 1, NEW b \in 0..Len(s), a <= b + 1
    PROVE  /\ SubSeq(s, a, b) \in Name /\ Len(SubSeq(s, a, b)) = b - a + 1
           /\ \A i \in 1..b - a + 1 : SubSeq(s, a, b)[i] = s[a + i - 1]
  <1>1. Len(s) \in Nat  BY LenProperties DEF Name
  <1>2. \A i \in a..b : s[i] \in Spaces  BY <1>1, ElementOfSeq DEF Name
  <1>3. a \in Int /\ b \in Int  BY <1>1
  <1>4. /\ SubSeq(s, a, b) \in Name
        /\ Len(SubSeq(s, a, b)) = IF a <= b THEN b - a + 1 ELSE 0
        /\ \A i \in 1..b - a + 1 : SubSeq(s, a, b)[i] = s[a + i - 1]
    BY <1>2, <1>3, SubSeqProperties DEF Name
  <1>5. QED  BY <1>1, <1>3, <1>4

\* Two names are the same if they have the same parts.
LEMMA SameName ==
    ASSUME NEW s \in Name, NEW t \in Name, Len(s) = Len(t), \A i \in 1..Len(s) : s[i] = t[i]
    PROVE  s = t
  BY SeqEqual DEF Name

\* A prefix has the first parts of the name.
LEMMA PrefixParts ==
    ASSUME NEW s \in Name, NEW t \in Name
    PROVE  IsPrefix(s, t) <=> Len(s) <= Len(t) /\ \A i \in 1..Len(s) : s[i] = t[i]
  <1>1. Len(s) \in Nat /\ Len(t) \in Nat  BY LenProperties DEF Name
  <1>2. SubSeq(s, 1, Len(s)) = s  BY SubSeqFull DEF Name
  <1>3. ASSUME Len(s) <= Len(t)
        PROVE  /\ SubSeq(t, 1, Len(s)) \in Name /\ Len(SubSeq(t, 1, Len(s))) = Len(s)
               /\ \A i \in 1..Len(s) : SubSeq(t, 1, Len(s))[i] = t[i]
    <2>1. 1 \in 1..Len(t) + 1 /\ Len(s) \in 0..Len(t) /\ 1 <= Len(s) + 1  BY <1>1, <1>3
    <2>2. /\ SubSeq(t, 1, Len(s)) \in Name /\ Len(SubSeq(t, 1, Len(s))) = Len(s) - 1 + 1
          /\ \A i \in 1..Len(s) - 1 + 1 : SubSeq(t, 1, Len(s))[i] = t[1 + i - 1]
      BY <2>1, Slice
    <2>3. Len(s) - 1 + 1 = Len(s) /\ \A i \in 1..Len(s) : 1 + i - 1 = i  BY <1>1
    <2>4. QED  BY <2>2, <2>3
  <1>4. ASSUME IsPrefix(s, t)
        PROVE  Len(s) <= Len(t) /\ \A i \in 1..Len(s) : s[i] = t[i]
    BY <1>2, <1>3, <1>4 DEF IsPrefix
  <1>5. ASSUME Len(s) <= Len(t), \A i \in 1..Len(s) : s[i] = t[i]  PROVE IsPrefix(s, t)
    <2>1. s = SubSeq(t, 1, Len(s))  BY <1>3, <1>5, SameName
    <2>2. QED  BY <1>2, <1>5, <2>1 DEF IsPrefix
  <1>6. QED  BY <1>4, <1>5

\* Prefixes are ordered, and those of one name are comparable.
LEMMA PrefixOrder ==
    ASSUME NEW s \in Name, NEW t \in Name, NEW u \in Name
    PROVE  /\ IsPrefix(s, s)
           /\ IsPrefix(s, t) /\ IsPrefix(t, u) => IsPrefix(s, u)
           /\ IsPrefix(s, t) /\ IsPrefix(t, s) => s = t
           /\ IsPrefix(s, u) /\ IsPrefix(t, u) => IsPrefix(s, t) \/ IsPrefix(t, s)
  <1>1. Len(s) \in Nat /\ Len(t) \in Nat /\ Len(u) \in Nat  BY LenProperties DEF Name
  <1>2. IsPrefix(s, s)  BY <1>1, PrefixParts
  <1>3. ASSUME IsPrefix(s, t), IsPrefix(t, u)  PROVE IsPrefix(s, u)
    <2>1. /\ Len(s) <= Len(t) /\ Len(t) <= Len(u)
          /\ \A i \in 1..Len(s) : s[i] = t[i]
          /\ \A i \in 1..Len(t) : t[i] = u[i]
      BY <1>3, PrefixParts
    <2>2. Len(s) <= Len(u) /\ \A i \in 1..Len(s) : i \in 1..Len(t)  BY <1>1, <2>1
    <2>3. QED  BY <2>1, <2>2, PrefixParts
  <1>4. ASSUME IsPrefix(s, t), IsPrefix(t, s)  PROVE s = t
    <2>1. Len(s) <= Len(t) /\ Len(t) <= Len(s) /\ \A i \in 1..Len(s) : s[i] = t[i]
      BY <1>4, PrefixParts
    <2>2. QED  BY <1>1, <2>1, SameName
  <1>5. ASSUME IsPrefix(s, u), IsPrefix(t, u)  PROVE IsPrefix(s, t) \/ IsPrefix(t, s)
    <2>1. /\ \A i \in 1..Len(s) : s[i] = u[i]
          /\ \A i \in 1..Len(t) : t[i] = u[i]
      BY <1>5, PrefixParts
    <2>2. CASE Len(s) <= Len(t)
      <3>1. \A i \in 1..Len(s) : i \in 1..Len(t)  BY <1>1, <2>2
      <3>2. QED  BY <2>1, <2>2, <3>1, PrefixParts
    <2>3. CASE Len(t) <= Len(s)
      <3>1. \A i \in 1..Len(t) : i \in 1..Len(s)  BY <1>1, <2>3
      <3>2. QED  BY <2>1, <2>3, <3>1, PrefixParts
    <2>4. QED  BY <1>1, <2>2, <2>3
  <1>6. QED  BY <1>2, <1>3, <1>4, <1>5

\* A name is a prefix of it and the part below that.
LEMMA NameSplits ==
    ASSUME NEW k \in Name, NEW p \in Name, IsPrefix(k, p)
    PROVE  Below(p, k) \in Name /\ k \o Below(p, k) = p /\ (Below(p, k) = <<>> <=> p = k)
  <1>1. Len(k) \in Nat /\ Len(p) \in Nat /\ Len(k) <= Len(p) /\ \A i \in 1..Len(k) : k[i] = p[i]
    BY PrefixParts, LenProperties DEF Name
  <1> DEFINE q == Below(p, k)
  <1>2. Len(k) + 1 \in 1..Len(p) + 1 /\ Len(p) \in 0..Len(p) /\ Len(k) + 1 <= Len(p) + 1  BY <1>1
  <1>3. /\ q \in Name /\ Len(q) = Len(p) - (Len(k) + 1) + 1
        /\ \A i \in 1..Len(p) - (Len(k) + 1) + 1 : q[i] = p[Len(k) + 1 + i - 1]
    BY <1>2, Slice DEF Below
  <1> HIDE DEF q
  <1>4. Len(q) = Len(p) - Len(k) /\ \A i \in 1..Len(q) : q[i] = p[Len(k) + i]
    <2>1. Len(p) - (Len(k) + 1) + 1 = Len(p) - Len(k)  BY <1>1
    <2>2. \A i \in 1..Len(q) : Len(k) + 1 + i - 1 = Len(k) + i  BY <1>1
    <2>3. QED  BY <1>3, <2>1, <2>2
  <1>5. /\ k \o q \in Name /\ Len(k \o q) = Len(k) + Len(q)
        /\ \A i \in 1..Len(k) + Len(q) : (k \o q)[i] = IF i <= Len(k) THEN k[i] ELSE q[i - Len(k)]
    BY <1>3, ConcatProperties DEF Name
  <1>6. Len(k \o q) = Len(p)  BY <1>1, <1>4, <1>5
  <1>7. ASSUME NEW i \in 1..Len(p)  PROVE (k \o q)[i] = p[i]
    <2>1. CASE i <= Len(k)  BY <1>1, <1>5, <1>6, <2>1
    <2>2. CASE ~(i <= Len(k))
      <3>1. i - Len(k) \in 1..Len(q) /\ Len(k) + (i - Len(k)) = i  BY <1>1, <1>4, <2>2
      <3>2. (k \o q)[i] = q[i - Len(k)]  BY <1>5, <1>6, <2>2
      <3>3. QED  BY <1>4, <3>1, <3>2
    <2>3. QED  BY <2>1, <2>2
  <1>8. k \o q = p  BY <1>5, <1>6, <1>7, SameName
  <1>9. q = <<>> <=> p = k
    <2>1. k \in Seq(Spaces) /\ q \in Seq(Spaces)  BY <1>3 DEF Name
    <2>2. k \o q = k <=> q = <<>>  BY <2>1, ConcatEqualIffEmpty
    <2>3. QED  BY <1>8, <2>2
  <1>10. q = Below(p, k)  BY DEF q
  <1>11. QED  BY <1>3, <1>8, <1>9, <1>10

\* A name put in front of another one.
LEMMA NameJoins ==
    ASSUME NEW k \in Name, NEW q \in Name
    PROVE  k \o q \in Name /\ IsPrefix(k, k \o q) /\ Below(k \o q, k) = q
  <1>1. Len(k) \in Nat /\ Len(q) \in Nat  BY LenProperties DEF Name
  <1>2. /\ k \o q \in Name /\ Len(k \o q) = Len(k) + Len(q)
        /\ \A i \in 1..Len(k) + Len(q) : (k \o q)[i] = IF i <= Len(k) THEN k[i] ELSE q[i - Len(k)]
    BY ConcatProperties DEF Name
  <1>3. IsPrefix(k, k \o q)
    <2>1. Len(k) <= Len(k \o q) /\ \A i \in 1..Len(k) : k[i] = (k \o q)[i]  BY <1>1, <1>2
    <2>2. QED  BY <1>2, <2>1, PrefixParts
  <1>4. k \o Below(k \o q, k) = k \o q /\ Below(k \o q, k) \in Name  BY <1>2, <1>3, NameSplits
  <1>5. Below(k \o q, k) = q  BY <1>4, ConcatSimplifications DEF Name
  <1>6. QED  BY <1>2, <1>3, <1>5

\* What is above a name.
LEMMA NameFront ==
    ASSUME NEW p \in Name, p # <<>>
    PROVE  /\ Front(p) \in Name /\ IsPrefix(Front(p), p) /\ Front(p) # p
           /\ \A k \in Name : IsPrefix(k, p) /\ k # p => IsPrefix(k, Front(p))
  <1>1. Len(p) \in Nat /\ Len(p) # 0  BY EmptySeq, LenProperties DEF Name
  <1>2. 1 \in 1..Len(p) + 1 /\ Len(p) - 1 \in 0..Len(p) /\ 1 <= (Len(p) - 1) + 1  BY <1>1
  <1>3. /\ Front(p) \in Name /\ Len(Front(p)) = (Len(p) - 1) - 1 + 1
        /\ \A i \in 1..(Len(p) - 1) - 1 + 1 : Front(p)[i] = p[1 + i - 1]
    BY <1>2, Slice DEF Front
  <1>4. (Len(p) - 1) - 1 + 1 = Len(p) - 1 /\ \A i \in 1..Len(p) - 1 : 1 + i - 1 = i  BY <1>1
  <1>5. Len(Front(p)) = Len(p) - 1 /\ \A i \in 1..Len(p) - 1 : Front(p)[i] = p[i]  BY <1>3, <1>4
  <1>6. IsPrefix(Front(p), p)
    <2>1. Len(Front(p)) <= Len(p)  BY <1>1, <1>5
    <2>2. QED  BY <1>3, <1>5, <2>1, PrefixParts
  <1>7. Front(p) # p  BY <1>1, <1>5
  <1>8. ASSUME NEW k \in Name, IsPrefix(k, p), k # p  PROVE IsPrefix(k, Front(p))
    <2>1. Len(k) \in Nat /\ Len(k) <= Len(p) /\ \A i \in 1..Len(k) : k[i] = p[i]
      BY <1>8, PrefixParts, LenProperties DEF Name
    <2>2. Len(k) # Len(p)  BY <1>8, <2>1, SameName
    <2>3. Len(k) <= Len(Front(p)) /\ \A i \in 1..Len(k) : i \in 1..Len(p) - 1
        BY <1>1, <1>5, <2>1, <2>2
    <2>4. QED  BY <1>3, <1>5, <2>1, <2>3, PrefixParts
  <1>9. QED  BY <1>3, <1>6, <1>7, <1>8

\* The front of a joined name is the second part's front.
LEMMA FrontOfJoin ==
    ASSUME NEW k \in Name, NEW q \in Name, q # <<>>
    PROVE  k \o q # <<>> /\ Front(k \o q) = k \o Front(q)
  <1>1. Front(q) \in Name /\ IsPrefix(Front(q), q)  BY NameFront
  <1>2. k \o q \in Name /\ k \o Front(q) \in Name  BY <1>1, NameJoins
  <1>3. Len(k) \in Nat /\ Len(q) \in Nat /\ Len(q) # 0  BY EmptySeq, LenProperties DEF Name
  <1>4. /\ Len(k \o q) = Len(k) + Len(q)
        /\ \A i \in 1..Len(k) + Len(q) : (k \o q)[i] = IF i <= Len(k) THEN k[i] ELSE q[i - Len(k)]
    BY ConcatProperties DEF Name
  <1>5. k \o q # <<>>
    <2>1. Len(k \o q) # 0  BY <1>3, <1>4
    <2>2. QED  BY <1>2, <2>1, EmptySeq DEF Name
  <1>6. Len(Front(q)) = Len(q) - 1 /\ \A i \in 1..Len(q) - 1 : Front(q)[i] = q[i]
    <2>1. 1 \in 1..Len(q) + 1 /\ Len(q) - 1 \in 0..Len(q) /\ 1 <= (Len(q) - 1) + 1  BY <1>3
    <2>2. /\ Len(Front(q)) = (Len(q) - 1) - 1 + 1
          /\ \A i \in 1..(Len(q) - 1) - 1 + 1 : Front(q)[i] = q[1 + i - 1]
      BY <2>1, Slice DEF Front
    <2>3. (Len(q) - 1) - 1 + 1 = Len(q) - 1 /\ \A i \in 1..Len(q) - 1 : 1 + i - 1 = i  BY <1>3
    <2>4. QED  BY <2>2, <2>3
  <1>7. /\ Len(k \o Front(q)) = Len(k) + Len(Front(q))
        /\ \A i \in 1..Len(k) + Len(Front(q)) :
             (k \o Front(q))[i] = IF i <= Len(k) THEN k[i] ELSE Front(q)[i - Len(k)]
    BY <1>1, ConcatProperties DEF Name
  <1> DEFINE n == Len(k) + Len(q)
  <1>8. /\ Front(k \o q) \in Name /\ Len(Front(k \o q)) = n - 1
        /\ \A i \in 1..n - 1 : Front(k \o q)[i] = (k \o q)[i]
    <2>1. n \in Nat /\ n # 0 /\ Len(k \o q) = n  BY <1>3, <1>4
    <2> HIDE DEF n
    <2>2. 1 \in 1..n + 1 /\ n - 1 \in 0..n /\ 1 <= (n - 1) + 1  BY <2>1
    <2>3. /\ Front(k \o q) \in Name /\ Len(Front(k \o q)) = (n - 1) - 1 + 1
          /\ \A i \in 1..(n - 1) - 1 + 1 : Front(k \o q)[i] = (k \o q)[1 + i - 1]
      BY <1>2, <2>1, <2>2, Slice DEF Front
    <2>4. (n - 1) - 1 + 1 = n - 1 /\ \A i \in 1..n - 1 : 1 + i - 1 = i  BY <2>1
    <2>5. QED  BY <2>3, <2>4
  <1>9. Len(k \o Front(q)) = n - 1  BY <1>3, <1>6, <1>7
  <1>10. ASSUME NEW i \in 1..n - 1  PROVE Front(k \o q)[i] = (k \o Front(q))[i]
    <2>1. i \in 1..Len(k) + Len(q) /\ i \in 1..Len(k) + Len(Front(q))  BY <1>3, <1>6
    <2>2. Front(k \o q)[i] = (k \o q)[i]  BY <1>8
    <2>3. CASE i <= Len(k)  BY <1>4, <1>7, <2>1, <2>2, <2>3
    <2>4. CASE ~(i <= Len(k))
      <3>1. i - Len(k) \in 1..Len(q) - 1  BY <1>3, <2>4
      <3>2. (k \o q)[i] = q[i - Len(k)] /\ (k \o Front(q))[i] = Front(q)[i - Len(k)]
        BY <1>4, <1>7, <2>1, <2>4
      <3>3. QED  BY <1>6, <2>2, <3>1, <3>2
    <2>5. QED  BY <2>3, <2>4
  <1>11. Front(k \o q) = k \o Front(q)
    <2>1. Len(Front(k \o q)) = Len(k \o Front(q))  BY <1>8, <1>9
    <2>2. \A i \in 1..Len(Front(k \o q)) : Front(k \o q)[i] = (k \o Front(q))[i]  BY <1>8, <1>10
    <2>3. QED  BY <1>2, <1>8, <2>1, <2>2, SameName
  <1>12. QED  BY <1>5, <1>11

\* The root is a prefix of every name; Prefixes are the prefixes.
LEMMA PrefixesOf ==
    ASSUME NEW k \in Name
    PROVE  /\ <<>> \in Name /\ IsPrefix(<<>>, k) /\ k \o <<>> = k
           /\ Prefixes(k) = {p \in Name : IsPrefix(p, k)}
  <1>1. <<>> \in Name /\ Len(<<>>) = 0 /\ Len(k) \in Nat  BY EmptySeq, LenProperties DEF Name
  <1>2. IsPrefix(<<>>, k)
    <2>1. Len(<<>>) <= Len(k) /\ \A i \in 1..Len(<<>>) : <<>>[i] = k[i]  BY <1>1
    <2>2. QED  BY <1>1, <2>1, PrefixParts
  <1>3. k \o <<>> = k  BY ConcatEmptySeq DEF Name
  <1>4. ASSUME NEW l \in 0..Len(k)
        PROVE  /\ SubSeq(k, 1, l) \in Name /\ Len(SubSeq(k, 1, l)) = l
               /\ \A i \in 1..l : SubSeq(k, 1, l)[i] = k[i]
    <2>1. 1 \in 1..Len(k) + 1 /\ l \in 0..Len(k) /\ 1 <= l + 1  BY <1>1
    <2>2. /\ SubSeq(k, 1, l) \in Name /\ Len(SubSeq(k, 1, l)) = l - 1 + 1
          /\ \A i \in 1..l - 1 + 1 : SubSeq(k, 1, l)[i] = k[1 + i - 1]
      BY <2>1, Slice
    <2>3. l - 1 + 1 = l /\ \A i \in 1..l : 1 + i - 1 = i  BY <1>1
    <2>4. QED  BY <2>2, <2>3
  <1>5. ASSUME NEW l \in 0..Len(k)  PROVE IsPrefix(SubSeq(k, 1, l), k)
    <2>1. Len(SubSeq(k, 1, l)) <= Len(k)  BY <1>1, <1>4
    <2>2. QED  BY <1>4, <2>1, PrefixParts
  <1>6. ASSUME NEW p \in Name, IsPrefix(p, k)  PROVE p \in Prefixes(k)
    <2>1. Len(p) \in 0..Len(k) /\ \A i \in 1..Len(p) : p[i] = k[i]
      BY <1>1, <1>6, PrefixParts, LenProperties DEF Name
    <2>2. /\ SubSeq(k, 1, Len(p)) \in Name /\ Len(SubSeq(k, 1, Len(p))) = Len(p)
          /\ \A i \in 1..Len(p) : p[i] = SubSeq(k, 1, Len(p))[i]
      BY <1>4, <2>1
    <2>3. p = SubSeq(k, 1, Len(p))  BY <2>2, SameName
    <2>4. QED  BY <2>1, <2>3 DEF Prefixes
  <1>7. QED  BY <1>1, <1>2, <1>3, <1>4, <1>5, <1>6 DEF Prefixes

-----------------------------------------------------------------------------
(* Trees.                                                                  *)

\* Trees is the set of the trees.
LEMMA TreeSet == ASSUME NEW v  PROVE v \in Trees <=> Tree(v)
  BY DEF Trees, Tree

\* The names of a tree, the root among them, and a part of it.
LEMMA TreeFacts ==
    ASSUME NEW v \in Trees
    PROVE  /\ DOMAIN v \subseteq Name /\ <<>> \in DOMAIN v
           /\ v \in [DOMAIN v -> Scalars \cup {Dict}]
           /\ \A p \in DOMAIN v : p # <<>> => Front(p) \in DOMAIN v /\ v[Front(p)] = Dict
  <1>1. Tree(v)  BY TreeSet
  <1>2. QED  BY <1>1 DEF Tree, Name

\* A part of a tree has what is below the key and is a tree if the key is there.
LEMMA PartOfTree ==
    ASSUME NEW v \in Trees, NEW k \in Name
    PROVE  /\ DOMAIN at(v, k) = {q \in Name : k \o q \in DOMAIN v}
           /\ \A q \in DOMAIN at(v, k) : at(v, k)[q] = v[k \o q]
           /\ k \in DOMAIN v => at(v, k) \in Trees
  <1>1. DOMAIN v \subseteq Name /\ v \in [DOMAIN v -> Scalars \cup {Dict}]
        /\ \A p \in DOMAIN v : p # <<>> => Front(p) \in DOMAIN v /\ v[Front(p)] = Dict
    BY TreeFacts
  <1> DEFINE D == {Below(p, k) : p \in Under(k, v)}
             E == {q \in Name : k \o q \in DOMAIN v}
  <1>2. ASSUME NEW q \in D  PROVE q \in E
    <2>1. PICK p \in Under(k, v) : q = Below(p, k)  OBVIOUS
    <2>2. p \in DOMAIN v /\ p \in Name /\ IsPrefix(k, p)  BY <1>1 DEF Under
    <2>3. Below(p, k) \in Name /\ k \o Below(p, k) = p  BY <2>2, NameSplits
    <2>4. QED  BY <2>1, <2>2, <2>3
  <1>3. ASSUME NEW q \in E  PROVE q \in D
    <2>1. IsPrefix(k, k \o q) /\ Below(k \o q, k) = q  BY NameJoins
    <2>2. k \o q \in Under(k, v)  BY <2>1 DEF Under
    <2>3. QED  BY <2>1, <2>2
  <1>4. D = E  BY <1>2, <1>3
  <1>5. at(v, k) = [q \in E |-> v[k \o q]]  BY <1>4 DEF at
  <1>6. DOMAIN at(v, k) = E /\ \A q \in E : at(v, k)[q] = v[k \o q]  BY <1>5
  <1>7. ASSUME k \in DOMAIN v  PROVE Tree(at(v, k))
    <2>1. at(v, k) \in [E -> Scalars \cup {Dict}]  BY <1>1, <1>5
    <2>2. <<>> \in E  BY <1>7, PrefixesOf
    <2>3. ASSUME NEW q \in E, q # <<>>  PROVE Front(q) \in E /\ at(v, k)[Front(q)] = Dict
      <3>1. Front(q) \in Name  BY <2>3, NameFront
      <3>2. k \o q # <<>> /\ Front(k \o q) = k \o Front(q)  BY <2>3, FrontOfJoin
      <3>3. k \o Front(q) \in DOMAIN v /\ v[k \o Front(q)] = Dict  BY <1>1, <3>2
      <3>4. QED  BY <1>6, <3>1, <3>3
    <2>4. E \subseteq Seq(Spaces)  BY DEF Name
    <2>5. QED  BY <1>6, <2>1, <2>2, <2>3, <2>4 DEF Tree
  <1>8. QED  BY <1>6, <1>7, TreeSet

\* Everything is part of itself.
LEMMA WholeTree == ASSUME NEW v \in Trees  PROVE at(v, <<>>) = v
  <1>1. DOMAIN v \subseteq Name /\ v \in [DOMAIN v -> Scalars \cup {Dict}]  BY TreeFacts
  <1>2. <<>> \in Name /\ \A q \in Name : <<>> \o q = q  BY ConcatEmptySeq, EmptySeq DEF Name
  <1>3. /\ DOMAIN at(v, <<>>) = {q \in Name : <<>> \o q \in DOMAIN v}
        /\ \A q \in DOMAIN at(v, <<>>) : at(v, <<>>)[q] = v[<<>> \o q]
    BY <1>2, PartOfTree
  <1>4. DOMAIN at(v, <<>>) = DOMAIN v /\ \A q \in DOMAIN v : at(v, <<>>)[q] = v[q]
      BY <1>1, <1>2, <1>3
  <1>5. at(v, <<>>) = [q \in DOMAIN at(v, <<>>) |-> at(v, <<>>)[q]]  BY DEF at
  <1>6. QED  BY <1>1, <1>4, <1>5

\* The empty dictionary.
LEMMA EmptyTree == Empty \in Trees /\ IsDict(Empty) /\ DOMAIN Empty = {<<>>}
  <1>1. <<>> \in Seq(Spaces)  BY EmptySeq
  <1>2. Tree(Empty)  BY <1>1 DEF Empty, Tree
  <1>3. QED  BY <1>2, TreeSet DEF Empty, IsDict

\* A key is a name and not the root.
LEMMA KeyNames == ASSUME NEW k \in Keys  PROVE k \in Name /\ k # <<>>
  BY ParamAssumption DEF Name

\* What is stored are trees.
LEMMA ValueTrees == Values \subseteq Trees
  BY ParamAssumption, TreeSet

-----------------------------------------------------------------------------
(* Setting and deleting.                                                   *)

\* What set_param stores at the new names, above them and elsewhere.
LEMMA SetNames ==
    ASSUME parameters \in Trees, NEW key \in Keys, NEW v \in Trees
    PROVE  LET new == set_param(key, v) IN
           /\ new \in [DOMAIN new -> Scalars \cup {Dict}] /\ DOMAIN new \subseteq Name
           /\ \A p \in Name :
                /\ IsPrefix(key, p) =>
                     /\ p \in DOMAIN new <=> Below(p, key) \in DOMAIN v
                     /\ p \in DOMAIN new => new[p] = v[Below(p, key)]
                /\ IsStrictPrefix(p, key) => p \in DOMAIN new /\ new[p] = Dict
                /\ ~IsPrefix(key, p) /\ ~IsPrefix(p, key) =>
                     /\ p \in DOMAIN new <=> p \in DOMAIN parameters
                     /\ p \in DOMAIN new => new[p] = parameters[p]
  <1> DEFINE new == set_param(key, v)
             W == {key \o q : q \in DOMAIN v}
             D == (DOMAIN parameters \ Under(key, parameters)) \cup Prefixes(key) \cup W
  <1>1. key \in Name /\ key # <<>>  BY KeyNames
  <1>2. /\ DOMAIN v \subseteq Name /\ v \in [DOMAIN v -> Scalars \cup {Dict}]
        /\ DOMAIN parameters \subseteq Name
        /\ parameters \in [DOMAIN parameters -> Scalars \cup {Dict}]
        /\ <<>> \in DOMAIN v
    BY TreeFacts
  <1>3. new = [p \in D |-> IF p \in W THEN v[Below(p, key)]
                           ELSE IF IsStrictPrefix(p, key) THEN Dict ELSE parameters[p]]
    BY DEF set_param
  <1>4. Prefixes(key) = {p \in Name : IsPrefix(p, key)}  BY <1>1, PrefixesOf
  <1>5. ASSUME NEW p \in W
        PROVE  p \in Name /\ IsPrefix(key, p) /\ Below(p, key) \in DOMAIN v
    <2>1. PICK q \in DOMAIN v : p = key \o q  OBVIOUS
    <2>2. q \in Name  BY <1>2
    <2>3. QED  BY <1>1, <2>1, <2>2, NameJoins
  <1>6. ASSUME NEW p \in Name, IsPrefix(key, p), Below(p, key) \in DOMAIN v  PROVE p \in W
    <2>1. key \o Below(p, key) = p  BY <1>1, <1>6, NameSplits
    <2>2. QED  BY <1>6, <2>1
  <1>7. key \in W
    <2>1. key \o <<>> = key  BY <1>1, PrefixesOf
    <2>2. QED  BY <1>2, <2>1
  <1>8. \A p \in Name : p \in Under(key, parameters) <=> p \in DOMAIN parameters /\ IsPrefix(key, p)
    BY DEF Under
  <1> HIDE DEF W
  <1>9. D \subseteq Name  BY <1>2, <1>4, <1>5
  <1> HIDE DEF D
  <1>10. DOMAIN new = D  BY <1>3
  <1>11. ASSUME NEW p \in Name, IsPrefix(key, p)
         PROVE  /\ p \in DOMAIN new <=> Below(p, key) \in DOMAIN v
                /\ p \in DOMAIN new => new[p] = v[Below(p, key)]
    <2>1. p \in D => p \in W
      <3>1. p \notin DOMAIN parameters \ Under(key, parameters)  BY <1>8, <1>11
      <3>2. p \in Prefixes(key) => p = key  BY <1>1, <1>4, <1>11, PrefixOrder
      <3>3. QED  BY <1>7, <3>1, <3>2 DEF D
    <2>2. p \in D <=> Below(p, key) \in DOMAIN v  BY <1>5, <1>6, <1>11, <2>1 DEF D
    <2>3. p \in D => new[p] = v[Below(p, key)]  BY <1>3, <2>1
    <2>4. QED  BY <1>10, <2>2, <2>3
  <1>12. ASSUME NEW p \in Name, IsStrictPrefix(p, key)  PROVE p \in DOMAIN new /\ new[p] = Dict
    <2>1. IsPrefix(p, key) /\ p # key  BY <1>12 DEF IsStrictPrefix
    <2>2. p \in D  BY <1>4, <2>1 DEF D
    <2>3. p \notin W  BY <1>1, <1>5, <2>1, PrefixOrder
    <2>4. QED  BY <1>3, <1>10, <1>12, <2>2, <2>3
  <1>13. ASSUME NEW p \in Name, ~IsPrefix(key, p), ~IsPrefix(p, key)
         PROVE  /\ p \in DOMAIN new <=> p \in DOMAIN parameters
                /\ p \in DOMAIN new => new[p] = parameters[p]
    <2>1. p \notin W /\ p \notin Prefixes(key) /\ p \notin Under(key, parameters)
      BY <1>4, <1>5, <1>8, <1>13
    <2>2. p \in D <=> p \in DOMAIN parameters  BY <2>1 DEF D
    <2>3. ~IsStrictPrefix(p, key)  BY <1>13 DEF IsStrictPrefix
    <2>4. QED  BY <1>3, <1>10, <2>1, <2>2, <2>3
  <1>14. new \in [D -> Scalars \cup {Dict}]
    <2>1. ASSUME NEW p \in D  PROVE new[p] \in Scalars \cup {Dict}
      <3>1. CASE p \in W  BY <1>2, <1>3, <1>5, <3>1
      <3>2. CASE p \notin W /\ IsStrictPrefix(p, key)  BY <1>3, <3>2
      <3>3. CASE p \notin W /\ ~IsStrictPrefix(p, key)
        <4>1. p \in Prefixes(key) => p = key  BY <1>4, <3>3 DEF IsStrictPrefix
        <4>2. p \in DOMAIN parameters  BY <1>7, <3>3, <4>1 DEF D
        <4>3. new[p] = parameters[p]  BY <1>3, <3>3
        <4>4. QED  BY <1>2, <4>2, <4>3
      <3>4. QED  BY <3>1, <3>2, <3>3
    <2>2. new = [p \in D |-> new[p]]  BY <1>3, <1>10
    <2>3. QED  BY <2>1, <2>2
  <1>15. QED  BY <1>9, <1>10, <1>11, <1>12, <1>13, <1>14

\* set_param keeps the dictionary a tree.
LEMMA SetTree ==
    ASSUME parameters \in Trees, NEW key \in Keys, NEW v \in Trees
    PROVE  set_param(key, v) \in Trees /\ IsDict(set_param(key, v))
  <1> DEFINE new == set_param(key, v)
  <1>1. /\ new \in [DOMAIN new -> Scalars \cup {Dict}] /\ DOMAIN new \subseteq Name
        /\ \A p \in Name :
             /\ IsPrefix(key, p) =>
                  /\ p \in DOMAIN new <=> Below(p, key) \in DOMAIN v
                  /\ p \in DOMAIN new => new[p] = v[Below(p, key)]
             /\ IsStrictPrefix(p, key) => p \in DOMAIN new /\ new[p] = Dict
             /\ ~IsPrefix(key, p) /\ ~IsPrefix(p, key) =>
                  /\ p \in DOMAIN new <=> p \in DOMAIN parameters
                  /\ p \in DOMAIN new => new[p] = parameters[p]
    BY SetNames
  <1> HIDE DEF new
  <1>2. key \in Name /\ key # <<>>  BY KeyNames
  <1>3. <<>> \in Name /\ IsStrictPrefix(<<>>, key)  BY <1>2, PrefixesOf DEF IsStrictPrefix
  <1>4. <<>> \in DOMAIN new /\ new[<<>>] = Dict  BY <1>1, <1>3
  <1>5. ASSUME NEW p \in DOMAIN new, p # <<>>  PROVE Front(p) \in DOMAIN new /\ new[Front(p)] = Dict
    <2>1. p \in Name  BY <1>1
    <2>2. /\ Front(p) \in Name /\ IsPrefix(Front(p), p) /\ Front(p) # p
          /\ IsPrefix(key, p) /\ key # p => IsPrefix(key, Front(p))
      BY <1>2, <1>5, <2>1, NameFront
    <2>3. CASE IsPrefix(p, key)
      <3>1. IsPrefix(Front(p), key)  BY <1>2, <2>1, <2>2, <2>3, PrefixOrder
      <3>2. Front(p) # key  BY <2>1, <2>2, <2>3, PrefixOrder
      <3>3. QED  BY <1>1, <2>2, <3>1, <3>2 DEF IsStrictPrefix
    <2>4. CASE ~IsPrefix(p, key) /\ IsPrefix(key, p)
      <3>1. key # p  BY <1>2, <2>4, PrefixOrder
      <3>2. IsPrefix(key, Front(p))  BY <2>2, <2>4, <3>1
      <3>3. Below(p, key) \in DOMAIN v /\ Below(p, key) \in Name /\ Below(p, key) # <<>>
            /\ key \o Below(p, key) = p
        BY <1>1, <1>2, <2>1, <2>4, <3>1, NameSplits
      <3>4. Front(Below(p, key)) \in DOMAIN v /\ v[Front(Below(p, key))] = Dict  BY <3>3, TreeFacts
      <3>5. Front(p) = key \o Front(Below(p, key))  BY <1>2, <3>3, FrontOfJoin
      <3>6. Front(Below(p, key)) \in Name  BY <3>3, NameFront
      <3>7. Below(Front(p), key) = Front(Below(p, key))  BY <1>2, <3>5, <3>6, NameJoins
      <3>8. QED  BY <1>1, <2>2, <3>2, <3>4, <3>7
    <2>5. CASE ~IsPrefix(p, key) /\ ~IsPrefix(key, p)
      <3>1. p \in DOMAIN parameters  BY <1>1, <2>1, <2>5
      <3>2. Front(p) \in DOMAIN parameters /\ parameters[Front(p)] = Dict  BY <1>5, <3>1, TreeFacts
      <3>3. ~IsPrefix(key, Front(p))  BY <1>2, <2>1, <2>2, <2>5, PrefixOrder
      <3>4. CASE IsPrefix(Front(p), key)
        <4>1. Front(p) # key  BY <2>2, <2>5
        <4>2. QED  BY <1>1, <2>2, <3>4, <4>1 DEF IsStrictPrefix
      <3>5. CASE ~IsPrefix(Front(p), key)  BY <1>1, <2>2, <3>2, <3>3, <3>5
      <3>6. QED  BY <3>4, <3>5
    <2>6. QED  BY <2>3, <2>4, <2>5
  <1>6. Tree(new)  BY <1>1, <1>4, <1>5 DEF Tree, Name
  <1>7. QED  BY <1>4, <1>6, TreeSet DEF IsDict, new

\* The part of a tree at a key, if there is one.
Get(w, k) == IF k \in DOMAIN w THEN at(w, k) ELSE None

\* get_param looks in the master's dictionary.
LEMMA GetIs == ASSUME NEW k  PROVE get_param(k) = Get(parameters, k)
  BY DEF get_param, has_param, Get

\* Two trees have the same part at k.
LEMMA SamePart ==
    ASSUME NEW v \in Trees, NEW w \in Trees, NEW k \in Name, NEW j \in Name,
           \A q \in Name : /\ k \o q \in DOMAIN v <=> j \o q \in DOMAIN w
                           /\ k \o q \in DOMAIN v => v[k \o q] = w[j \o q]
    PROVE  at(v, k) = at(w, j) /\ (k \in DOMAIN v <=> j \in DOMAIN w)
  <1>1. /\ DOMAIN at(v, k) = {q \in Name : k \o q \in DOMAIN v}
        /\ \A q \in DOMAIN at(v, k) : at(v, k)[q] = v[k \o q]
        /\ DOMAIN at(w, j) = {q \in Name : j \o q \in DOMAIN w}
        /\ \A q \in DOMAIN at(w, j) : at(w, j)[q] = w[j \o q]
    BY PartOfTree
  <1>2. DOMAIN at(v, k) = DOMAIN at(w, j)  BY <1>1
  <1>3. \A q \in DOMAIN at(v, k) : at(v, k)[q] = at(w, j)[q]  BY <1>1, <1>2
  <1>4. /\ at(v, k) = [q \in DOMAIN at(v, k) |-> at(v, k)[q]]
        /\ at(w, j) = [q \in DOMAIN at(w, j) |-> at(w, j)[q]]
    BY DEF at
  <1>5. at(v, k) = at(w, j)  BY <1>2, <1>3, <1>4
  <1>6. <<>> \in Name /\ k \o <<>> = k /\ j \o <<>> = j  BY PrefixesOf
  <1>7. QED  BY <1>5, <1>6

\* A key at or below the one that is set has the new value's part; a key that is
\* neither below nor above keeps its value.
LEMMA SetEffect ==
    ASSUME parameters \in Trees, NEW key \in Keys, NEW v \in Trees, NEW k \in Name
    PROVE  /\ IsPrefix(key, k) => Get(set_param(key, v), k) = Get(v, Below(k, key))
           /\ ~IsPrefix(key, k) /\ ~IsPrefix(k, key) =>
                Get(set_param(key, v), k) = Get(parameters, k)
  <1> DEFINE new == set_param(key, v)
  <1>1. new \in Trees  BY SetTree
  <1>2. \A p \in Name :
             /\ IsPrefix(key, p) =>
                  /\ p \in DOMAIN new <=> Below(p, key) \in DOMAIN v
                  /\ p \in DOMAIN new => new[p] = v[Below(p, key)]
             /\ ~IsPrefix(key, p) /\ ~IsPrefix(p, key) =>
                  /\ p \in DOMAIN new <=> p \in DOMAIN parameters
                  /\ p \in DOMAIN new => new[p] = parameters[p]
    BY SetNames
  <1> HIDE DEF new
  <1>3. key \in Name  BY KeyNames
  <1>4. \A q \in Name : k \o q \in Name /\ IsPrefix(k, k \o q)  BY NameJoins
  <1>5. ASSUME IsPrefix(key, k)  PROVE Get(new, k) = Get(v, Below(k, key))
    <2> DEFINE j == Below(k, key)
    <2>1. j \in Name /\ key \o j = k  BY <1>3, <1>5, NameSplits
    <2> HIDE DEF j
    <2>2. ASSUME NEW q \in Name
          PROVE  /\ k \o q \in DOMAIN new <=> j \o q \in DOMAIN v
                 /\ k \o q \in DOMAIN new => new[k \o q] = v[j \o q]
      <3>1. IsPrefix(key, k \o q)  BY <1>3, <1>4, <1>5, PrefixOrder
      <3>2. k \o q = key \o (j \o q)
        <4>1. key \in Seq(Spaces) /\ j \in Seq(Spaces) /\ q \in Seq(Spaces)  BY <1>3, <2>1 DEF Name
        <4>2. (key \o j) \o q = key \o (j \o q)  BY <4>1, ConcatAssociative
        <4>3. QED  BY <2>1, <4>2
      <3>3. Below(k \o q, key) = j \o q
        <4>1. j \o q \in Name  BY <2>1, NameJoins
        <4>2. QED  BY <1>3, <3>2, <4>1, NameJoins
      <3>4. QED  BY <1>2, <1>4, <3>1, <3>3
    <2>3. at(new, k) = at(v, j) /\ (k \in DOMAIN new <=> j \in DOMAIN v)
      BY <1>1, <2>1, <2>2, SamePart
    <2>4. Get(new, k) = Get(v, j)  BY <2>3 DEF Get
    <2>5. QED  BY <2>4 DEF j
  <1>6. ASSUME ~IsPrefix(key, k), ~IsPrefix(k, key)  PROVE Get(new, k) = Get(parameters, k)
    <2>1. ASSUME NEW q \in Name
          PROVE  /\ k \o q \in DOMAIN new <=> k \o q \in DOMAIN parameters
                 /\ k \o q \in DOMAIN new => new[k \o q] = parameters[k \o q]
      <3>1. ~IsPrefix(key, k \o q)  BY <1>3, <1>4, <1>6, PrefixOrder
      <3>2. ~IsPrefix(k \o q, key)  BY <1>3, <1>4, <1>6, PrefixOrder
      <3>3. QED  BY <1>2, <1>4, <3>1, <3>2
    <2>2. at(new, k) = at(parameters, k) /\ (k \in DOMAIN new <=> k \in DOMAIN parameters)
      BY <1>1, <2>1, SamePart
    <2>3. QED  BY <2>2 DEF Get
  <1>7. QED  BY <1>5, <1>6 DEF new

\* The same for a key that is deleted.
LEMMA DeleteEffect ==
    ASSUME parameters \in Trees, IsDict(parameters), NEW key \in Keys
    PROVE  /\ delete_param(key) \in Trees /\ IsDict(delete_param(key))
           /\ \A k \in Name :
                /\ IsPrefix(key, k) => Get(delete_param(key), k) = None
                /\ ~IsPrefix(key, k) /\ ~IsPrefix(k, key) =>
                     Get(delete_param(key), k) = Get(parameters, k)
  <1> DEFINE new == delete_param(key)
             D == DOMAIN parameters \ Under(key, parameters)
  <1>1. key \in Name /\ key # <<>>  BY KeyNames
  <1>2. /\ DOMAIN parameters \subseteq Name /\ <<>> \in DOMAIN parameters
        /\ parameters \in [DOMAIN parameters -> Scalars \cup {Dict}]
        /\ \A p \in DOMAIN parameters :
             p # <<>> => Front(p) \in DOMAIN parameters /\ parameters[Front(p)] = Dict
    BY TreeFacts
  <1>3. new = [p \in D |-> parameters[p]]  BY DEF delete_param
  <1>4. \A p \in Name : p \in D <=> p \in DOMAIN parameters /\ ~IsPrefix(key, p)  BY DEF Under
  <1>5. DOMAIN new = D /\ D \subseteq Name /\ \A p \in D : new[p] = parameters[p]  BY <1>2, <1>3
  <1>6. new \in [D -> Scalars \cup {Dict}]  BY <1>2, <1>3
  <1> HIDE DEF new, D
  <1>7. <<>> \in D /\ new[<<>>] = Dict
    <2>1. <<>> \in Name /\ IsPrefix(<<>>, key)  BY <1>1, PrefixesOf
    <2>2. ~IsPrefix(key, <<>>)  BY <1>1, <2>1, PrefixOrder
    <2>3. <<>> \in D  BY <1>2, <1>4, <2>1, <2>2
    <2>4. QED  BY <1>5, <2>3 DEF IsDict
  <1>8. ASSUME NEW p \in D, p # <<>>  PROVE Front(p) \in D /\ new[Front(p)] = Dict
    <2>1. p \in Name /\ p \in DOMAIN parameters /\ ~IsPrefix(key, p)  BY <1>4, <1>5
    <2>2. Front(p) \in Name /\ IsPrefix(Front(p), p)  BY <1>8, <2>1, NameFront
    <2>3. ~IsPrefix(key, Front(p))  BY <1>1, <2>1, <2>2, PrefixOrder
    <2>4. Front(p) \in D  BY <1>2, <1>4, <1>8, <2>1, <2>2, <2>3
    <2>5. QED  BY <1>2, <1>5, <1>8, <2>1, <2>4
  <1>9. Tree(new)  BY <1>5, <1>6, <1>7, <1>8 DEF Tree, Name
  <1>10. new \in Trees /\ IsDict(new)  BY <1>7, <1>9, TreeSet DEF IsDict
  <1>11. ASSUME NEW k \in Name, IsPrefix(key, k)  PROVE Get(new, k) = None
    BY <1>4, <1>5, <1>11 DEF Get
  <1>12. ASSUME NEW k \in Name, ~IsPrefix(key, k), ~IsPrefix(k, key)
         PROVE  Get(new, k) = Get(parameters, k)
    <2>1. ASSUME NEW q \in Name
          PROVE  /\ k \o q \in DOMAIN new <=> k \o q \in DOMAIN parameters
                 /\ k \o q \in DOMAIN new => new[k \o q] = parameters[k \o q]
      <3>1. k \o q \in Name /\ IsPrefix(k, k \o q)  BY NameJoins
      <3>2. ~IsPrefix(key, k \o q)  BY <1>1, <1>12, <3>1, PrefixOrder
      <3>3. QED  BY <1>4, <1>5, <3>1, <3>2
    <2>2. at(new, k) = at(parameters, k) /\ (k \in DOMAIN new <=> k \in DOMAIN parameters)
      BY <1>10, <2>1, SamePart
    <2>3. QED  BY <2>2 DEF Get
  <1>13. QED  BY <1>10, <1>11, <1>12 DEF new

-----------------------------------------------------------------------------
(* The updates of a change.                                                *)

\* An enumeration of a finite set has all its elements.
LEMMA Enumerates ==
    ASSUME NEW S, IsFiniteSet(S), NEW f \in SetToSeqs(S)
    PROVE  f \in Seq(S) /\ \A x \in S : \E i \in 1..Len(f) : f[i] = x
  <1>1. PICK n \in Nat : n = Cardinality(S)  BY FS_CardinalityType
  <1>2. f \in [1..n -> S] /\ \A i, j \in 1..n : i # j => f[i] # f[j]  BY <1>1 DEF SetToSeqs
  <1>3. f \in Seq(S) /\ Len(f) = n  BY <1>2, SeqDef
  <1>4. f \in Injection(1..n, S)  BY <1>2 DEF Injection, IsInjective
  <1>5. Cardinality(1..n) = n  BY FS_Interval
  <1>6. f \in Surjection(1..n, S)  BY <1>1, <1>4, <1>5, FS_Injection
  <1>7. \A x \in S : \E i \in 1..n : f[i] = x  BY <1>6 DEF Surjection
  <1>8. QED  BY <1>3, <1>7

\* compute_param_updates: every update tells what the new value holds at its key,
\* and everyone at or above the key, or below a dictionary, has one.
LEMMA UpdatesOf ==
    ASSUME subscribers \in [Keys -> Seq(Clients)], NEW key \in Keys, NEW v \in Trees,
           NEW u \in compute_param_updates(key, v)
    PROVE  /\ u \in Seq(Update)
           /\ \A j \in 1..Len(u) : /\ IsPrefix(u[j].sub, u[j].key) /\ IsPrefix(key, u[j].key)
                                   /\ Same(u[j].val, Get(v, Below(u[j].key, key)))
           /\ \A k \in Listening :
                IsPrefix(k, key) \/ (IsStrictPrefix(key, k) /\ IsDict(v)) =>
                  \E j \in 1..Len(u) : u[j].sub = k
  <1> DEFINE above == {[sub |-> s, key |-> key, val |-> v] :
                         s \in {r \in Listening : IsPrefix(r, key)}}
             gone  == {[sub |-> s, key |-> s, val |-> Empty] : s \in deleted_keys(key, v)}
             exact == exact_updates(key, v)
             Ok(x) == /\ x \in Update /\ IsPrefix(x.sub, x.key) /\ IsPrefix(key, x.key)
                      /\ Same(x.val, Get(v, Below(x.key, key)))
             A == loop_updates(key, v)
  <1>1. PICK f \in SetToSeqs(A), g \in SetToSeqs(exact) : u = f \o g
    BY DEF compute_param_updates
  <1>a. A = above \cup gone  BY DEF loop_updates
  <1>2. key \in Name /\ key # <<>> /\ Listening \subseteq Keys /\ \A s \in Keys : s \in Name
    BY KeyNames DEF Listening
  <1>3. IsFiniteSet(above) /\ IsFiniteSet(gone) /\ IsFiniteSet(exact)
    <2>1. IsFiniteSet(Keys)  BY ParamAssumption
    <2>2. /\ {r \in Listening : IsPrefix(r, key)} \in SUBSET Keys
          /\ deleted_keys(key, v) \in SUBSET Keys
          /\ Listening \cap all_keys(key, v) \in SUBSET Keys
      BY <1>2 DEF deleted_keys
    <2>3. /\ IsFiniteSet({r \in Listening : IsPrefix(r, key)})
          /\ IsFiniteSet(deleted_keys(key, v))
          /\ IsFiniteSet(Listening \cap all_keys(key, v))
      BY <2>1, <2>2, FS_Subset
    <2>4. IsFiniteSet(above)
      <3> DEFINE S == {r \in Listening : IsPrefix(r, key)}
                 h == [s \in S |-> [sub |-> s, key |-> key, val |-> v]]
      <3>1. h \in Surjection(S, above)  BY DEF Surjection
      <3>2. QED  BY <2>3, <3>1, FS_Surjection
    <2>5. IsFiniteSet(gone)
      <3> DEFINE S == deleted_keys(key, v)
                 h == [s \in S |-> [sub |-> s, key |-> s, val |-> Empty]]
      <3>1. h \in Surjection(S, gone)  BY DEF Surjection
      <3>2. QED  BY <2>3, <3>1, FS_Surjection
    <2>6. IsFiniteSet(exact)
      <3> DEFINE S == Listening \cap all_keys(key, v)
                 h == [s \in S |-> [sub |-> s, key |-> s, val |-> at(v, Below(s, key))]]
      <3>1. h \in Surjection(S, exact)  BY DEF Surjection, exact_updates
      <3>2. QED  BY <2>3, <3>1, FS_Surjection
    <2>7. QED  BY <2>4, <2>5, <2>6
  <1>4. \A x \in above : Ok(x)
    <2>1. ASSUME NEW s \in {r \in Listening : IsPrefix(r, key)}
          PROVE  Ok([sub |-> s, key |-> key, val |-> v])
      <3>1. Below(key, key) = <<>> /\ IsPrefix(key, key)  BY <1>2, NameSplits, PrefixOrder
      <3>2. Get(v, <<>>) = v  BY WholeTree, TreeFacts DEF Get
      <3>3. QED  BY <1>2, <3>1, <3>2 DEF Update, Same
    <2>2. QED  BY <2>1
  <1>5. \A x \in gone : Ok(x)
    <2>1. ASSUME NEW s \in deleted_keys(key, v)  PROVE Ok([sub |-> s, key |-> s, val |-> Empty])
      <3>1. s \in Keys /\ s \in Name /\ IsPrefix(key, s) /\ key # s /\ s \notin all_keys(key, v)
        BY <1>2 DEF deleted_keys, IsStrictPrefix
      <3>2. Below(s, key) # <<>> /\ key \o Below(s, key) = s  BY <1>2, <3>1, NameSplits
      <3>3. Below(s, key) \notin DOMAIN v  BY <3>1, <3>2 DEF all_keys
      <3>4. Same(Empty, Get(v, Below(s, key)))  BY <3>3 DEF Get, Same
      <3>5. IsPrefix(s, s)  BY <3>1, PrefixOrder
      <3>6. QED  BY <3>1, <3>4, <3>5, EmptyTree DEF Update
    <2>2. QED  BY <2>1
  <1>6. \A x \in exact_updates(key, v) : Ok(x)
    <2>1. ASSUME NEW s \in Listening \cap all_keys(key, v)
          PROVE  Ok([sub |-> s, key |-> s, val |-> at(v, Below(s, key))])
      <3>1. PICK q \in DOMAIN v \ {<<>>} : s = key \o q  BY DEF all_keys
      <3>2. q \in Name  BY TreeFacts
      <3>3. Below(s, key) = q /\ IsPrefix(key, s)  BY <1>2, <3>1, <3>2, NameJoins
      <3>4. at(v, q) \in Trees  BY <3>1, <3>2, PartOfTree
      <3>5. Same(at(v, q), Get(v, q))  BY <3>1 DEF Get, Same
      <3>6. s \in Keys /\ IsPrefix(s, s)  BY <1>2, PrefixOrder
      <3>7. QED  BY <3>3, <3>4, <3>5, <3>6 DEF Update
    <2>2. QED  BY <2>1 DEF exact_updates
  <1>7. IsFiniteSet(A)
    <2>1. IsFiniteSet(above \cup gone)
      <3> HIDE DEF above, gone
      <3>1. QED  BY <1>3, FS_Union
    <2>2. QED  BY <1>a, <2>1
  <1>9. \A x \in A \cup exact : Ok(x)  BY <1>4, <1>5, <1>6, <1>a
  <1>10. ASSUME NEW k \in Listening, IsPrefix(k, key) \/ (IsStrictPrefix(key, k) /\ IsDict(v))
         PROVE  \E x \in A \cup exact : x.sub = k
    <2>1. CASE IsPrefix(k, key)
      <3>1. [sub |-> k, key |-> key, val |-> v] \in A \cup exact  BY <1>a, <2>1
      <3>2. [sub |-> k, key |-> key, val |-> v].sub = k  OBVIOUS
      <3> HIDE DEF A, exact
      <3>3. QED  BY <3>1, <3>2
    <2>2. CASE IsStrictPrefix(key, k) /\ IsDict(v) /\ k \in all_keys(key, v)
      <3>1. [sub |-> k, key |-> k, val |-> at(v, Below(k, key))] \in A \cup exact
        BY <2>2 DEF exact_updates
      <3>2. [sub |-> k, key |-> k, val |-> at(v, Below(k, key))].sub = k  OBVIOUS
      <3> HIDE DEF A, exact
      <3>3. QED  BY <3>1, <3>2
    <2>3. CASE IsStrictPrefix(key, k) /\ IsDict(v) /\ k \notin all_keys(key, v)
      <3>1. [sub |-> k, key |-> k, val |-> Empty] \in A \cup exact  BY <1>a, <2>3 DEF deleted_keys
      <3>2. [sub |-> k, key |-> k, val |-> Empty].sub = k  OBVIOUS
      <3> HIDE DEF A, exact
      <3>3. QED  BY <3>1, <3>2
    <2>4. QED  BY <1>10, <2>1, <2>2, <2>3
  <1> HIDE DEF A, above, gone, exact
  <1>8. /\ f \in Seq(A) /\ \A x \in A : \E i \in 1..Len(f) : f[i] = x
        /\ g \in Seq(exact) /\ \A x \in exact : \E i \in 1..Len(g) : g[i] = x
    BY <1>3, <1>7, Enumerates
  <1>11. f \in Seq(A \cup exact) /\ g \in Seq(A \cup exact)  BY <1>8, SeqMonotonic
  <1>12. u \in Seq(A \cup exact) /\ IsConcat(u, f, g)  BY <1>1, <1>11, ConcatParts
  <1>13. \A j \in 1..Len(u) : u[j] \in A \cup exact  BY <1>12, ElementOfSeq
  <1>14. A \cup exact \subseteq Update  BY <1>9
  <1>15. u \in Seq(Update)  BY <1>12, <1>14, SeqMonotonic
  <1>16. \A x \in A \cup exact : \E j \in 1..Len(u) : u[j] = x
    <2>1. Len(f) \in Nat /\ Len(g) \in Nat  BY <1>8, LenProperties
    <2>2. ASSUME NEW i \in 1..Len(f)  PROVE i \in 1..Len(u) /\ u[i] = f[i]
      BY <1>12, <2>1 DEF IsConcat
    <2>3. ASSUME NEW i \in 1..Len(g)  PROVE Len(f) + i \in 1..Len(u) /\ u[Len(f) + i] = g[i]
      BY <1>12, <2>1 DEF IsConcat
    <2>4. QED  BY <1>8, <2>2, <2>3
  <1>17. QED  BY <1>9, <1>10, <1>13, <1>15, <1>16

-----------------------------------------------------------------------------
(* The inductive invariant.                                                *)

MasterInv ==
  /\ parameters \in Trees /\ IsDict(parameters)
  /\ registered \subseteq Clients
  /\ subscribers \in [Keys -> Seq(Clients)]
  /\ \A k \in Keys : NoRepeats(subscribers[k]) /\ Held(subscribers[k]) \subseteq registered
  /\ sets \in 0..MaxSets

\* An update that is being announced tells the newest value.
HolderInv ==
  /\ holder = [todo |-> holder.todo, i |-> holder.i, by |-> holder.by]
  /\ holder.todo \in Seq(Update) /\ holder.i \in Nat \ {0}
  /\ holder.by = None => holder.todo = <<>>
  /\ \A j \in 1..Len(holder.todo) :
       /\ IsPrefix(holder.todo[j].sub, holder.todo[j].key)
       /\ Same(holder.todo[j].val, Get(parameters, holder.todo[j].key))

Stores == [op : {"store"}, key : Keys, val : Trees \cup {None}, late : BOOLEAN]
Calls == [op : {"idle", "deleting"}] \cup [op : {"subscribe", "get", "del"}, key : Keys]
         \cup [op : {"set"}, key : Keys, val : Trees] \cup Stores

ThreadInv ==
  /\ thread \in [Clients -> Calls]
  /\ \A c \in Clients :
       /\ thread[c].op \in {"subscribe", "get", "store"} => thread[c].key \in subscribed[c]
       /\ thread[c].op = "subscribe" => thread[c].key \notin DOMAIN cache[c]

Subscribing(c, k) == thread[c].op = "subscribe" /\ thread[c].key = k

\* A node that has a name is in the list of what it has subscribed to.
NodeInv ==
  /\ tasks \in [Clients -> Seq(Message)]
  /\ subscribed \in [Clients -> SUBSET Keys]
  /\ astray \in [Clients -> SUBSET Keys]
  /\ DOMAIN cache = Clients
  /\ \A c \in Clients :
       /\ DOMAIN cache[c] \subseteq subscribed[c]
       /\ \A k \in DOMAIN cache[c] : cache[c][k] \in Trees \cup {None}
  /\ \A c \in registered : \A k \in subscribed[c] :
       c \in Held(subscribers[k]) \/ Subscribing(c, k)

\* Node c will be told of the j-th update; of the one for its subscription of k.
Told(c, j) ==
  \E i \in 1..Len(subscribers[holder.todo[j].sub]) :
    subscribers[holder.todo[j].sub][i] = c /\ (j = 1 => holder.i <= i)
Coming(c, k) == \E j \in 1..Len(holder.todo) : holder.todo[j].sub = k /\ Told(c, j)

\* A message changes the entry of k; it is the last one that does.
Touches(m, k) == IsPrefix(k, m.key)
Touched(s, k) == \E i \in 1..Len(s) : Touches(s[i], k)
LastTouch(s, k, i) == Touches(s[i], k) /\ \A j \in i + 1..Len(s) : ~Touches(s[j], k)

\* The last message about k, if it is about k itself, tells the value w.
Tells(s, k, w) ==
  \A i \in 1..Len(s) : LastTouch(s, k, i) /\ s[i].key = k => Same(s[i].val, w)

\* What is in the cache for k, or on the way into it, is the value w.
Shows(c, k, w) ==
  /\ k \in DOMAIN cache[c] => Same(cache[c][k], w)
  /\ thread[c].op = "store" /\ thread[c].key = k /\ thread[c].late = FALSE
       => Same(thread[c].val, w)
  /\ thread[c].op = "set" /\ thread[c].key = k => Same(thread[c].val, w)

\* When all messages have arrived node c has the right value for k.
Right(c, k) ==
  /\ Tells(tasks[c], k, Get(parameters, k))
  /\ ~Touched(tasks[c], k) => Shows(c, k, Get(parameters, k))

FreshInv ==
  \A c \in registered : \A k \in subscribed[c] \ astray[c] :
    Subscribing(c, k) \/ Coming(c, k) \/ Right(c, k)

IInv == MasterInv /\ HolderInv /\ ThreadInv /\ NodeInv /\ FreshInv

-----------------------------------------------------------------------------
(* The steps.                                                              *)

\* What the record of a call holds, by its kind.
LEMMA CallKinds ==
    ASSUME NEW t \in Calls
    PROVE  /\ t.op \in {"idle", "deleting", "subscribe", "get", "del", "set", "store"}
           /\ t.op \in {"subscribe", "get", "del", "set", "store"} => t.key \in Keys
           /\ t.op = "set" => t.val \in Trees
           /\ t.op = "store" => t \in Stores
  BY DEF Calls, Stores

\* Nobody has subscribed and nothing is set.
LEMMA InitInv == Init => IInv
  <1> SUFFICES ASSUME Init  PROVE IInv
    OBVIOUS
  <1> USE DEF Init
  <1>1. MasterInv
    <2>1. <<>> \in Seq(Clients) /\ Held(<<>>) = {} /\ NoRepeats(<<>>)
        BY EmptySeq DEF Held, NoRepeats
    <2>2. 0 \in 0..MaxSets  BY ParamAssumption
    <2>3. QED  BY <2>1, <2>2, EmptyTree DEF MasterInv
  <1>2. HolderInv
    <2>1. <<>> \in Seq(Update) /\ Len(<<>>) = 0  BY EmptySeq
    <2>2. QED  BY <2>1 DEF HolderInv, NoCall
  <1>3. ThreadInv  BY DEF ThreadInv, Idle, Calls
  <1>4. NodeInv
    <2>1. <<>> \in Seq(Message) /\ DOMAIN <<>> = {}  BY EmptySeq
    <2>2. QED  BY <2>1 DEF NodeInv
  <1>5. FreshInv  BY DEF FreshInv
  <1>6. QED  BY <1>1, <1>2, <1>3, <1>4, <1>5 DEF IInv

\* What a step leaves alone stays right.
LEMMA RightKept ==
    ASSUME NEW c, NEW k, Right(c, k), tasks'[c] = tasks[c],
           Get(parameters', k) = Get(parameters, k),
           k \in DOMAIN cache'[c] => k \in DOMAIN cache[c] /\ cache'[c][k] = cache[c][k],
           thread'[c] = thread[c] \/ thread'[c].op \notin {"store", "set"}
    PROVE  Right(c, k)'
  BY DEF Right, Shows

\* Who is still to be told depends on the announcement and the lists.
LEMMA ComingKept ==
    ASSUME NEW c, NEW k, holder' = holder, subscribers' = subscribers
    PROVE  Coming(c, k)' <=> Coming(c, k)
  BY DEF Coming, Told

\* Nobody is to be told while the lock is free.
LEMMA NobodyComing ==
    ASSUME NEW c, NEW k, HolderInv, holder.by = None
    PROVE  ~Coming(c, k)
  <1>1. Len(holder.todo) = 0  BY EmptySeq DEF HolderInv
  <1>2. QED  BY <1>1 DEF Coming

\* release: every subscriber has been told.
LEMMA StepRelease == IInv /\ release => IInv'
  <1> SUFFICES ASSUME IInv, release  PROVE IInv'
    OBVIOUS
  <1> USE DEF IInv, release
  <1>1. MasterInv'  BY DEF MasterInv, IsDict
  <1>2. HolderInv'
    <2>1. <<>> \in Seq(Update) /\ Len(<<>>) = 0  BY EmptySeq
    <2>2. QED  BY <2>1 DEF HolderInv, NoCall
  <1>3. ThreadInv'  BY DEF ThreadInv
  <1>4. NodeInv'  BY DEF NodeInv, Subscribing
  <1>5. FreshInv'
    <2> SUFFICES ASSUME NEW c \in registered, NEW k \in subscribed[c] \ astray[c]
                 PROVE  Subscribing(c, k)' \/ Right(c, k)'
      BY DEF FreshInv
    <2>1. ~Coming(c, k)  BY EmptySeq DEF Coming
    <2>2. Subscribing(c, k) => Subscribing(c, k)'  BY DEF Subscribing
    <2>3. Right(c, k) => Right(c, k)'  BY RightKept
    <2>4. QED  BY <2>1, <2>2, <2>3 DEF FreshInv
  <1>6. QED  BY <1>1, <1>2, <1>3, <1>4, <1>5

\* del_returns: the thread is free again.
LEMMA StepDelReturns == ASSUME NEW c \in Clients  PROVE IInv /\ del_returns(c) => IInv'
  <1> SUFFICES ASSUME IInv, del_returns(c)  PROVE IInv'
    OBVIOUS
  <1> USE DEF IInv, del_returns, NodeLeaves, ThreadTo
  <1>1. MasterInv'  BY DEF MasterInv, IsDict
  <1>2. HolderInv'  BY DEF HolderInv
  <1>t. /\ thread' \in [Clients -> Calls] /\ thread'[c].op = "idle" /\ thread[c].op = "deleting"
        /\ \A d \in Clients : d # c => thread'[d] = thread[d]
    BY DEF ThreadInv, Idle, Calls
  <1>3. ThreadInv'  BY <1>t DEF ThreadInv
  <1>4. NodeInv'  BY <1>t DEF NodeInv, Subscribing
  <1>5. FreshInv'
    <2> SUFFICES ASSUME NEW d \in registered, NEW k \in subscribed[d] \ astray[d]
                 PROVE  Subscribing(d, k)' \/ Coming(d, k)' \/ Right(d, k)'
      BY DEF FreshInv
    <2>0. d \in Clients  BY DEF MasterInv
    <2>1. Coming(d, k) => Coming(d, k)'  BY ComingKept
    <2>2. Subscribing(d, k) => Subscribing(d, k)'  BY <1>t, <2>0 DEF Subscribing
    <2>3. Right(d, k) => Right(d, k)'  BY <1>t, <2>0, RightKept
    <2>4. QED  BY <2>1, <2>2, <2>3 DEF FreshInv
  <1>6. QED  BY <1>1, <1>2, <1>3, <1>4, <1>5

\* getCached: a key that is new to the node is being subscribed to.
LEMMA StepGetCached ==
    ASSUME NEW c \in Clients, NEW key \in Keys  PROVE IInv /\ getCached(c, key) => IInv'
  <1> SUFFICES ASSUME IInv, getCached(c, key)  PROVE IInv'
    OBVIOUS
  <1> USE DEF IInv, getCached, NodeLeaves, ThreadTo
  <1>1. MasterInv'  BY DEF MasterInv, IsDict
  <1>2. HolderInv'  BY DEF HolderInv
  <1>t. /\ thread' \in [Clients -> Calls] /\ thread[c].op = "idle"
        /\ thread'[c].op \in {"get", "subscribe"} /\ thread'[c].key = key
        /\ thread'[c].op = "get" <=> key \in subscribed[c]
        /\ \A d \in Clients : d # c => thread'[d] = thread[d]
    BY DEF ThreadInv, Idle, Calls
  <1>s. /\ subscribed' \in [Clients -> SUBSET Keys]
        /\ subscribed'[c] = subscribed[c] \cup {key}
        /\ \A d \in Clients : d # c => subscribed'[d] = subscribed[d]
    BY DEF NodeInv
  <1>u. key \notin DOMAIN cache[c] \/ key \in subscribed[c]  BY DEF NodeInv
  <1>3. ThreadInv'  BY <1>t, <1>s, <1>u DEF ThreadInv
  <1>4. NodeInv'
    <2>1. ASSUME NEW d \in registered, NEW k \in subscribed'[d]
          PROVE  d \in Held(subscribers[k]) \/ Subscribing(d, k)'
      <3>1. d \in Clients  BY DEF MasterInv
      <3>2. CASE k \in subscribed[d]  BY <1>t, <3>1, <3>2 DEF NodeInv, Subscribing
      <3>3. CASE k \notin subscribed[d]  BY <1>t, <1>s, <3>1, <3>3 DEF Subscribing
      <3>4. QED  BY <3>2, <3>3
    <2>2. ASSUME NEW d \in Clients  PROVE DOMAIN cache[d] \subseteq subscribed'[d]
      BY <1>s DEF NodeInv
    <2>3. QED  BY <1>s, <2>1, <2>2 DEF NodeInv
  <1>5. FreshInv'
    <2> SUFFICES ASSUME NEW d \in registered, NEW k \in subscribed'[d] \ astray[d]
                 PROVE  Subscribing(d, k)' \/ Coming(d, k)' \/ Right(d, k)'
      BY DEF FreshInv
    <2>0. d \in Clients  BY DEF MasterInv
    <2>1. Coming(d, k) => Coming(d, k)'  BY ComingKept
    <2>2. Subscribing(d, k) => Subscribing(d, k)'  BY <1>t, <2>0 DEF Subscribing
    <2>3. Right(d, k) => Right(d, k)'  BY <1>t, <2>0, RightKept
    <2>4. CASE k \in subscribed[d]  BY <2>1, <2>2, <2>3, <2>4 DEF FreshInv
    <2>5. CASE k \notin subscribed[d]
      <3>1. d = c /\ k = key  BY <1>s, <2>0, <2>5
      <3>2. QED  BY <1>t, <2>5, <3>1 DEF Subscribing
    <2>6. QED  BY <2>4, <2>5
  <1>6. QED  BY <1>1, <1>2, <1>3, <1>4, <1>5

\* getParam: the answer is the value of this moment.
LEMMA StepGetParam == ASSUME NEW c \in Clients  PROVE IInv /\ getParam(c) => IInv'
  <1> SUFFICES ASSUME IInv, getParam(c)  PROVE IInv'
    OBVIOUS
  <1> USE DEF IInv, getParam, NodeLeaves, ThreadTo
  <1>1. MasterInv'  BY DEF MasterInv, IsDict
  <1>2. HolderInv'  BY DEF HolderInv
  <1> DEFINE key == thread[c].key
  <1>k. key \in Keys /\ key \in subscribed[c]  BY CallKinds DEF ThreadInv
  <1>v. get_param(key) = Get(parameters, key) /\ get_param(key) \in Trees \cup {None}
    <2>1. key \in Name  BY <1>k, KeyNames
    <2>2. key \in DOMAIN parameters => at(parameters, key) \in Trees
        BY <2>1, PartOfTree DEF MasterInv
    <2>3. QED  BY <2>2, GetIs DEF Get
  <1>w. [op |-> "store", key |-> key, val |-> get_param(key), late |-> FALSE] \in Stores
    BY <1>k, <1>v DEF Stores
  <1>t. /\ thread' \in [Clients -> Calls] /\ thread[c].op = "get"
        /\ thread'[c].op = "store" /\ thread'[c].key = key
        /\ thread'[c].val = Get(parameters, key)
        /\ \A d \in Clients : d # c => thread'[d] = thread[d]
    BY <1>v, <1>w DEF ThreadInv, Calls
  <1> HIDE DEF key
  <1>3. ThreadInv'  BY <1>t, <1>k DEF ThreadInv
  <1>4. NodeInv'  BY <1>t DEF NodeInv, Subscribing
  <1>5. FreshInv'
    <2> SUFFICES ASSUME NEW d \in registered, NEW k \in subscribed[d] \ astray[d]
                 PROVE  Subscribing(d, k)' \/ Right(d, k)'
      BY DEF FreshInv
    <2>0. d \in Clients  BY DEF MasterInv
    <2>1. ~Coming(d, k)  BY NobodyComing
    <2>2. Subscribing(d, k) => Subscribing(d, k)'  BY <1>t, <2>0 DEF Subscribing
    <2>3. d # c /\ Right(d, k) => Right(d, k)'  BY <1>t, <2>0, RightKept
    <2>4. d = c /\ Right(d, k) => Right(d, k)'
      <3> SUFFICES ASSUME d = c, Right(d, k)  PROVE Right(d, k)'
        OBVIOUS
      <3>1. Shows(d, k, Get(parameters, k)) => Shows(d, k, Get(parameters, k))'
        BY <1>t DEF Shows, Same
      <3>2. QED  BY <3>1 DEF Right
    <2>5. QED  BY <2>1, <2>2, <2>3, <2>4 DEF FreshInv
  <1>6. QED  BY <1>1, <1>2, <1>3, <1>4, <1>5

\* store: an answer that is not late is as good as the value it is stored for.
LEMMA StepStore == ASSUME NEW c \in Clients  PROVE IInv /\ store(c) => IInv'
  <1> SUFFICES ASSUME IInv, store(c)  PROVE IInv'
    OBVIOUS
  <1> USE DEF IInv, store, NodeLeaves, ThreadTo
  <1>1. MasterInv'  BY DEF MasterInv, IsDict
  <1>2. HolderInv'  BY DEF HolderInv
  <1> DEFINE t == thread[c]
  <1>k. t \in Stores /\ t.key \in Keys /\ t.key \in subscribed[c]  BY CallKinds DEF ThreadInv
  <1>t. /\ thread' \in [Clients -> Calls] /\ t.op = "store" /\ thread'[c].op = "idle"
        /\ \A d \in Clients : d # c => thread'[d] = thread[d]
    BY DEF ThreadInv, Idle, Calls
  <1>c. /\ DOMAIN cache' = Clients
        /\ \A d \in Clients : d # c => cache'[d] = cache[d]
        /\ DOMAIN cache'[c] = DOMAIN cache[c] \cup {t.key}
        /\ cache'[c][t.key] = t.val
        /\ \A j \in DOMAIN cache[c] : j # t.key => cache'[c][j] = cache[c][j]
    BY DEF NodeInv, With
  <1>a. /\ astray' \in [Clients -> SUBSET Keys] /\ \A d \in Clients : astray[d] \subseteq astray'[d]
        /\ t.late => t.key \in astray'[c]
    BY <1>k DEF NodeInv
  <1>v. t.val \in Trees \cup {None} /\ t.late \in BOOLEAN  BY <1>k DEF Stores
  <1>h. UNCHANGED <<tasks, parameters, subscribed, subscribers, holder, registered>>  OBVIOUS
  <1> HIDE DEF t
  <1>3. ThreadInv'  BY <1>t, <1>c DEF ThreadInv
  <1>4. NodeInv'
    <2>1. ASSUME NEW d \in Clients
          PROVE  /\ DOMAIN cache'[d] \subseteq subscribed'[d]
                 /\ \A k \in DOMAIN cache'[d] : cache'[d][k] \in Trees \cup {None}
      <3>1. CASE d = c  BY <1>k, <1>c, <1>v, <3>1 DEF NodeInv
      <3>2. CASE d # c  BY <1>c, <3>2 DEF NodeInv
      <3>3. QED  BY <3>1, <3>2
    <2>2. QED  BY <1>t, <1>a, <1>c, <2>1 DEF NodeInv, Subscribing, t
  <1>5. FreshInv'
    <2> SUFFICES ASSUME NEW d \in registered, NEW k \in subscribed[d] \ astray'[d]
                 PROVE  Subscribing(d, k)' \/ Coming(d, k)' \/ Right(d, k)'
      BY DEF FreshInv
    <2>0. d \in Clients /\ k \notin astray[d]  BY <1>a DEF MasterInv
    <2>1. Coming(d, k) => Coming(d, k)'  BY ComingKept
    <2>2. Subscribing(d, k) => Subscribing(d, k)'  BY <1>t, <2>0 DEF Subscribing, t
    <2>3. d # c /\ Right(d, k) => Right(d, k)'  BY <1>t, <1>c, <2>0, RightKept
    <2>4. d = c /\ Right(d, k) => Right(d, k)'
      <3> SUFFICES ASSUME d = c, Right(d, k)  PROVE Right(d, k)'
        OBVIOUS
      <3>1. k = t.key => t.late = FALSE  BY <1>a, <1>v
      <3>2. Shows(c, k, Get(parameters, k)) => Shows(c, k, Get(parameters, k))'
        BY <1>t, <1>c, <3>1, <1>h DEF Shows, t
      <3>3. QED  BY <3>2, <1>h DEF Right
    <2>5. QED  BY <2>0, <2>1, <2>2, <2>3, <2>4 DEF FreshInv
  <1>6. QED  BY <1>1, <1>2, <1>3, <1>4, <1>5

\* subscribe_param: what the node will read is newer than every message that is
\* not about a key below, or the key is astray.
LEMMA StepSubscribe == ASSUME NEW c \in Clients  PROVE IInv /\ subscribe_param(c) => IInv'
  <1> SUFFICES ASSUME IInv, subscribe_param(c)  PROVE IInv'
    OBVIOUS
  <1> USE DEF IInv, subscribe_param, NodeLeaves, ThreadTo
  <1> DEFINE key == thread[c].key
  <1>k. key \in Keys /\ key \in subscribed[c] /\ key \notin DOMAIN cache[c]
    BY CallKinds DEF ThreadInv
  <1>s. /\ subscribers' \in [Keys -> Seq(Clients)]
        /\ \A k \in Keys : NoRepeats(subscribers'[k]) /\ Held(subscribers'[k]) \subseteq registered
        /\ \A k \in Keys : Held(subscribers[k]) \subseteq Held(subscribers'[k])
        /\ c \in registered => c \in Held(subscribers'[key])
    <2> DEFINE s == subscribers[key]
    <2>1. s \in Seq(Clients) /\ NoRepeats(s) /\ Held(s) \subseteq registered  BY <1>k DEF MasterInv
    <2>2. DOMAIN s = 1..Len(s)  BY <2>1, LenProperties
    <2>3. Contains(s, c) <=> c \in Held(s)  BY <2>1, <2>2 DEF Contains, Held
    <2> HIDE DEF s
    <2>4. CASE c \in registered /\ ~Contains(s, c)
      <3>1. Append(s, c) \in Seq(Clients) /\ Held(Append(s, c)) = Held(s) \cup {c}
        BY <2>1, HeldAppend
      <3>2. NoRepeats(Append(s, c))  BY <2>1, <2>3, <2>4, AppendNoRepeats
      <3>3. subscribers' = [subscribers EXCEPT ![key] = Append(s, c)]  BY <2>4 DEF s
      <3>4. \A k \in Keys : subscribers'[k] = IF k = key THEN Append(s, c) ELSE subscribers[k]
        BY <3>3, <1>k DEF MasterInv
      <3>5. QED  BY <1>k, <2>1, <2>4, <3>1, <3>2, <3>3, <3>4 DEF MasterInv, s
    <2>5. CASE ~(c \in registered /\ ~Contains(s, c))
      <3>1. subscribers' = subscribers  BY <2>5 DEF s
      <3>2. QED  BY <2>3, <2>5, <3>1 DEF MasterInv, s
    <2>6. QED  BY <2>4, <2>5
  <1>1. MasterInv'  BY <1>s DEF MasterInv, IsDict
  <1>2. HolderInv'  BY DEF HolderInv
  <1>t. /\ thread' \in [Clients -> Calls] /\ thread[c].op = "subscribe"
        /\ thread'[c].op = "get" /\ thread'[c].key = key
        /\ \A d \in Clients : d # c => thread'[d] = thread[d]
    BY <1>k DEF ThreadInv, Calls
  <1>a. /\ astray' \in [Clients -> SUBSET Keys] /\ \A d \in Clients : astray[d] \subseteq astray'[d]
        /\ key \notin astray'[c] => \A i \in DOMAIN tasks[c] : tasks[c][i].key # key
    BY <1>k DEF NodeInv
  <1>h. UNCHANGED <<tasks, parameters, subscribed, cache, holder, registered>>  OBVIOUS
  <1>3. ThreadInv'  BY <1>t, <1>k DEF ThreadInv
  <1>4. NodeInv'
    <2>1. ASSUME NEW d \in registered, NEW k \in subscribed[d]
          PROVE  d \in Held(subscribers'[k]) \/ Subscribing(d, k)'
      <3>1. d \in Clients /\ k \in Keys  BY DEF MasterInv, NodeInv
      <3>2. CASE Subscribing(d, k)  BY <1>t, <1>s, <3>1, <3>2 DEF Subscribing
      <3>3. CASE ~Subscribing(d, k)  BY <1>s, <3>1, <3>3 DEF NodeInv
      <3>4. QED  BY <3>2, <3>3
    <2>2. QED  BY <1>a, <1>h, <2>1 DEF NodeInv
  <1>5. FreshInv'
    <2> SUFFICES ASSUME NEW d \in registered, NEW k \in subscribed[d] \ astray'[d]
                 PROVE  Subscribing(d, k)' \/ Right(d, k)'
      BY DEF FreshInv
    <2>0. d \in Clients /\ k \notin astray[d]  BY <1>a DEF MasterInv
    <2>1. ~Coming(d, k)  BY NobodyComing
    <2>2. CASE d = c /\ k = key
      <3>1. tasks[c] \in Seq(Message) /\ DOMAIN tasks[c] = 1..Len(tasks[c])
        BY LenProperties DEF NodeInv
      <3>2. Tells(tasks[c], k, Get(parameters, k))  BY <1>a, <2>2, <3>1 DEF Tells
      <3>3. Shows(c, k, Get(parameters, k))'  BY <1>k, <1>t, <1>h, <2>2 DEF Shows
      <3>4. QED  BY <1>h, <2>2, <3>2, <3>3 DEF Right
    <2>3. CASE ~(d = c /\ k = key)
      <3>1. Subscribing(d, k) => Subscribing(d, k)'  BY <1>t, <2>0, <2>3 DEF Subscribing
      <3>2. Right(d, k) => Right(d, k)'  BY <1>t, <1>h, <2>0, RightKept
      <3>3. QED  BY <2>0, <2>1, <3>1, <3>2 DEF FreshInv
    <2>4. QED  BY <2>2, <2>3
  <1>6. QED  BY <1>1, <1>2, <1>3, <1>4, <1>5

\* What stored leaves in a node's cache.
LEMMA StoredIs ==
    ASSUME NEW c \in Clients, NEW key, NEW v, NEW s, s = stored(c, key, v),
           DOMAIN cache[c] \subseteq subscribed[c]
    PROVE  /\ DOMAIN s \subseteq subscribed[c]
           /\ \A k \in DOMAIN s : /\ ~IsStrictPrefix(k, key)
                                  /\ k = key => s[k] = v
                                  /\ k # key => k \in DOMAIN cache[c] /\ s[k] = cache[c][k]
  <1> DEFINE f == IF key \in subscribed[c] THEN With(cache[c], key, v) ELSE cache[c]
  <1>1. s = Without(f, parents(c, key))  BY DEF stored
  <1>2. /\ DOMAIN f \subseteq subscribed[c]
        /\ \A k \in DOMAIN f : /\ k = key => f[k] = v
                               /\ k # key => k \in DOMAIN cache[c] /\ f[k] = cache[c][k]
    BY DEF With
  <1> HIDE DEF f
  <1>3. DOMAIN s = DOMAIN f \ parents(c, key) /\ \A k \in DOMAIN s : s[k] = f[k]
    BY <1>1 DEF Without
  <1>4. QED  BY <1>2, <1>3 DEF parents

\* set_returns: the node keeps the value it has set.
LEMMA StepSetReturns == ASSUME NEW c \in Clients  PROVE IInv /\ set_returns(c) => IInv'
  <1> SUFFICES ASSUME IInv, set_returns(c)  PROVE IInv'
    OBVIOUS
  <1> USE DEF IInv, set_returns, NodeLeaves, ThreadTo
  <1>1. MasterInv'  BY DEF MasterInv, IsDict
  <1>2. HolderInv'  BY DEF HolderInv
  <1> DEFINE t == thread[c]
  <1>k. t.key \in Keys /\ t.val \in Trees  BY CallKinds DEF ThreadInv
  <1>t. /\ thread' \in [Clients -> Calls] /\ t.op = "set" /\ thread'[c].op = "idle"
        /\ \A d \in Clients : d # c => thread'[d] = thread[d]
    BY DEF ThreadInv, Idle, Calls
  <1>b. /\ DOMAIN cache' = Clients /\ cache'[c] = stored(c, t.key, t.val)
        /\ \A d \in Clients : d # c => cache'[d] = cache[d]
    BY DEF NodeInv
  <1>c. /\ DOMAIN cache'[c] \subseteq subscribed[c]
        /\ \A k \in DOMAIN cache'[c] :
             /\ k = t.key => cache'[c][k] = t.val
             /\ k # t.key => k \in DOMAIN cache[c] /\ cache'[c][k] = cache[c][k]
    BY <1>b, StoredIs DEF NodeInv
  <1>h. UNCHANGED <<tasks, parameters, subscribed, subscribers, holder, registered, astray>>
      OBVIOUS
  <1> HIDE DEF t
  <1>3. ThreadInv'  BY <1>t DEF ThreadInv
  <1>4. NodeInv'
    <2>1. ASSUME NEW d \in Clients
          PROVE  /\ DOMAIN cache'[d] \subseteq subscribed'[d]
                 /\ \A k \in DOMAIN cache'[d] : cache'[d][k] \in Trees \cup {None}
      <3>1. CASE d = c  BY <1>k, <1>c, <1>h, <3>1 DEF NodeInv
      <3>2. CASE d # c  BY <1>b, <1>h, <3>2 DEF NodeInv
      <3>3. QED  BY <3>1, <3>2
    <2>2. QED  BY <1>t, <1>b, <1>h, <2>1 DEF NodeInv, Subscribing, t
  <1>5. FreshInv'
    <2> SUFFICES ASSUME NEW d \in registered, NEW k \in subscribed[d] \ astray[d]
                 PROVE  Subscribing(d, k)' \/ Coming(d, k)' \/ Right(d, k)'
      BY <1>h DEF FreshInv
    <2>0. d \in Clients  BY DEF MasterInv
    <2>1. Coming(d, k) => Coming(d, k)'  BY ComingKept
    <2>2. Subscribing(d, k) => Subscribing(d, k)'  BY <1>t, <2>0 DEF Subscribing, t
    <2>3. d # c /\ Right(d, k) => Right(d, k)'  BY <1>t, <1>b, <2>0, RightKept
    <2>4. d = c /\ Right(d, k) => Right(d, k)'
      <3> SUFFICES ASSUME d = c, Right(d, k)  PROVE Right(d, k)'
        OBVIOUS
      <3>1. Shows(c, k, Get(parameters, k)) => Shows(c, k, Get(parameters, k))'
        BY <1>t, <1>c, <1>h DEF Shows, t
      <3>2. QED  BY <3>1, <1>h DEF Right
    <2>5. QED  BY <2>0, <2>1, <2>2, <2>3, <2>4 DEF FreshInv
  <1>6. QED  BY <1>1, <1>2, <1>3, <1>4, <1>5

\* del: the node forgets the key.
LEMMA StepDel ==
    ASSUME NEW c \in Clients, NEW key \in Keys  PROVE IInv /\ del(c, key) => IInv'
  <1> SUFFICES ASSUME IInv, del(c, key)  PROVE IInv'
    OBVIOUS
  <1> USE DEF IInv, del, NodeLeaves, ThreadTo, Request
  <1>1. MasterInv'
    <2>1. sets' \in 0..MaxSets  BY ParamAssumption DEF MasterInv
    <2>2. QED  BY <2>1 DEF MasterInv, IsDict
  <1>2. HolderInv'  BY DEF HolderInv
  <1>t. /\ thread' \in [Clients -> Calls] /\ thread[c].op = "idle" /\ thread'[c].op = "del"
        /\ \A d \in Clients : d # c => thread'[d] = thread[d]
    BY DEF ThreadInv, Idle, Calls
  <1>c. /\ DOMAIN cache' = Clients /\ subscribed' \in [Clients -> SUBSET Keys]
        /\ subscribed'[c] = subscribed[c] \ {key}
        /\ DOMAIN cache'[c] = DOMAIN cache[c] \ {key}
        /\ \A k \in DOMAIN cache'[c] : cache'[c][k] = cache[c][k]
        /\ \A d \in Clients : d # c => cache'[d] = cache[d] /\ subscribed'[d] = subscribed[d]
    BY DEF NodeInv, Without
  <1>h. UNCHANGED <<tasks, parameters, subscribers, holder, registered, astray>>  OBVIOUS
  <1>3. ThreadInv'  BY <1>t, <1>c DEF ThreadInv
  <1>4. NodeInv'
    <2>1. ASSUME NEW d \in Clients
          PROVE  /\ DOMAIN cache'[d] \subseteq subscribed'[d]
                 /\ \A k \in DOMAIN cache'[d] : cache'[d][k] \in Trees \cup {None}
      <3>1. CASE d = c  BY <1>c, <3>1 DEF NodeInv
      <3>2. CASE d # c  BY <1>c, <3>2 DEF NodeInv
      <3>3. QED  BY <3>1, <3>2
    <2>2. ASSUME NEW d \in registered, NEW k \in subscribed'[d]
          PROVE  d \in Held(subscribers[k]) \/ Subscribing(d, k)'
      <3>1. d \in Clients /\ k \in subscribed[d]  BY <1>c DEF MasterInv
      <3>2. QED  BY <1>t, <3>1 DEF NodeInv, Subscribing
    <2>3. QED  BY <1>c, <1>h, <2>1, <2>2 DEF NodeInv
  <1>5. FreshInv'
    <2> SUFFICES ASSUME NEW d \in registered, NEW k \in subscribed'[d] \ astray[d]
                 PROVE  Subscribing(d, k)' \/ Coming(d, k)' \/ Right(d, k)'
      BY <1>h DEF FreshInv
    <2>0. d \in Clients /\ k \in subscribed[d]  BY <1>c DEF MasterInv
    <2>1. Coming(d, k) => Coming(d, k)'  BY ComingKept
    <2>2. Subscribing(d, k) => Subscribing(d, k)'  BY <1>t, <2>0 DEF Subscribing
    <2>3. Right(d, k) => Right(d, k)'
      <3>1. k \in DOMAIN cache'[d] => k \in DOMAIN cache[d] /\ cache'[d][k] = cache[d][k]
        BY <1>c, <2>0
      <3>2. thread'[d] = thread[d] \/ thread'[d].op \notin {"store", "set"}  BY <1>t, <2>0
      <3>3. QED  BY <1>h, <3>1, <3>2, RightKept
    <2>5. QED  BY <2>0, <2>1, <2>2, <2>3 DEF FreshInv
  <1>6. QED  BY <1>1, <1>2, <1>3, <1>4, <1>5

\* A tail has the other elements, one place further to the front.
LEMMA TailParts ==
    ASSUME NEW S, NEW s \in Seq(S), s # <<>>
    PROVE  /\ Tail(s) \in Seq(S) /\ Len(s) \in Nat \ {0} /\ Len(Tail(s)) = Len(s) - 1
           /\ \A i \in 1..Len(s) - 1 : Tail(s)[i] = s[i + 1]
           /\ Head(s) = s[1] /\ s[1] \in S
  <1>1. Len(s) \in Nat \ {0}  BY EmptySeq, LenProperties
  <1>2. Tail(s) \in Seq(S) /\ Len(Tail(s)) = Len(s) - 1
        /\ \A i \in 1..Len(Tail(s)) : Tail(s)[i] = s[i + 1]
    BY HeadTailProperties
  <1>3. Head(s) = s[1] /\ Head(s) \in S  BY HeadTailProperties
  <1>4. QED  BY <1>1, <1>2, <1>3

\* update: the node takes the first message.
LEMMA StepUpdate == ASSUME NEW c \in Clients  PROVE IInv /\ update(c) => IInv'
  <1> SUFFICES ASSUME IInv, update(c)  PROVE IInv'
    OBVIOUS
  <1> USE DEF IInv, masterVars
  <1> DEFINE t == thread[c]
             s == tasks[c]
             u == Head(s)
  <1>1. MasterInv'  BY DEF MasterInv, IsDict, update
  <1>2. HolderInv'  BY DEF HolderInv, update
  <1>s. /\ s \in Seq(Message) /\ u \in Message /\ u = s[1] /\ Len(s) \in Nat \ {0}
        /\ Tail(s) \in Seq(Message) /\ Len(Tail(s)) = Len(s) - 1
        /\ \A i \in 1..Len(s) - 1 : Tail(s)[i] = s[i + 1]
    <2>1. s \in Seq(Message) /\ s # <<>>  BY DEF NodeInv, update
    <2>2. QED  BY <2>1, TailParts
  <1>u. u.key \in Keys /\ u.val \in Trees  BY <1>s DEF Message
  <1>q. /\ tasks' \in [Clients -> Seq(Message)] /\ tasks'[c] = Tail(s)
        /\ \A d \in Clients : d # c => tasks'[d] = tasks[d]
    BY <1>s DEF NodeInv, update
  <1>t. /\ thread' \in [Clients -> Calls] /\ t.op \notin {"set", "subscribe"}
        /\ thread'[c].op = t.op
        /\ t.op \in {"get", "store", "del"} => thread'[c].key = t.key
        /\ t.op = "store" => thread'[c].val = t.val
        /\ t.op = "store" /\ thread'[c].late = FALSE => t.late = FALSE /\ ~IsPrefix(t.key, u.key)
        /\ \A d \in Clients : d # c => thread'[d] = thread[d]
    <2>1. t \in Calls /\ thread \in [Clients -> Calls]  BY DEF ThreadInv
    <2>2. CASE t.op = "store" /\ IsPrefix(t.key, u.key)
      <3>1. t \in Stores  BY <2>1, <2>2, CallKinds
      <3>2. thread' = [thread EXCEPT ![c].late = TRUE]  BY <2>2 DEF update
      <3>3. /\ thread'[c] = [t EXCEPT !.late = TRUE]
            /\ \A d \in Clients : d # c => thread'[d] = thread[d]
        BY <2>1, <3>2
      <3>4. /\ thread'[c] \in Stores /\ thread'[c].op = t.op /\ thread'[c].key = t.key
            /\ thread'[c].val = t.val /\ thread'[c].late = TRUE
        BY <3>1, <3>3 DEF Stores
      <3>5. thread' \in [Clients -> Calls]  BY <2>1, <3>2, <3>3, <3>4 DEF Calls
      <3>6. QED  BY <2>2, <3>3, <3>4, <3>5
    <2>3. CASE ~(t.op = "store" /\ IsPrefix(t.key, u.key))
      <3>1. thread' = thread  BY <2>3 DEF update
      <3>2. QED  BY <2>1, <2>3, <3>1 DEF update
    <2>4. QED  BY <2>2, <2>3
  <1>b. /\ DOMAIN cache' = Clients /\ cache'[c] = stored(c, u.key, u.val)
        /\ \A d \in Clients : d # c => cache'[d] = cache[d]
    BY DEF NodeInv, update
  <1>c. /\ DOMAIN cache'[c] \subseteq subscribed[c]
        /\ \A k \in DOMAIN cache'[c] :
             /\ ~IsStrictPrefix(k, u.key)
             /\ k = u.key => cache'[c][k] = u.val
             /\ k # u.key => k \in DOMAIN cache[c] /\ cache'[c][k] = cache[c][k]
    BY <1>b, StoredIs DEF NodeInv
  <1>h. UNCHANGED <<parameters, subscribed, subscribers, holder, registered, astray>>  BY DEF update
  <1>k. t.op \in {"get", "store"} => t.key \in subscribed[c]  BY DEF ThreadInv
  <1> HIDE DEF t, s, u
  <1>3. ThreadInv'
    <2>1. ASSUME NEW d \in Clients
          PROVE  /\ thread'[d].op \in {"subscribe", "get", "store"} => thread'[d].key \in subscribed'[d]
                 /\ thread'[d].op = "subscribe" => thread'[d].key \notin DOMAIN cache'[d]
      <3>1. CASE d = c  BY <1>t, <1>k, <1>h, <3>1
      <3>2. CASE d # c  BY <1>t, <1>b, <1>h, <3>2 DEF ThreadInv
      <3>3. QED  BY <3>1, <3>2
    <2>2. QED  BY <1>t, <2>1 DEF ThreadInv
  <1>4. NodeInv'
    <2>1. ASSUME NEW d \in Clients
          PROVE  /\ DOMAIN cache'[d] \subseteq subscribed'[d]
                 /\ \A k \in DOMAIN cache'[d] : cache'[d][k] \in Trees \cup {None}
      <3>1. CASE d = c  BY <1>u, <1>c, <1>h, <3>1 DEF NodeInv
      <3>2. CASE d # c  BY <1>b, <1>h, <3>2 DEF NodeInv
      <3>3. QED  BY <3>1, <3>2
    <2>2. ASSUME NEW d \in registered, NEW k \in subscribed[d]
          PROVE  d \in Held(subscribers[k]) \/ Subscribing(d, k)'
      <3>1. d \in Clients  BY DEF MasterInv
      <3>2. Subscribing(d, k) => Subscribing(d, k)'  BY <1>t, <3>1 DEF Subscribing, t
      <3>3. QED  BY <3>2 DEF NodeInv
    <2>3. QED  BY <1>q, <1>b, <1>h, <2>1, <2>2 DEF NodeInv
  <1>5. FreshInv'
    <2> SUFFICES ASSUME NEW d \in registered, NEW k \in subscribed[d] \ astray[d]
                 PROVE  Subscribing(d, k)' \/ Coming(d, k)' \/ Right(d, k)'
      BY <1>h DEF FreshInv
    <2>0. d \in Clients  BY DEF MasterInv
    <2>1. Coming(d, k) => Coming(d, k)'  BY <1>h, ComingKept
    <2>2. Subscribing(d, k) => Subscribing(d, k)'  BY <1>t, <2>0 DEF Subscribing, t
    <2>3. d # c /\ Right(d, k) => Right(d, k)'  BY <1>t, <1>b, <1>q, <1>h, <2>0, RightKept
    <2>4. ASSUME d = c, Right(c, k)  PROVE Right(c, k)'
      <3> DEFINE w == Get(parameters, k)
      <3>1. Tells(s, k, w) /\ (~Touched(s, k) => Shows(c, k, w))  BY <2>4 DEF Right, s
      <3>2. w' = w  BY <1>h
      <3> HIDE DEF w
      <3>3. Tells(Tail(s), k, w)
        <4> SUFFICES ASSUME NEW i \in 1..Len(s) - 1, LastTouch(Tail(s), k, i), Tail(s)[i].key = k
                     PROVE  Same(Tail(s)[i].val, w)
          BY <1>s DEF Tells
        <4>1. i + 1 \in 1..Len(s) /\ Tail(s)[i] = s[i + 1]  BY <1>s
        <4>2. ASSUME NEW j \in (i + 1) + 1..Len(s)  PROVE ~Touches(s[j], k)
          <5>1. j - 1 \in i + 1..Len(s) - 1 /\ j - 1 \in 1..Len(s) - 1 /\ (j - 1) + 1 = j  BY <1>s
          <5>2. ~Touches(Tail(s)[j - 1], k) /\ Tail(s)[j - 1] = s[j]
            BY <1>s, <5>1 DEF LastTouch
          <5>3. QED  BY <5>2
        <4>3. LastTouch(s, k, i + 1)  BY <4>1, <4>2 DEF LastTouch
        <4>4. QED  BY <3>1, <4>1, <4>3 DEF Tells
      <3>4. ASSUME ~Touched(Tail(s), k)  PROVE Shows(c, k, w)'
        <4>1. ASSUME NEW j \in 2..Len(s)  PROVE ~Touches(s[j], k)
          <5>1. j - 1 \in 1..Len(s) - 1 /\ (j - 1) + 1 = j  BY <1>s
          <5>2. ~Touches(Tail(s)[j - 1], k) /\ Tail(s)[j - 1] = s[j]
            BY <1>s, <3>4, <5>1 DEF Touched
          <5>3. QED  BY <5>2
        <4>2. CASE Touches(u, k)
          <5>1. LastTouch(s, k, 1) /\ 1 \in 1..Len(s)  BY <1>s, <4>1, <4>2 DEF LastTouch
          <5>2. u.key = k => Same(u.val, w)  BY <1>s, <3>1, <5>1 DEF Tells
          <5>3. k \in DOMAIN cache'[c] => k = u.key
            BY <1>c, <4>2 DEF Touches, IsStrictPrefix
          <5>4. ~(t.op = "store" /\ t.key = k /\ thread'[c].late = FALSE)
            BY <1>t, <4>2 DEF Touches
          <5>5. QED  BY <1>t, <1>c, <3>2, <5>2, <5>3, <5>4 DEF Shows
        <4>3. CASE ~Touches(u, k)
          <5>1. ~Touched(s, k)
            <6>1. ASSUME NEW i \in 1..Len(s)  PROVE ~Touches(s[i], k)
              <7>1. i = 1 \/ i \in 2..Len(s)  BY <1>s
              <7>2. QED  BY <1>s, <4>1, <4>3, <7>1
            <6>2. QED  BY <6>1 DEF Touched
          <5>2. Shows(c, k, w)  BY <3>1, <5>1
          <5>3. k # u.key
            <6>1. k \in Name  BY <2>0, KeyNames DEF NodeInv
            <6>2. IsPrefix(k, k)  BY <6>1, PrefixOrder
            <6>3. QED  BY <4>3, <6>2 DEF Touches
          <5>4. QED  BY <1>t, <1>c, <3>2, <5>2, <5>3 DEF Shows, t
        <4>4. QED  BY <4>2, <4>3
      <3>5. QED  BY <1>q, <3>2, <3>3, <3>4 DEF Right, w
    <2>5. QED  BY <2>0, <2>1, <2>2, <2>3, <2>4 DEF FreshInv
  <1>6. QED  BY <1>1, <1>2, <1>3, <1>4, <1>5

\* A message that tells the newest value makes its key right and spoils no other.
LEMMA MessageArrives ==
    ASSUME NEW c \in Clients, NEW k \in Keys, NEW m \in Message, NEW s \in Seq(Message), NEW w,
           m.key = k => Same(m.val, w)
    PROVE  /\ Tells(s, k, w) \/ Touches(m, k) => Tells(Append(s, m), k, w)
           /\ Touched(Append(s, m), k) <=> Touched(s, k) \/ Touches(m, k)
  <1> DEFINE r == Append(s, m)
             n == Len(s)
  <1>1. /\ n \in Nat /\ Len(r) = n + 1 /\ r[n + 1] = m /\ \A i \in 1..n : r[i] = s[i]
    BY LenProperties, AppendProperties
  <1> HIDE DEF r, n
  <1>2. ASSUME Tells(s, k, w) \/ Touches(m, k), NEW i \in 1..Len(r), LastTouch(r, k, i), r[i].key = k
        PROVE  Same(r[i].val, w)
    <2>1. CASE i = n + 1  BY <1>1, <1>2, <2>1
    <2>2. CASE i \in 1..n
      <3>1. n + 1 \in i + 1..Len(r)  BY <1>1, <2>2
      <3>2. ~Touches(m, k)  BY <1>1, <1>2, <3>1 DEF LastTouch
      <3>3. ASSUME NEW j \in i + 1..n  PROVE ~Touches(s[j], k)
        <4>1. j \in 1..n /\ j \in i + 1..Len(r)  BY <1>1, <2>2
        <4>2. QED  BY <1>1, <1>2, <4>1 DEF LastTouch
      <3>4. LastTouch(s, k, i)  BY <1>1, <1>2, <2>2, <3>3 DEF LastTouch, n
      <3>5. QED  BY <1>1, <1>2, <2>2, <3>2, <3>4 DEF Tells, n
    <2>3. QED  BY <1>1, <2>1, <2>2
  <1>3. Touched(r, k) <=> Touched(s, k) \/ Touches(m, k)
    <2>1. ASSUME Touched(r, k)  PROVE Touched(s, k) \/ Touches(m, k)
      <3>1. PICK i \in 1..n + 1 : Touches(r[i], k)  BY <1>1, <2>1 DEF Touched
      <3>2. CASE i = n + 1  BY <1>1, <3>1, <3>2
      <3>3. CASE i \in 1..n  BY <1>1, <3>1, <3>3 DEF Touched, n
      <3>4. QED  BY <1>1, <3>2, <3>3
    <2>2. ASSUME Touched(s, k)  PROVE Touched(r, k)
      <3>1. PICK i \in 1..n : Touches(s[i], k)  BY <2>2 DEF Touched, n
      <3>2. i \in 1..Len(r) /\ r[i] = s[i]  BY <1>1
      <3>3. QED  BY <3>1, <3>2 DEF Touched
    <2>3. ASSUME Touches(m, k)  PROVE Touched(r, k)
      <3>1. n + 1 \in 1..Len(r)  BY <1>1
      <3>2. QED  BY <1>1, <2>3, <3>1 DEF Touched
    <2>4. QED  BY <2>1, <2>2, <2>3
  <1>4. QED  BY <1>2, <1>3 DEF Tells, r

\* notify_param_subscribers: one subscriber is told, the others are still to be.
LEMMA StepNotify == IInv /\ notify_param_subscribers => IInv'
  <1> SUFFICES ASSUME IInv, notify_param_subscribers  PROVE IInv'
    OBVIOUS
  <1> USE DEF IInv
  <1> DEFINE todo == holder.todo
             u == Head(todo)
             list == subscribers[u.sub]
             h == holder.i
             c == list[h]
             m == [key |-> u.key, val |-> u.val]
  <1>1. MasterInv'  BY DEF MasterInv, IsDict, notify_param_subscribers
  <1>s. /\ todo \in Seq(Update) /\ u \in Update /\ u = todo[1] /\ Len(todo) \in Nat \ {0}
        /\ Tail(todo) \in Seq(Update) /\ Len(Tail(todo)) = Len(todo) - 1
        /\ \A i \in 1..Len(todo) - 1 : Tail(todo)[i] = todo[i + 1]
    <2>1. todo \in Seq(Update) /\ todo # <<>>  BY DEF HolderInv, notify_param_subscribers
    <2>2. QED  BY <2>1, TailParts
  <1>u. u.sub \in Keys /\ u.key \in Keys /\ u.val \in Trees /\ m \in Message
    BY <1>s DEF Update, Message
  <1>l. list \in Seq(Clients) /\ Len(list) \in Nat /\ \A i \in 1..Len(list) : list[i] \in Clients
    BY <1>u, LenProperties, ElementOfSeq DEF MasterInv
  <1>h. h \in Nat \ {0} /\ holder = [todo |-> todo, i |-> h, by |-> holder.by]
    BY DEF HolderInv
  <1>w. IsPrefix(u.sub, u.key) /\ Same(u.val, Get(parameters, u.key))
    BY <1>s DEF HolderInv
  <1>n. holder' = IF h >= Len(list) THEN [todo |-> Tail(todo), i |-> 1, by |-> holder.by]
                  ELSE [todo |-> todo, i |-> h + 1, by |-> holder.by]
    <2>1. holder' = IF h >= Len(list) THEN [holder EXCEPT !.todo = Tail(@), !.i = 1]
                    ELSE [holder EXCEPT !.i = @ + 1]
      BY DEF notify_param_subscribers
    <2> HIDE DEF todo, h, list
    <2>2. [holder EXCEPT !.todo = Tail(@), !.i = 1] = [todo |-> Tail(todo), i |-> 1, by |-> holder.by]
      <3> DEFINE x == Tail(todo)
      <3>1. Tail(holder.todo) = x  BY <1>h
      <3> HIDE DEF x
      <3>2. [holder EXCEPT !.todo = x, !.i = 1] = [todo |-> x, i |-> 1, by |-> holder.by]
        <4> DEFINE r == [holder EXCEPT !.todo = x, !.i = 1]
        <4>1. DOMAIN holder = {"todo", "i", "by"}  BY <1>h
        <4>2. r = [f \in {"todo", "i", "by"} |->
                     IF f = "i" THEN 1 ELSE IF f = "todo" THEN x ELSE holder[f]]
          BY <4>1
        <4>3. QED  BY <4>2
      <3>3. [holder EXCEPT !.todo = Tail(@), !.i = 1] = [holder EXCEPT !.todo = x, !.i = 1]
        BY <3>1
      <3>4. QED  BY <3>2, <3>3 DEF x
    <2>3. [holder EXCEPT !.i = @ + 1] = [todo |-> todo, i |-> h + 1, by |-> holder.by]  BY <1>h
    <2>4. QED  BY <2>1, <2>2, <2>3
  <1>q. IF h > Len(list) THEN UNCHANGED <<tasks, astray>>
        ELSE /\ tasks' = [tasks EXCEPT ![c] = Append(@, m)]
             /\ astray' = [astray EXCEPT ![c] = @ \ {u.sub}]
    BY DEF notify_param_subscribers
  <1>x. UNCHANGED <<parameters, subscribers, registered, subscribed, cache, thread, sets>>
    BY DEF notify_param_subscribers
  <1>y. holder.by # None  BY DEF notify_param_subscribers
  <1> HIDE DEF todo, u, list, h, c, m
  <1>2. HolderInv'
    <2>1. CASE h >= Len(list)
      <3>1. holder' = [todo |-> Tail(todo), i |-> 1, by |-> holder.by]  BY <1>n, <2>1
      <3>2. ASSUME NEW j \in 1..Len(todo) - 1
            PROVE  /\ IsPrefix(Tail(todo)[j].sub, Tail(todo)[j].key)
                   /\ Same(Tail(todo)[j].val, Get(parameters, Tail(todo)[j].key))
        <4>1. j + 1 \in 1..Len(todo) /\ Tail(todo)[j] = todo[j + 1]  BY <1>s
        <4>2. QED  BY <4>1 DEF HolderInv, todo
      <3>3. QED  BY <1>s, <1>x, <1>y, <3>1, <3>2 DEF HolderInv
    <2>2. CASE ~(h >= Len(list))
      <3>1. holder' = [todo |-> todo, i |-> h + 1, by |-> holder.by]  BY <1>n, <2>2
      <3>2. QED  BY <1>s, <1>h, <1>x, <1>y, <3>1 DEF HolderInv, todo
    <2>3. QED  BY <2>1, <2>2
  <1>3. ThreadInv'  BY <1>x DEF ThreadInv
  <1>t. /\ tasks' \in [Clients -> Seq(Message)] /\ astray' \in [Clients -> SUBSET Keys]
        /\ \A d \in Clients : h > Len(list) \/ d # c => tasks'[d] = tasks[d] /\ astray'[d] = astray[d]
        /\ h <= Len(list) => /\ c \in Clients /\ tasks'[c] = Append(tasks[c], m)
                             /\ astray'[c] = astray[c] \ {u.sub}
    <2>1. CASE h > Len(list)  BY <1>l, <1>h, <1>q, <2>1 DEF NodeInv
    <2>2. CASE ~(h > Len(list))
      <3>1. c \in Clients  BY <1>l, <1>h, <2>2 DEF c
      <3>2. Append(tasks[c], m) \in Seq(Message)  BY <1>u, <3>1, AppendProperties DEF NodeInv
      <3>3. /\ tasks' = [tasks EXCEPT ![c] = Append(tasks[c], m)]
            /\ astray' = [astray EXCEPT ![c] = astray[c] \ {u.sub}]
        BY <1>q, <2>2
      <3>4. tasks \in [Clients -> Seq(Message)] /\ astray \in [Clients -> SUBSET Keys]
          BY DEF NodeInv
      <3>5. QED  BY <2>2, <3>1, <3>2, <3>3, <3>4
    <2>3. QED  BY <2>1, <2>2
  <1>4. NodeInv'
    <2>1. ASSUME NEW d \in registered, NEW k \in subscribed[d]
          PROVE  d \in Held(subscribers[k]) \/ Subscribing(d, k)'
      BY <1>x DEF NodeInv, Subscribing
    <2>2. QED  BY <1>t, <1>x, <2>1 DEF NodeInv
  <1>5. FreshInv'
    <2> SUFFICES ASSUME NEW d \in registered, NEW k \in subscribed[d] \ astray'[d]
                 PROVE  Subscribing(d, k)' \/ Coming(d, k)' \/ Right(d, k)'
      BY <1>x DEF FreshInv
    <2>0. d \in Clients /\ k \in Keys  BY DEF MasterInv, NodeInv
    <2>1. ASSUME Coming(d, k), ~(h <= Len(list) /\ d = c /\ k = u.sub)  PROVE Coming(d, k)'
      <3>1. PICK j \in 1..Len(todo) : todo[j].sub = k /\ Told(d, j)  BY <2>1 DEF Coming, todo
      <3> DEFINE l == subscribers[todo[j].sub]
      <3>2. PICK i \in 1..Len(l) : l[i] = d /\ (j = 1 => h <= i)
        BY <3>1 DEF Told, todo, h
      <3>3. todo[j] \in Update  BY <1>s, <3>1, ElementOfSeq
      <3>4. l \in Seq(Clients) /\ Len(l) \in Nat  BY <3>3, LenProperties DEF Update, MasterInv
      <3>5. CASE j = 1
        <4>1. l = list /\ k = u.sub  BY <1>s, <3>1, <3>5 DEF list
        <4>2. h <= Len(list) /\ d # c  BY <1>h, <1>l, <2>1, <3>2, <3>5, <4>1
        <4>3. h # i  BY <3>2, <4>1, <4>2 DEF c
        <4>4. h + 1 <= i /\ h < Len(list)  BY <1>h, <1>l, <3>2, <3>5, <4>1, <4>3
        <4>5. holder' = [todo |-> todo, i |-> h + 1, by |-> holder.by]  BY <1>n, <1>h, <1>l, <4>4
        <4>6. Told(d, 1)'  BY <1>x, <3>2, <3>5, <4>4, <4>5 DEF Told
        <4>7. QED  BY <1>s, <3>1, <3>5, <4>5, <4>6 DEF Coming
      <3>6. CASE j # 1
        <4>1. CASE h >= Len(list)
          <5>1. holder' = [todo |-> Tail(todo), i |-> 1, by |-> holder.by]  BY <1>n, <4>1
          <5>2. j - 1 \in 1..Len(todo) - 1 /\ (j - 1) + 1 = j  BY <1>s, <3>6
          <5>3. Tail(todo)[j - 1] = todo[j]  BY <1>s, <5>2
          <5>4. Told(d, j - 1)'
            <6>1. holder'.todo[j - 1] = todo[j] /\ holder'.i = 1 /\ subscribers' = subscribers
              BY <1>x, <5>1, <5>3
            <6>2. holder'.i <= i  BY <3>4, <6>1
            <6>3. QED  BY <3>2, <6>1, <6>2 DEF Told
          <5>5. QED  BY <1>s, <3>1, <5>1, <5>2, <5>3, <5>4 DEF Coming
        <4>2. CASE ~(h >= Len(list))
          <5>1. holder' = [todo |-> todo, i |-> h + 1, by |-> holder.by]  BY <1>n, <4>2
          <5>2. Told(d, j)'  BY <1>x, <3>2, <3>6, <5>1 DEF Told
          <5>3. QED  BY <3>1, <5>1, <5>2 DEF Coming
        <4>3. QED  BY <4>1, <4>2
      <3>7. QED  BY <3>5, <3>6
    <2>2. Subscribing(d, k) => Subscribing(d, k)'  BY <1>x DEF Subscribing
    <2>3. CASE ~(h <= Len(list) /\ d = c)
      <3>1. tasks'[d] = tasks[d] /\ astray'[d] = astray[d]  BY <1>h, <1>l, <1>t, <2>0, <2>3
      <3>2. Right(d, k) => Right(d, k)'  BY <1>x, <3>1, RightKept
      <3>3. QED  BY <2>1, <2>2, <2>3, <3>1, <3>2 DEF FreshInv
    <2>4. CASE h <= Len(list) /\ d = c
      <3> DEFINE w == Get(parameters, k)
      <3>1. m \in Message /\ tasks[d] \in Seq(Message) /\ m.key = u.key /\ m.val = u.val
        BY <1>u, <2>0 DEF NodeInv, m
      <3>2. m.key = k => Same(m.val, w)  BY <1>w, <3>1
      <3> HIDE DEF w
      <3>3. /\ Tells(tasks[d], k, w) \/ Touches(m, k) => Tells(tasks'[d], k, w)
            /\ Touched(tasks'[d], k) <=> Touched(tasks[d], k) \/ Touches(m, k)
        <4>1. tasks'[d] = Append(tasks[d], m)  BY <1>t, <2>4
        <4>2. /\ Tells(tasks[d], k, w) \/ Touches(m, k) => Tells(Append(tasks[d], m), k, w)
              /\ Touched(Append(tasks[d], m), k) <=> Touched(tasks[d], k) \/ Touches(m, k)
          BY <2>0, <3>1, <3>2, MessageArrives
        <4>3. QED  BY <4>1, <4>2, Zenon
      <3>4. w' = w /\ (Shows(d, k, w) => Shows(d, k, w)')  BY <1>x DEF w, Shows
      <3>5. CASE k = u.sub
        <4>1. Touches(m, k)  BY <1>w, <3>1, <3>5 DEF Touches
        <4>2. QED  BY <3>3, <3>4, <4>1 DEF Right, w
      <3>6. CASE k # u.sub
        <4>1. k \notin astray[d]  BY <1>t, <2>4, <3>6
        <4>2. Right(d, k) => Right(d, k)'  BY <3>3, <3>4 DEF Right, w
        <4>3. QED  BY <2>1, <2>2, <3>6, <4>1, <4>2 DEF FreshInv
      <3>7. QED  BY <3>5, <3>6
    <2>5. QED  BY <2>3, <2>4
  <1>6. QED  BY <1>1, <1>2, <1>3, <1>4, <1>5

\* unregister_all: the lists shrink, and whoever is passed over is astray.
LEMMA StepUnregister == ASSUME NEW e \in Clients  PROVE IInv /\ unregister_all(e) => IInv'
  <1> SUFFICES ASSUME IInv, unregister_all(e)  PROVE IInv'
    OBVIOUS
  <1> USE DEF IInv
  <1> DEFINE keep == Clients \ {e}
             todo == holder.todo
             u == Head(todo)
             list == subscribers[u.sub]
             h == holder.i
             skips == /\ holder.by # None /\ todo # <<>> /\ h \in DOMAIN list
                      /\ \E j \in 1..(h - 1) : list[j] = e
  <1>u. /\ registered' = registered \ {e}
        /\ subscribers' = [k \in Keys |-> Filter(subscribers[k], keep)]
        /\ astray' = IF skips THEN [astray EXCEPT ![list[h]] = @ \cup {u.sub}] ELSE astray
        /\ UNCHANGED <<parameters, holder, tasks, subscribed, cache, thread, sets>>
    BY DEF unregister_all
  <1>s. ASSUME NEW k \in Keys
        PROVE  /\ subscribers'[k] = Filter(subscribers[k], keep)
               /\ subscribers'[k] \in Seq(Clients) /\ NoRepeats(subscribers'[k])
               /\ Held(subscribers'[k]) = Held(subscribers[k]) \cap keep
    BY <1>u, FilterMembers, FilterNoRepeats DEF MasterInv
  <1>h. holder.todo = todo /\ holder.i = h /\ h \in Nat \ {0} /\ todo \in Seq(Update)
        /\ Len(todo) \in Nat /\ (holder.by = None => todo = <<>>)
    BY LenProperties DEF HolderInv
  <1>a. /\ astray' \in [Clients -> SUBSET Keys]
        /\ \A d \in Clients : astray[d] \subseteq astray'[d]
        /\ skips => u.sub \in astray'[list[h]]
    <2>1. CASE skips
      <3>1. u \in Update  BY <1>h, <2>1, TailParts
      <3>2. u.sub \in Keys /\ list \in Seq(Clients)  BY <3>1 DEF Update, MasterInv
      <3>3. list[h] \in Clients  BY <2>1, <3>2, ElementOfSeq, LenProperties
      <3>4. astray' = [astray EXCEPT ![list[h]] = @ \cup {u.sub}]  BY <1>u, <2>1
      <3> HIDE DEF list, u
      <3>5. QED  BY <3>2, <3>3, <3>4 DEF NodeInv
    <2>2. CASE ~skips
      <3> HIDE DEF skips
      <3>1. QED  BY <1>u, <2>2 DEF NodeInv
    <2>3. QED  BY <2>1, <2>2
  <1>d. registered \subseteq Clients  BY DEF MasterInv
  <1> HIDE DEF todo, u, list, h, skips
  <1>1. MasterInv'
    <2>1. \A k \in Keys : Held(subscribers'[k]) \subseteq registered'  BY <1>s, <1>u DEF MasterInv
    <2>2. subscribers' \in [Keys -> Seq(Clients)]  BY <1>s, <1>u
    <2>3. QED  BY <1>s, <1>u, <1>d, <2>1, <2>2 DEF MasterInv, IsDict
  <1>2. HolderInv'  BY <1>u DEF HolderInv
  <1>3. ThreadInv'  BY <1>u DEF ThreadInv
  <1>4. NodeInv'
    <2>1. ASSUME NEW d \in registered', NEW k \in subscribed[d]
          PROVE  d \in Held(subscribers'[k]) \/ Subscribing(d, k)'
      <3>1. d \in registered /\ d \in keep /\ k \in Keys  BY <1>u, <1>d DEF NodeInv
      <3>2. d \in Held(subscribers[k]) \/ Subscribing(d, k)  BY <3>1 DEF NodeInv
      <3>3. QED  BY <1>u, <1>s, <3>1, <3>2 DEF Subscribing
    <2>2. QED  BY <1>a, <1>u, <2>1 DEF NodeInv
  <1>5. FreshInv'
    <2> SUFFICES ASSUME NEW d \in registered', NEW k \in subscribed[d] \ astray'[d]
                 PROVE  Subscribing(d, k)' \/ Coming(d, k)' \/ Right(d, k)'
      BY <1>u DEF FreshInv
    <2>0. d \in registered /\ d \in Clients /\ d # e /\ k \notin astray[d] /\ k \in Keys
      BY <1>u, <1>d, <1>a DEF NodeInv
    <2>1. Subscribing(d, k) => Subscribing(d, k)'  BY <1>u DEF Subscribing
    <2>2. Right(d, k) => Right(d, k)'  BY <1>u, RightKept
    <2>3. ASSUME Coming(d, k)  PROVE Coming(d, k)'
      <3>1. PICK j \in 1..Len(todo) : todo[j].sub = k /\ Told(d, j)
        BY <1>h, <2>3 DEF Coming
      <3> DEFINE l == subscribers[k]
                 r == subscribers'[k]
      <3>2. PICK i \in 1..Len(l) : l[i] = d /\ (j = 1 => h <= i)
        BY <1>h, <3>1 DEF Told
      <3>3. l \in Seq(Clients) /\ NoRepeats(l) /\ Len(l) \in Nat /\ DOMAIN l = 1..Len(l)
        BY <2>0, LenProperties DEF MasterInv
      <3> DEFINE p == i - Gone(l, e, i)
      <3>4. p \in 1..Len(r) /\ r[p] = d
        <4>1. r = Filter(l, keep)  BY <1>s, <2>0
        <4>2. QED  BY <2>0, <3>2, <3>3, <4>1, RemovedPlaces
      <3>5. j = 1 => h <= p
        <4> SUFFICES ASSUME j = 1, ~(h <= p)  PROVE FALSE
          OBVIOUS
        <4>1. Gone(l, e, i) = 1 /\ h = i  BY <1>h, <3>2, <3>3 DEF Gone
        <4>2. PICK q \in 1..i : l[q] = e  BY <4>1 DEF Gone
        <4>3. q # i  BY <2>0, <3>2, <4>2
        <4>4. q \in 1..(h - 1)  BY <3>3, <4>1, <4>3
        <4>5. todo # <<>>  BY <1>h, <3>1, EmptySeq
        <4>6. u = todo[1]  BY <1>h, <4>5, TailParts DEF u
        <4>7. u.sub = k /\ list = l  BY <3>1, <4>6 DEF list
        <4>8. skips  BY <1>h, <3>2, <3>3, <4>1, <4>2, <4>4, <4>5, <4>7 DEF skips
        <4>9. k \in astray'[d]  BY <1>a, <3>2, <4>1, <4>7, <4>8
        <4>10. QED  BY <4>9
      <3> HIDE DEF p
      <3>6. Told(d, j)'
        <4>1. holder'.todo = todo /\ holder'.i = h  BY <1>u, <1>h
        <4>2. QED  BY <3>1, <3>4, <3>5, <4>1 DEF Told
      <3>7. QED  BY <1>u, <1>h, <3>1, <3>6 DEF Coming
    <2>4. QED  BY <2>0, <2>1, <2>2, <2>3 DEF FreshInv
  <1>6. QED  BY <1>1, <1>2, <1>3, <1>4, <1>5

\* A parameter changes: what it is known to be told of, and what stays the same.
Changes(key, new, v) ==
  /\ new \in Trees /\ IsDict(new)
  /\ \A k \in Name : /\ IsPrefix(key, k) => Same(Get(new, k), Get(v, Below(k, key)))
                     /\ ~IsPrefix(key, k) /\ ~IsPrefix(k, key) => Get(new, k) = Get(parameters, k)

\* {} and no value are the same, which is no more than that.
LEMMA SameTrans ==
    ASSUME NEW x, NEW y, NEW z, Same(x, y), Same(z, y)  PROVE Same(x, z)
  BY DEF Same

\* A change, by a node whose thread then waits for its end: everyone who
\* subscribes to the key, a key above or, for a dictionary, below is told.
LEMMA StepChange ==
    ASSUME NEW c \in Clients, NEW key \in Keys, NEW v \in Trees, NEW new, IInv,
           Changes(key, new, v), Change(c, key, new, v),
           thread' \in [Clients -> Calls], thread'[c].op \in {"set", "deleting"},
           thread[c].op # "subscribe",
           \A d \in Clients : d # c => thread'[d] = thread[d],
           thread'[c].op = "set" => thread'[c].key = key /\ thread'[c].val = v,
           sets' \in 0..MaxSets
    PROVE  IInv'
  <1> USE DEF IInv
  <1>1. PICK w \in compute_param_updates(key, v) : holder' = [todo |-> w, i |-> 1, by |-> c]
    BY DEF Change
  <1>h. /\ parameters' = new /\ holder.by = None
        /\ astray' = [d \in Clients |-> astray[d] \cup shadowed(d, key, v)]
        /\ UNCHANGED <<subscribers, registered, tasks, subscribed, cache>>
    BY DEF Change
  <1>k. key \in Name  BY KeyNames
  <1>2. MasterInv'  BY <1>h DEF MasterInv, Changes, IsDict
  <1>u. /\ w \in Seq(Update)
        /\ \A j \in 1..Len(w) : /\ IsPrefix(w[j].sub, w[j].key) /\ IsPrefix(key, w[j].key)
                                /\ Same(w[j].val, Get(v, Below(w[j].key, key)))
        /\ \A k \in Listening :
             IsPrefix(k, key) \/ (IsStrictPrefix(key, k) /\ IsDict(v)) =>
               \E j \in 1..Len(w) : w[j].sub = k
    BY <1>1, UpdatesOf DEF MasterInv
  <1>3. HolderInv'
    <2>1. c # None  BY ParamAssumption
    <2>2. ASSUME NEW j \in 1..Len(w)  PROVE Same(w[j].val, Get(new, w[j].key))
      <3>1. w[j] \in Update  BY <1>u, ElementOfSeq
      <3>2. w[j].key \in Name  BY <3>1, KeyNames DEF Update
      <3>3. Same(Get(new, w[j].key), Get(v, Below(w[j].key, key)))  BY <1>u, <3>2 DEF Changes
      <3>4. QED  BY <1>u, <3>3, SameTrans
    <2>3. QED  BY <1>1, <1>u, <1>h, <2>1, <2>2 DEF HolderInv
  <1>4. ThreadInv'  BY <1>h DEF ThreadInv
  <1>a. /\ astray' \in [Clients -> SUBSET Keys]
        /\ \A d \in Clients : astray'[d] = astray[d] \cup shadowed(d, key, v)
    BY <1>h DEF NodeInv, shadowed
  <1>s. ASSUME NEW d \in Clients, NEW k, Subscribing(d, k)  PROVE Subscribing(d, k)'
    BY <1>s DEF Subscribing
  <1>5. NodeInv'
    <2>1. ASSUME NEW d \in registered, NEW k \in subscribed[d]
          PROVE  d \in Held(subscribers[k]) \/ Subscribing(d, k)'
      <3>1. d \in Clients  BY DEF MasterInv
      <3>2. QED  BY <1>s, <3>1 DEF NodeInv
    <2>2. QED  BY <1>a, <1>h, <2>1 DEF NodeInv
  <1>6. FreshInv'
    <2> SUFFICES ASSUME NEW d \in registered, NEW k \in subscribed[d] \ astray'[d]
                 PROVE  Subscribing(d, k)' \/ Coming(d, k)' \/ Right(d, k)'
      BY <1>h DEF FreshInv
    <2>0. d \in Clients /\ k \in Keys /\ k \in Name /\ k \notin astray[d] /\ k \notin shadowed(d, key, v)
      BY <1>a, KeyNames DEF MasterInv, NodeInv
    <2>1. CASE Subscribing(d, k)  BY <1>s, <2>0, <2>1
    <2>2. CASE ~Subscribing(d, k) /\ (IsPrefix(k, key) \/ IsPrefix(key, k))
      <3>1. d \in Held(subscribers[k])  BY <2>2 DEF NodeInv
      <3>2. subscribers[k] \in Seq(Clients) /\ DOMAIN subscribers[k] = 1..Len(subscribers[k])
            /\ Len(subscribers[k]) \in Nat
        BY <2>0, LenProperties DEF MasterInv
      <3>3. PICK i \in 1..Len(subscribers[k]) : subscribers[k][i] = d  BY <3>1, <3>2 DEF Held
      <3>4. k \in Listening
        <4>1. subscribers[k] # <<>>  BY <3>2, <3>3, EmptySeq
        <4>2. QED  BY <2>0, <4>1 DEF Listening
      <3>5. IsPrefix(k, key) \/ (IsStrictPrefix(key, k) /\ IsDict(v))
        BY <2>0, <2>2, <3>2, <3>3 DEF shadowed, IsStrictPrefix
      <3>6. PICK j \in 1..Len(w) : w[j].sub = k  BY <1>u, <3>4, <3>5
      <3>7. holder'.todo = w /\ holder'.i = 1 /\ subscribers' = subscribers  BY <1>1, <1>h
      <3>8. 1 <= i  BY <3>2
      <3>9. Told(d, j)'  BY <3>3, <3>6, <3>7, <3>8 DEF Told
      <3>10. QED  BY <3>6, <3>7, <3>9 DEF Coming
    <2>3. CASE ~Subscribing(d, k) /\ ~IsPrefix(k, key) /\ ~IsPrefix(key, k)
      <3>1. Get(parameters', k) = Get(parameters, k)  BY <1>h, <2>0, <2>3 DEF Changes
      <3>2. ~Coming(d, k)  BY <1>h, NobodyComing
      <3>3. Right(d, k)  BY <2>0, <2>3, <3>2 DEF FreshInv
      <3>4. CASE d # c  BY <1>h, <2>0, <3>1, <3>3, <3>4, RightKept
      <3>5. CASE d = c
        <4>1. k # key  BY <1>k, <2>3, PrefixOrder
        <4>2. Shows(c, k, Get(parameters, k)) => Shows(c, k, Get(parameters, k))'
          BY <1>h, <3>1, <4>1 DEF Shows
        <4>3. QED  BY <1>h, <3>1, <3>3, <3>5, <4>2 DEF Right
      <3>6. QED  BY <3>4, <3>5
    <2>4. QED  BY <2>1, <2>2, <2>3
  <1>7. QED  BY <1>2, <1>3, <1>4, <1>5, <1>6

\* set: the change and the call that waits for it.
LEMMA StepSet ==
    ASSUME NEW c \in Clients, NEW key \in Keys, NEW v \in Values
    PROVE IInv /\ set(c, key, v) => IInv'
  <1> SUFFICES ASSUME IInv, set(c, key, v)  PROVE IInv'
    OBVIOUS
  <1>1. v \in Trees  BY ValueTrees
  <1>2. parameters \in Trees /\ IsDict(parameters)  BY DEF IInv, MasterInv
  <1>3. set_param(key, v) \in Trees /\ IsDict(set_param(key, v))  BY <1>1, <1>2, SetTree
  <1>4. Changes(key, set_param(key, v), v)
    <2>1. \A k \in Name :
             /\ IsPrefix(key, k) => Get(set_param(key, v), k) = Get(v, Below(k, key))
             /\ ~IsPrefix(key, k) /\ ~IsPrefix(k, key) =>
                  Get(set_param(key, v), k) = Get(parameters, k)
      BY <1>1, <1>2, SetEffect
    <2>2. QED  BY <1>3, <2>1 DEF Changes, Same
  <1>5. /\ thread' \in [Clients -> Calls] /\ thread'[c].op = "set" /\ thread[c].op = "idle"
        /\ \A d \in Clients : d # c => thread'[d] = thread[d]
        /\ thread'[c].key = key /\ thread'[c].val = v
    BY <1>1 DEF IInv, ThreadInv, set, ThreadTo, Idle, Calls
  <1>6. sets' \in 0..MaxSets  BY ParamAssumption DEF IInv, MasterInv, set, Request
  <1>7. Change(c, key, set_param(key, v), v)  BY DEF set, setParam
  <1>8. QED  BY <1>1, <1>4, <1>5, <1>6, <1>7, StepChange

\* deleteParam_call: the change, or nothing for a parameter that is not set.
LEMMA StepDelete == ASSUME NEW c \in Clients  PROVE IInv /\ deleteParam_call(c) => IInv'
  <1> SUFFICES ASSUME IInv, deleteParam_call(c)  PROVE IInv'
    OBVIOUS
  <1> DEFINE key == thread[c].key
  <1>1. key \in Keys /\ key \in Name /\ thread[c].op = "del"
    BY CallKinds, KeyNames DEF IInv, ThreadInv, deleteParam_call
  <1>2. parameters \in Trees /\ IsDict(parameters)  BY DEF IInv, MasterInv
  <1>t. /\ thread' \in [Clients -> Calls] /\ thread'[c].op = "deleting"
        /\ \A d \in Clients : d # c => thread'[d] = thread[d]
    BY DEF IInv, ThreadInv, deleteParam_call, ThreadTo, Calls
  <1>s. sets' \in 0..MaxSets /\ sets' = sets  BY DEF IInv, MasterInv, deleteParam_call
  <1>d. deleteParam(c, key)  BY DEF deleteParam_call
  <1> HIDE DEF key
  <1>3. CASE has_param(key) /\ Change(c, key, delete_param(key), Empty)
    <2>1. /\ delete_param(key) \in Trees /\ IsDict(delete_param(key))
          /\ \A k \in Name :
                /\ IsPrefix(key, k) => Get(delete_param(key), k) = None
                /\ ~IsPrefix(key, k) /\ ~IsPrefix(k, key) =>
                     Get(delete_param(key), k) = Get(parameters, k)
      BY <1>1, <1>2, DeleteEffect
    <2>2. Empty \in Trees /\ DOMAIN Empty = {<<>>}  BY EmptyTree
    <2>3. at(Empty, <<>>) = Empty  BY <2>2, WholeTree
    <2>4. \A k \in Name : Same(None, Get(Empty, Below(k, key)))  BY <2>2, <2>3 DEF Get, Same
    <2>5. Changes(key, delete_param(key), Empty)  BY <2>1, <2>4 DEF Changes
    <2>6. QED  BY <1>1, <1>3, <1>t, <1>s, <2>2, <2>5, StepChange
  <1>4. CASE UNCHANGED <<masterVars, tasks, subscribed, cache, astray>>
    <2> USE DEF IInv, masterVars
    <2>1. MasterInv'  BY <1>4, <1>s DEF MasterInv, IsDict
    <2>2. HolderInv'  BY <1>4 DEF HolderInv
    <2>3. ThreadInv'  BY <1>4, <1>t DEF ThreadInv
    <2>4. NodeInv'
      <3>1. ASSUME NEW d \in registered, NEW k \in subscribed[d]
            PROVE  d \in Held(subscribers[k]) \/ Subscribing(d, k)'
        <4>1. d \in Clients  BY DEF MasterInv
        <4>2. Subscribing(d, k) => Subscribing(d, k)'  BY <1>1, <1>t, <4>1 DEF Subscribing
        <4>3. QED  BY <4>2 DEF NodeInv
      <3>2. QED  BY <1>4, <3>1 DEF NodeInv
    <2>5. FreshInv'
      <3> SUFFICES ASSUME NEW d \in registered, NEW k \in subscribed[d] \ astray[d]
                   PROVE  Subscribing(d, k)' \/ Coming(d, k)' \/ Right(d, k)'
        BY <1>4 DEF FreshInv
      <3>0. d \in Clients  BY DEF MasterInv
      <3>1. Coming(d, k) => Coming(d, k)'  BY <1>4, ComingKept
      <3>2. Subscribing(d, k) => Subscribing(d, k)'  BY <1>1, <1>t, <3>0 DEF Subscribing
      <3>3. Right(d, k) => Right(d, k)'  BY <1>4, <1>t, <3>0, RightKept
      <3>4. QED  BY <3>1, <3>2, <3>3 DEF FreshInv
    <2>6. QED  BY <2>1, <2>2, <2>3, <2>4, <2>5
  <1>5. QED  BY <1>d, <1>3, <1>4 DEF deleteParam

-----------------------------------------------------------------------------
(* The theorems.                                                           *)

\* Once a subscribed key is in the cache, nothing about it is on its way and
\* its updates are not lost, the value in the cache is the master's.
LEMMA InvImplies == IInv => CacheCurrent
  <1> SUFFICES ASSUME IInv  PROVE CacheCurrent
    OBVIOUS
  <1> USE DEF IInv
  <1>1. TypeOK
    <2>1. Tree(parameters) /\ IsDict(parameters)  BY TreeSet DEF MasterInv
    <2>2. ASSUME NEW k \in Keys  PROVE ToSet(subscribers[k]) \subseteq registered
      BY DEF MasterInv, Held, ToSet
    <2>3. ASSUME NEW c \in Clients
          PROVE  /\ subscribed[c] \subseteq Keys /\ DOMAIN cache[c] \subseteq Keys
                 /\ \A k \in DOMAIN cache[c] : cache[c][k] = None \/ Tree(cache[c][k])
      BY TreeSet DEF NodeInv
    <2>4. ASSUME NEW c \in Clients, NEW i \in DOMAIN tasks[c]  PROVE Tree(tasks[c][i].val)
      <3>1. tasks[c] \in Seq(Message)  BY DEF NodeInv
      <3>2. tasks[c][i] \in Message  BY <3>1, LenProperties, ElementOfSeq
      <3>3. QED  BY <3>2, TreeSet DEF Message
    <2>5. sets \in 0..MaxSets  BY DEF MasterInv
    <2>6. QED  BY <2>1, <2>2, <2>3, <2>4, <2>5 DEF TypeOK
  <1>2. ASSUME NEW c \in registered, holder.by = None, tasks[c] = <<>>, thread[c] = Idle,
               NEW k \in (subscribed[c] \cap DOMAIN cache[c]) \ astray[c]
        PROVE  Same(cache[c][k], get_param(k))
    <2>1. ~Coming(c, k)  BY <1>2, NobodyComing
    <2>2. ~Subscribing(c, k)  BY <1>2 DEF Subscribing, Idle
    <2>3. Right(c, k)  BY <2>1, <2>2 DEF FreshInv
    <2>4. ~Touched(tasks[c], k)  BY <1>2, EmptySeq DEF Touched
    <2>5. Same(cache[c][k], Get(parameters, k))  BY <2>3, <2>4 DEF Right, Shows
    <2>6. QED  BY <2>5, GetIs
  <1>3. QED  BY <1>1, <1>2 DEF CacheCurrent

\* Every step of the master, a node or a thread keeps the invariant.
LEMMA StepInv == IInv /\ [Next]_vars => IInv'
  <1> SUFFICES ASSUME IInv, [Next]_vars  PROVE IInv'
    OBVIOUS
  <1>1. CASE notify_param_subscribers  BY <1>1, StepNotify
  <1>2. CASE release  BY <1>2, StepRelease
  <1>3. ASSUME NEW c \in Clients, Client(c)  PROVE IInv'
    <2>1. CASE \E key \in Reads[c] : getCached(c, key)
      <3>1. Reads[c] \subseteq Keys  BY ParamAssumption
      <3>2. QED  BY <2>1, <3>1, StepGetCached
    <2>2. CASE \E key \in Keys : del(c, key) \/ \E v \in Values : set(c, key, v)
      BY <2>2, StepDel, StepSet
    <2>3. CASE unregister_all(c)  BY <2>3, StepUnregister
    <2>4. QED  BY <1>3, <2>1, <2>2, <2>3 DEF Client
  <1>4. ASSUME NEW c \in Clients, Progress(c)  PROVE IInv'
    BY <1>4, StepSubscribe, StepGetParam, StepStore, StepSetReturns, StepDelete, StepDelReturns
    DEF Progress
  <1>5. ASSUME NEW c \in Clients, update(c)  PROVE IInv'  BY <1>5, StepUpdate
  <1>6. CASE UNCHANGED vars
    <2> USE <1>6 DEF IInv, vars, masterVars
    <2>1. MasterInv'  BY DEF MasterInv, IsDict
    <2>2. HolderInv'  BY DEF HolderInv
    <2>3. ThreadInv'  BY DEF ThreadInv
    <2>4. NodeInv'  BY DEF NodeInv, Subscribing
    <2>5. FreshInv'
      <3> SUFFICES ASSUME NEW d \in registered, NEW k \in subscribed[d] \ astray[d]
                   PROVE  Subscribing(d, k)' \/ Coming(d, k)' \/ Right(d, k)'
        BY DEF FreshInv
      <3>1. Coming(d, k) => Coming(d, k)'  BY ComingKept
      <3>2. Subscribing(d, k) => Subscribing(d, k)'  BY DEF Subscribing
      <3>3. Right(d, k) => Right(d, k)'  BY RightKept
      <3>4. QED  BY <3>1, <3>2, <3>3 DEF FreshInv
    <2>6. QED  BY <2>1, <2>2, <2>3, <2>4, <2>5
  <1>7. QED  BY <1>1, <1>2, <1>3, <1>4, <1>5, <1>6 DEF Next

\* What the announcements, the messages under way and the caches have in common.
THEOREM InvariantHolds == Spec => []IInv
  BY InitInv, StepInv, PTL DEF Spec

\* getCached is as good as get, for every set of nodes, names and values: see
\* CacheCurrent for the keys that are excepted.
THEOREM CachesAreCurrent == Spec => []CacheCurrent
  BY InvariantHolds, InvImplies, PTL

-----------------------------------------------------------------------------
(* search_param.                                                           *)

\* The namespace that the i-th turn looks in, the first i parts from the end
\* left out, and the turns from the i-th on that find the key.
Here(ns, i) == SubSeq(ns, 1, Len(ns) - i)
Hits(ns, key, i) == {j \in i..Len(ns) : has_param(Append(Here(ns, j), Head(key)))}

\* One turn of the loop, f being what the next ones return.
Turn(f, ns, key, i) ==
  IF has_param(Append(Here(ns, i), Head(key))) THEN Here(ns, i) \o key
  ELSE IF i = Len(ns) THEN None ELSE f[i + 1]

\* The recursion has a solution: every turn returns what the next hit gives.
LEMMA SearchTurns ==
    ASSUME NEW ns \in Name, NEW key
    PROVE  \E f : (\A i \in 0..Len(ns) : f[i] = Turn(f, ns, key, i)) /\ search_param(ns, key) = f[0]
  <1> DEFINE n == Len(ns)
             H(i) == Hits(ns, key, i)
             g == [i \in 0..n |-> IF H(i) = {} THEN None ELSE Here(ns, Min(H(i))) \o key]
             Rec(f) == [i \in 0..n |-> Turn(f, ns, key, i)]
             F == CHOOSE f : f = Rec(f)
  <1>1. n \in Nat  BY LenProperties DEF Name
  <1>2. ASSUME NEW i \in 0..n  PROVE g[i] = Turn(g, ns, key, i)
    <2>1. i \in Nat /\ H(i) \in SUBSET Nat  BY <1>1 DEF Hits
    <2>2. CASE has_param(Append(Here(ns, i), Head(key)))
      <3>1. i \in H(i) /\ \A j \in H(i) : i <= j  BY <1>1, <2>2 DEF Hits
      <3>2. Min(H(i)) \in H(i) /\ \A j \in H(i) : Min(H(i)) <= j  BY <2>1, <3>1, LeastNumber
      <3>3. Min(H(i)) = i  BY <2>1, <3>1, <3>2
      <3>4. QED  BY <2>2, <3>1, <3>3 DEF Turn
    <2>3. CASE ~has_param(Append(Here(ns, i), Head(key))) /\ i = n
      <3>1. H(i) = {}  BY <1>1, <2>3 DEF Hits
      <3>2. QED  BY <2>3, <3>1 DEF Turn
    <2>4. CASE ~has_param(Append(Here(ns, i), Head(key))) /\ i # n
      <3>1. i + 1 \in 0..n  BY <1>1, <2>4
      <3>2. H(i) = H(i + 1)
        <4>1. \A j \in i..n : j = i \/ j \in i + 1..n  BY <1>1
        <4>2. \A j \in i + 1..n : j \in i..n  BY <1>1
        <4>3. QED  BY <2>4, <4>1, <4>2 DEF Hits
      <3>3. QED  BY <2>4, <3>1, <3>2 DEF Turn
    <2>5. QED  BY <2>2, <2>3, <2>4
  <1>3. g = Rec(g)
    <2>1. g = [i \in 0..n |-> g[i]]  OBVIOUS
    <2>2. QED  BY <1>2, <2>1
  <1> HIDE DEF g
  <1>4. F = Rec(F)  BY <1>3
  <1>5. search_param(ns, key) = F[0]  BY DEF search_param, Turn, Here
  <1> HIDE DEF F
  <1>6. \A i \in 0..n : F[i] = Turn(F, ns, key, i)  BY <1>4
  <1>7. QED  BY <1>5, <1>6

\* Prefixes of one name: the shorter one is a prefix of the longer one.
LEMMA HerePrefix ==
    ASSUME NEW ns \in Name, NEW i \in 0..Len(ns), NEW j \in 0..Len(ns), i <= j
    PROVE  IsPrefix(Here(ns, j), Here(ns, i))
  <1>1. Len(ns) \in Nat  BY LenProperties DEF Name
  <1>2. ASSUME NEW l \in 0..Len(ns)
        PROVE  /\ Here(ns, l) \in Name /\ Len(Here(ns, l)) = Len(ns) - l
               /\ \A m \in 1..Len(ns) - l : Here(ns, l)[m] = ns[m]
    <2>1. 1 \in 1..Len(ns) + 1 /\ Len(ns) - l \in 0..Len(ns) /\ 1 <= Len(ns) - l + 1  BY <1>1
    <2>2. /\ Here(ns, l) \in Name /\ Len(Here(ns, l)) = (Len(ns) - l) - 1 + 1
          /\ \A m \in 1..(Len(ns) - l) - 1 + 1 : Here(ns, l)[m] = ns[1 + m - 1]
      BY <2>1, Slice DEF Here
    <2>3. (Len(ns) - l) - 1 + 1 = Len(ns) - l /\ \A m \in 1..Len(ns) - l : 1 + m - 1 = m
      BY <1>1
    <2>4. QED  BY <2>2, <2>3
  <1>3. \A m \in 1..Len(ns) - j : m \in 1..Len(ns) - i  BY <1>1
  <1>4. Len(Here(ns, j)) <= Len(Here(ns, i))  BY <1>1, <1>2
  <1>5. \A m \in 1..Len(Here(ns, j)) : Here(ns, j)[m] = Here(ns, i)[m]  BY <1>2, <1>3
  <1>6. QED  BY <1>2, <1>4, <1>5, PrefixParts

\* A search from any namespace ends at the nearest one that has the key, in
\* every state of the dictionary.
LEMMA SearchNearest == SearchFindsNearest
  <1> SUFFICES ASSUME NEW ns \in Keys, NEW key \in Keys
               PROVE  LET hits == {p \in Prefixes(ns) : has_param(Append(p, Head(key)))} IN
                      IF hits = {} THEN search_param(ns, key) = None
                      ELSE \E p \in hits : /\ search_param(ns, key) = p \o key
                                           /\ \A q \in hits : IsPrefix(q, p)
    BY DEF SearchFindsNearest
  <1> DEFINE hits == {p \in Prefixes(ns) : has_param(Append(p, Head(key)))}
             n == Len(ns)
             H == Hits(ns, key, 0)
  <1>1. ns \in Name /\ n \in Nat  BY KeyNames, LenProperties DEF Name
  <1>2. PICK f : (\A i \in 0..n : f[i] = Turn(f, ns, key, i)) /\ search_param(ns, key) = f[0]
    BY <1>1, SearchTurns
  <1>3. \A p : p \in hits <=> \E i \in H : p = Here(ns, i)
    <2>1. ASSUME NEW l \in 0..n  PROVE n - l \in 0..n /\ SubSeq(ns, 1, l) = Here(ns, n - l)
      BY <1>1 DEF Here
    <2>2. ASSUME NEW i \in 0..n  PROVE n - i \in 0..n /\ Here(ns, i) = SubSeq(ns, 1, n - i)
      BY <1>1 DEF Here
    <2>3. Prefixes(ns) = {SubSeq(ns, 1, l) : l \in 0..n}  BY DEF Prefixes
    <2>4. ASSUME NEW p \in hits  PROVE \E i \in H : p = Here(ns, i)
      <3>1. PICK l \in 0..n : p = SubSeq(ns, 1, l)  BY <2>3
      <3>2. n - l \in H  BY <2>1, <3>1 DEF Hits
      <3>3. QED  BY <2>1, <3>1, <3>2
    <2>5. ASSUME NEW i \in H  PROVE Here(ns, i) \in hits
      <3>1. i \in 0..n /\ has_param(Append(Here(ns, i), Head(key)))  BY DEF Hits
      <3>2. Here(ns, i) \in Prefixes(ns)  BY <2>2, <2>3, <3>1
      <3>3. QED  BY <3>1, <3>2
    <2>6. QED  BY <2>4, <2>5
  <1>4. ASSUME NEW m \in 0..n, \A i \in 0..m - 1 : i \notin H  PROVE f[0] = f[m]
    <2> DEFINE P == {i \in 0..m : f[0] = f[i]}
    <2>1. 0 \in P  BY <1>1
    <2>2. ASSUME NEW i \in 0..m - 1, i \in P  PROVE i + 1 \in P
      <3>1. i \in 0..n /\ i # n /\ i + 1 \in 0..m  BY <1>1
      <3>2. ~has_param(Append(Here(ns, i), Head(key)))  BY <1>4, <3>1 DEF Hits
      <3>3. f[i] = f[i + 1]  BY <1>2, <3>1, <3>2 DEF Turn
      <3>4. QED  BY <2>2, <3>1, <3>3
    <2>3. \A i \in 0..m : i \in P
      <3> HIDE DEF P
      <3>1. m \in Nat  BY <1>1
      <3>2. QED  BY <2>1, <2>2, <3>1, UpTo
    <2>4. m \in 0..m  BY <1>1
    <2>5. QED  BY <2>3, <2>4
  <1> HIDE DEF hits
  <1>5. CASE H = {}
    <2>1. hits = {}  BY <1>3, <1>5
    <2>2. f[0] = f[n] /\ n \in 0..n  BY <1>1, <1>4, <1>5
    <2>3. ~has_param(Append(Here(ns, n), Head(key)))  BY <1>5, <2>2 DEF Hits
    <2>4. f[n] = None  BY <1>2, <2>2, <2>3 DEF Turn
    <2>5. QED  BY <1>2, <2>1, <2>2, <2>4 DEF hits
  <1>6. CASE H # {}
    <2>1. H \in SUBSET Nat  BY <1>1 DEF Hits
    <2>2. PICK m \in H : \A j \in H : m <= j  BY <1>6, <2>1, LeastNumber
    <2>3. m \in 0..n /\ has_param(Append(Here(ns, m), Head(key)))  BY DEF Hits
    <2>4. \A i \in 0..m - 1 : i \notin H  BY <2>1, <2>2
    <2>5. f[0] = f[m]  BY <1>4, <2>3, <2>4
    <2>6. f[m] = Here(ns, m) \o key  BY <1>2, <2>3 DEF Turn
    <2>7. Here(ns, m) \in hits  BY <1>3, <2>2
    <2>8. ASSUME NEW q \in hits  PROVE IsPrefix(q, Here(ns, m))
      <3>1. PICK i \in H : q = Here(ns, i)  BY <1>3
      <3>2. i \in 0..n /\ m <= i  BY <2>2 DEF Hits
      <3>3. QED  BY <1>1, <2>3, <3>1, <3>2, HerePrefix
    <2>9. \E p \in hits : search_param(ns, key) = p \o key /\ \A q \in hits : IsPrefix(q, p)
      BY <1>2, <2>5, <2>6, <2>7, <2>8
    <2>10. QED  BY <2>7, <2>9 DEF hits
  <1>7. QED  BY <1>5, <1>6

\* search_param finds the nearest key, for every set of names and values.
THEOREM SearchIsNearest == Spec => []SearchFindsNearest
  BY SearchNearest, PTL
=============================================================================
