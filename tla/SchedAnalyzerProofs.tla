------------------------ MODULE SchedAnalyzerProofs ------------------------
(***************************************************************************)
(* Proofs about the list scheduler and the node graph it works on, for any *)
(* number of nodes and cores, any file and any run times.                  *)
(*                                                                         *)
(* The schedule first: the slots of a core tile its time, the machine is   *)
(* never idle before the end, and the parts of a node start together.      *)
(* Then the graph: the lists of children hold the publishers, the laxities *)
(* are the longest paths, and both passes come back.  Last the two         *)
(* together: a node starts after its publishers.                           *)
(***************************************************************************)
EXTENDS SchedAnalyzer, ListProofs, FiniteSetTheorems

-----------------------------------------------------------------------------
(* Lists of slots.                                                         *)

SlotType == [node : Nodes \cup {None}, start : Nat, end : Nat]

\* A slot does not end before it starts, and an empty one has a length.
Proper(x) == x.start <= x.end /\ (x.node = None => x.start < x.end)

\* The slots of s follow each other from time a to time b.
Tiles(s, a, b) ==
    /\ s = <<>> => a = b
    /\ s # <<>> => s[1].start = a /\ s[Len(s)].end = b
    /\ \A l \in 1..Len(s) - 1 : s[l + 1].start = s[l].end
    /\ \A l \in 1..Len(s) : Proper(s[l])

\* Some slot of s, or at most one, is a part of node n.
HasNode(s, n) == \E l \in 1..Len(s) : s[l].node = n
HasOnce(s, n) == \A k, l \in 1..Len(s) : s[k].node = n /\ s[l].node = n => k = l

\* Two lists one after the other.
LEMMA TilesConcat ==
    ASSUME NEW s \in Seq(SlotType), NEW t \in Seq(SlotType), NEW a, NEW b, NEW c,
           Tiles(s, a, b), Tiles(t, b, c)
    PROVE  s \o t \in Seq(SlotType) /\ Tiles(s \o t, a, c)
  <1>1. PICK u \in Seq(SlotType) : u = s \o t /\ IsConcat(u, s, t)
    BY ConcatParts
  <1>2. PICK m \in Nat, n \in Nat : m = Len(s) /\ n = Len(t)  BY LenProperties
  <1>3. /\ Len(u) = m + n
        /\ \A i \in 1..m : u[i] = s[i]
        /\ \A i \in 1..n : u[m + i] = t[i]
    BY <1>1, <1>2 DEF IsConcat
  <1>4. (s = <<>> <=> m = 0) /\ (t = <<>> <=> n = 0) /\ (u = <<>> <=> m + n = 0)
    BY <1>2, <1>3, EmptySeq
  <1>5. ASSUME NEW l \in 1..m + n  PROVE Proper(u[l])
    <2>1. CASE l <= m  BY <1>2, <1>3, <2>1 DEF Tiles
    <2>2. CASE l > m
      <3>1. l - m \in 1..n /\ m + (l - m) = l  BY <2>2
      <3>2. u[l] = t[l - m]  BY <1>3, <3>1
      <3>3. QED  BY <1>2, <3>1, <3>2 DEF Tiles
    <2>3. QED  BY <2>1, <2>2
  <1>6. ASSUME NEW l \in 1..(m + n) - 1  PROVE u[l + 1].start = u[l].end
    <2>1. CASE l < m
      <3>1. l \in 1..m - 1 /\ l \in 1..m /\ l + 1 \in 1..m  BY <2>1
      <3>2. QED  BY <1>2, <1>3, <3>1 DEF Tiles
    <2>2. CASE l = m
      <3>1. m >= 1 /\ n >= 1 /\ m # 0 /\ n # 0  BY <2>2
      <3>2. s # <<>> /\ t # <<>>  BY <1>4, <3>1
      <3>3. u[l] = s[m] /\ u[l + 1] = t[1]  BY <1>3, <2>2, <3>1
      <3>4. s[m].end = b /\ t[1].start = b  BY <1>2, <3>2 DEF Tiles
      <3>5. QED  BY <3>3, <3>4
    <2>3. CASE l > m
      <3>1. PICK j \in 1..n - 1 : m + j = l
        <4>1. l - m \in 1..n - 1 /\ m + (l - m) = l  BY <2>3
        <4>2. QED  BY <4>1
      <3>2. j \in 1..n /\ j + 1 \in 1..n /\ m + (j + 1) = l + 1  BY <3>1
      <3>3. u[l] = t[j]  BY <1>3, <3>1, <3>2
      <3>4. u[l + 1] = t[j + 1]  BY <1>3, <3>2
      <3>5. QED  BY <1>2, <3>1, <3>3, <3>4 DEF Tiles
    <2>4. QED  BY <2>1, <2>2, <2>3
  <1>7. u = <<>> => a = c  BY <1>4, <1>2 DEF Tiles
  <1>8. ASSUME u # <<>>  PROVE u[1].start = a /\ u[m + n].end = c
    <2>1. m + n # 0  BY <1>4, <1>8
    <2>2. u[1].start = a
      <3>1. CASE m # 0
        <4>1. u[1] = s[1] /\ s # <<>>  BY <1>3, <1>4, <3>1
        <4>2. QED  BY <4>1 DEF Tiles
      <3>2. CASE m = 0
        <4>1. s = <<>> /\ t # <<>> /\ 1 \in 1..n  BY <1>4, <2>1, <3>2
        <4>2. u[1] = t[1] /\ a = b  BY <1>3, <3>2, <4>1 DEF Tiles
        <4>3. QED  BY <4>1, <4>2 DEF Tiles
      <3>3. QED  BY <3>1, <3>2
    <2>3. u[m + n].end = c
      <3>1. CASE n # 0
        <4>1. u[m + n] = t[n] /\ t # <<>>  BY <1>3, <1>4, <3>1
        <4>2. QED  BY <1>2, <4>1 DEF Tiles
      <3>2. CASE n = 0
        <4>1. t = <<>> /\ s # <<>> /\ m \in 1..m  BY <1>4, <2>1, <3>2
        <4>2. u[m + n] = s[m] /\ b = c  BY <1>3, <3>2, <4>1 DEF Tiles
        <4>3. QED  BY <1>2, <4>1, <4>2 DEF Tiles
      <3>3. QED  BY <3>1, <3>2
    <2>4. QED  BY <2>2, <2>3
  <1>9. Tiles(u, a, c)  BY <1>3, <1>5, <1>6, <1>7, <1>8 DEF Tiles
  <1>10. QED  BY <1>1, <1>9

\* What a list of slots holds when it is put together.
LEMMA NodesConcat ==
    ASSUME NEW s \in Seq(SlotType), NEW t \in Seq(SlotType)
    PROVE  /\ Held(s \o t) = Held(s) \cup Held(t)
           /\ \A n : HasNode(s \o t, n) <=> HasNode(s, n) \/ HasNode(t, n)
           /\ \A n : HasOnce(s, n) /\ HasOnce(t, n) /\ ~(HasNode(s, n) /\ HasNode(t, n))
                       => HasOnce(s \o t, n)
           /\ \A n : HasOnce(s \o t, n) =>
                /\ HasOnce(s, n) /\ HasOnce(t, n) /\ ~(HasNode(s, n) /\ HasNode(t, n))
  <1>1. PICK u \in Seq(SlotType) : u = s \o t /\ IsConcat(u, s, t)
    BY ConcatParts
  <1>2. PICK m \in Nat, n \in Nat :
           /\ m = Len(s) /\ n = Len(t) /\ DOMAIN s = 1..m /\ DOMAIN t = 1..n
    BY LenProperties
  <1>3. /\ Len(u) = m + n /\ DOMAIN u = 1..m + n
        /\ \A i \in 1..m : u[i] = s[i]
        /\ \A i \in 1..n : u[m + i] = t[i]
    BY <1>1, <1>2, LenProperties DEF IsConcat
  <1>4. \A i \in 1..m + n : (i \in 1..m /\ u[i] = s[i]) \/ (i - m \in 1..n /\ u[i] = t[i - m])
    <2>1. SUFFICES ASSUME NEW i \in 1..m + n, i > m  PROVE i - m \in 1..n /\ u[i] = t[i - m]
      BY <1>3
    <2>2. i - m \in 1..n /\ m + (i - m) = i  BY <2>1
    <2>3. QED  BY <1>3, <2>2
  <1>5. (\A i \in 1..m : i \in 1..m + n) /\ (\A i \in 1..n : m + i \in 1..m + n)  OBVIOUS
  <1>6. Held(u) = Held(s) \cup Held(t)
    <2>1. Held(u) \subseteq Held(s) \cup Held(t)
      <3>1. SUFFICES ASSUME NEW i \in 1..m + n  PROVE u[i] \in Held(s) \cup Held(t)
        BY <1>3 DEF Held
      <3>2. CASE i \in 1..m /\ u[i] = s[i]  BY <1>2, <3>2 DEF Held
      <3>3. CASE i - m \in 1..n /\ u[i] = t[i - m]  BY <1>2, <3>3 DEF Held
      <3>4. QED  BY <1>4, <3>2, <3>3
    <2>2. Held(s) \subseteq Held(u)  BY <1>2, <1>3, <1>5 DEF Held
    <2>3. Held(t) \subseteq Held(u)
      <3>1. SUFFICES ASSUME NEW i \in 1..n  PROVE t[i] \in Held(u)  BY <1>2 DEF Held
      <3>2. m + i \in DOMAIN u /\ u[m + i] = t[i]  BY <1>3, <1>5
      <3>3. QED  BY <3>2 DEF Held
    <2>4. QED  BY <2>1, <2>2, <2>3
  <1>7. ASSUME NEW x  PROVE HasNode(u, x) <=> HasNode(s, x) \/ HasNode(t, x)
    <2>1. HasNode(u, x) => HasNode(s, x) \/ HasNode(t, x)
      <3>1. SUFFICES ASSUME NEW l \in 1..m + n, u[l].node = x
                     PROVE  HasNode(s, x) \/ HasNode(t, x)
        BY <1>3 DEF HasNode
      <3>2. CASE l \in 1..m /\ u[l] = s[l]  BY <1>2, <3>1, <3>2 DEF HasNode
      <3>3. CASE l - m \in 1..n /\ u[l] = t[l - m]  BY <1>2, <3>1, <3>3 DEF HasNode
      <3>4. QED  BY <1>4, <3>2, <3>3
    <2>2. HasNode(s, x) => HasNode(u, x)
      <3>1. SUFFICES ASSUME NEW l \in 1..m, s[l].node = x  PROVE HasNode(u, x)
        BY <1>2 DEF HasNode
      <3>2. u[l].node = x /\ l \in 1..m + n  BY <1>3, <1>5, <3>1
      <3>3. QED  BY <1>3, <3>2 DEF HasNode
    <2>3. HasNode(t, x) => HasNode(u, x)
      <3>1. SUFFICES ASSUME NEW l \in 1..n, t[l].node = x  PROVE HasNode(u, x)
        BY <1>2 DEF HasNode
      <3>2. u[m + l].node = x /\ m + l \in 1..m + n  BY <1>3, <1>5, <3>1
      <3>3. QED  BY <1>3, <3>2 DEF HasNode
    <2>4. QED  BY <2>1, <2>2, <2>3
  <1>8. ASSUME NEW x, HasOnce(s, x), HasOnce(t, x), ~(HasNode(s, x) /\ HasNode(t, x))
        PROVE  HasOnce(u, x)
    <2>1. SUFFICES ASSUME NEW k \in 1..m + n, NEW l \in 1..m + n,
                          u[k].node = x, u[l].node = x
                   PROVE  k = l
      BY <1>3 DEF HasOnce
    <2>2. CASE k \in 1..m /\ u[k] = s[k]
      <3>1. HasNode(s, x)  BY <1>2, <2>1, <2>2 DEF HasNode
      <3>2. ~(l - m \in 1..n /\ u[l] = t[l - m])
        BY <1>2, <1>8, <2>1, <3>1 DEF HasNode
      <3>3. l \in 1..m /\ u[l] = s[l]  BY <1>4, <2>1, <3>2
      <3>4. QED  BY <1>2, <1>8, <2>1, <2>2, <3>3 DEF HasOnce
    <2>3. CASE k - m \in 1..n /\ u[k] = t[k - m]
      <3>1. HasNode(t, x)  BY <1>2, <2>1, <2>3 DEF HasNode
      <3>2. ~(l \in 1..m /\ u[l] = s[l])
        BY <1>2, <1>8, <2>1, <3>1 DEF HasNode
      <3>3. l - m \in 1..n /\ u[l] = t[l - m]  BY <1>4, <2>1, <3>2
      <3>4. k - m = l - m  BY <1>2, <1>8, <2>1, <2>3, <3>3 DEF HasOnce
      <3>5. QED  BY <3>4
    <2>4. QED  BY <1>4, <2>2, <2>3
  <1>9. ASSUME NEW x, HasOnce(u, x)
        PROVE  HasOnce(s, x) /\ HasOnce(t, x) /\ ~(HasNode(s, x) /\ HasNode(t, x))
    <2>1. HasOnce(s, x)  BY <1>2, <1>3, <1>5, <1>9 DEF HasOnce
    <2>2. HasOnce(t, x)
      <3>1. SUFFICES ASSUME NEW k \in 1..n, NEW l \in 1..n, t[k].node = x, t[l].node = x
                     PROVE  k = l
        BY <1>2 DEF HasOnce
      <3>2. /\ m + k \in 1..m + n /\ m + l \in 1..m + n
            /\ u[m + k].node = x /\ u[m + l].node = x
        BY <1>3, <1>5, <3>1
      <3>3. m + k = m + l  BY <1>3, <1>9, <3>2 DEF HasOnce
      <3>4. QED  BY <3>3
    <2>3. ~(HasNode(s, x) /\ HasNode(t, x))
      <3>1. SUFFICES ASSUME NEW k \in 1..m, NEW l \in 1..n, s[k].node = x, t[l].node = x
                     PROVE  FALSE
        BY <1>2 DEF HasNode
      <3>2. /\ k \in 1..m + n /\ m + l \in 1..m + n
            /\ u[k].node = x /\ u[m + l].node = x
        BY <1>3, <1>5, <3>1
      <3>3. k = m + l  BY <1>3, <1>9, <3>2 DEF HasOnce
      <3>4. QED  BY <3>3
    <2>4. QED  BY <2>1, <2>2, <2>3
  <1>10. QED  BY <1>1, <1>6, <1>7, <1>8, <1>9

\* A list of one slot.
LEMMA OneSlot ==
    ASSUME NEW x \in SlotType, Proper(x)
    PROVE  /\ <<x>> \in Seq(SlotType) /\ Tiles(<<x>>, x.start, x.end) /\ Held(<<x>>) = {x}
           /\ \A n : HasOnce(<<x>>, n) /\ (HasNode(<<x>>, n) <=> x.node = n)
  <1>1. PICK u \in Seq(SlotType) :
           u = <<x>> /\ Len(u) = 1 /\ u[1] = x /\ DOMAIN u = {1} /\ u # <<>>
    <2>1. <<x>> \in Seq(SlotType)  OBVIOUS
    <2>2. Len(<<x>>) = 1 /\ <<x>>[1] = x /\ DOMAIN <<x>> = {1} /\ <<x>> # <<>>  OBVIOUS
    <2>3. QED  BY <2>1, <2>2
  <1>2. 1..1 = {1} /\ 1..1 - 1 = {}  OBVIOUS
  <1>3. Tiles(u, x.start, x.end)  BY <1>1, <1>2 DEF Tiles
  <1>4. Held(u) = {x}  BY <1>1 DEF Held
  <1>5. \A n : HasOnce(u, n)  BY <1>1, <1>2 DEF HasOnce
  <1>6. \A n : HasNode(u, n) <=> x.node = n  BY <1>1, <1>2 DEF HasNode
  <1>7. QED  BY <1>1, <1>3, <1>4, <1>5, <1>6

\* The empty slot that may be needed between two times.
LEMMA GapSlots ==
    ASSUME NEW a \in Nat, NEW b \in Nat, a <= b, NEW g, g = Gap(a, b)
    PROVE  /\ g \in Seq(SlotType) /\ Tiles(g, a, b)
           /\ \A y \in Held(g) : y.node = None
           /\ \A n : HasOnce(g, n) /\ (n # None => ~HasNode(g, n))
  <1>1. CASE a < b
    <2>1. PICK x \in SlotType : x = Empty(a, b)  BY DEF Empty, Slot, SlotType
    <2>2. x.node = None /\ x.start = a /\ x.end = b /\ g = <<x>>
      BY <1>1, <2>1 DEF Empty, Slot, Gap
    <2>3. Proper(x)  BY <1>1, <2>2 DEF Proper
    <2>4. QED  BY <2>2, <2>3, OneSlot
  <1>2. CASE a = b
    <2>1. g = <<>> /\ Len(g) = 0 /\ DOMAIN g = {} /\ g \in Seq(SlotType)
      <3>1. g = <<>>  BY <1>2 DEF Gap
      <3>2. QED  BY <3>1
    <2>2. 1..0 = {} /\ 1..0 - 1 = {}  OBVIOUS
    <2>3. QED  BY <1>2, <2>1, <2>2 DEF Tiles, Held, HasOnce, HasNode
  <1>3. QED  BY <1>1, <1>2

\* A list in three parts.
Split(s, a, y, b) == s = a \o (<<y>> \o b)

\* A list of slots can be cut at any of them.
LEMMA TilesCut ==
    ASSUME NEW s \in Seq(SlotType), NEW e, Tiles(s, 0, e), NEW k \in 1..Len(s),
           NEW a, a = SubSeq(s, 1, k - 1), NEW b, b = SubSeq(s, k + 1, Len(s))
    PROVE  /\ a \in Seq(SlotType) /\ Tiles(a, 0, s[k].start)
           /\ b \in Seq(SlotType) /\ Tiles(b, s[k].end, e)
           /\ Split(s, a, s[k], b)
  <1>1. PICK n \in Nat : n = Len(s) /\ k \in 1..n /\ \A i \in 1..n : s[i] \in SlotType
    BY LenProperties, ElementOfSeq
  <1>2. k \in Int /\ k - 1 \in Int /\ k + 1 \in Int /\ n \in Int /\ 1 <= k /\ k <= n  BY <1>1
  <1>3. a \in Seq(SlotType) /\ Len(a) = k - 1 /\ \A i \in 1..k - 1 : a[i] = s[i]
    <2>1. \A i \in 1..k - 1 : s[i] \in SlotType  BY <1>1, <1>2
    <2>2. /\ a \in Seq(SlotType)
          /\ Len(a) = IF 1 <= k - 1 THEN (k - 1) - 1 + 1 ELSE 0
          /\ \A i \in 1..(k - 1) - 1 + 1 : a[i] = s[1 + i - 1]
      BY <1>2, <2>1, SubSeqProperties
    <2>3. (k - 1) - 1 + 1 = k - 1 /\ (~(1 <= k - 1) => k - 1 = 0)
          /\ \A i \in 1..k - 1 : 1 + i - 1 = i
      BY <1>2
    <2>4. QED  BY <2>2, <2>3
  <1>4. b \in Seq(SlotType) /\ Len(b) = n - k /\ \A i \in 1..n - k : b[i] = s[k + i]
    <2>1. \A i \in k + 1..n : s[i] \in SlotType  BY <1>1, <1>2
    <2>2. /\ b \in Seq(SlotType)
          /\ Len(b) = IF k + 1 <= n THEN n - (k + 1) + 1 ELSE 0
          /\ \A i \in 1..n - (k + 1) + 1 : b[i] = s[(k + 1) + i - 1]
      BY <1>1, <1>2, <2>1, SubSeqProperties
    <2>3. n - (k + 1) + 1 = n - k /\ (~(k + 1 <= n) => n - k = 0)
          /\ \A i \in 1..n - k : (k + 1) + i - 1 = k + i
      BY <1>1, <1>2
    <2>4. QED  BY <2>2, <2>3
  <1>5. s # <<>> /\ s[1].start = 0 /\ s[n].end = e
    <2>1. s # <<>>  BY <1>1, <1>2, EmptySeq
    <2>2. QED  BY <1>1, <2>1 DEF Tiles
  <1>6. Tiles(a, 0, s[k].start)
    <2>1. a = <<>> <=> k = 1  BY <1>2, <1>3, EmptySeq
    <2>2. CASE k = 1
      <3>1. a = <<>> /\ Len(a) = 0  BY <1>3, <2>1, <2>2
      <3>2. 1..0 = {} /\ 1..0 - 1 = {}  OBVIOUS
      <3>3. QED  BY <1>5, <2>2, <3>1, <3>2 DEF Tiles
    <2>3. CASE k # 1
      <3>1. 1 \in 1..k - 1 /\ k - 1 \in 1..k - 1 /\ k - 1 \in 1..n - 1 /\ (k - 1) + 1 = k
        BY <1>1, <1>2, <2>3
      <3>2. s[k].start = s[k - 1].end  BY <1>1, <3>1 DEF Tiles
      <3>3. a[1] = s[1] /\ a[k - 1] = s[k - 1]  BY <1>3, <3>1
      <3>4. \A l \in 1..(k - 1) - 1 : a[l + 1].start = a[l].end
        <4>1. SUFFICES ASSUME NEW l \in 1..(k - 1) - 1  PROVE a[l + 1].start = a[l].end
          OBVIOUS
        <4>2. l \in 1..k - 1 /\ l + 1 \in 1..k - 1 /\ l \in 1..n - 1  BY <1>1, <1>2
        <4>3. QED  BY <1>1, <1>3, <4>2 DEF Tiles
      <3>5. \A l \in 1..k - 1 : Proper(a[l])
        <4>1. \A l \in 1..k - 1 : l \in 1..n  BY <1>1, <1>2
        <4>2. QED  BY <1>1, <1>3, <4>1 DEF Tiles
      <3>6. QED  BY <1>3, <1>5, <2>1, <2>3, <3>2, <3>3, <3>4, <3>5 DEF Tiles
    <2>4. QED  BY <2>2, <2>3
  <1>7. Tiles(b, s[k].end, e)
    <2>a. n - k = 0 <=> k = n  BY <1>1
    <2>1. b = <<>> <=> k = n  BY <1>4, <2>a, EmptySeq
    <2>2. CASE k = n
      <3>1. b = <<>> /\ Len(b) = 0  BY <1>1, <1>4, <2>1, <2>2
      <3>2. 1..0 = {} /\ 1..0 - 1 = {}  OBVIOUS
      <3>3. QED  BY <1>5, <2>2, <3>1, <3>2 DEF Tiles
    <2>3. CASE k # n
      <3>1. 1 \in 1..n - k /\ n - k \in 1..n - k /\ k \in 1..n - 1 /\ k + (n - k) = n
        BY <1>1, <1>2, <2>3
      <3>2. s[k + 1].start = s[k].end  BY <1>1, <3>1 DEF Tiles
      <3>3. b[1] = s[k + 1] /\ b[n - k] = s[n]  BY <1>4, <3>1
      <3>4. \A l \in 1..(n - k) - 1 : b[l + 1].start = b[l].end
        <4>1. SUFFICES ASSUME NEW l \in 1..(n - k) - 1  PROVE b[l + 1].start = b[l].end
          OBVIOUS
        <4>2. /\ l \in 1..n - k /\ l + 1 \in 1..n - k /\ k + l \in 1..n - 1
              /\ k + (l + 1) = (k + l) + 1
          BY <1>1, <1>2
        <4>3. b[l] = s[k + l] /\ b[l + 1] = s[(k + l) + 1]  BY <1>4, <4>2
        <4>4. QED  BY <1>1, <4>2, <4>3 DEF Tiles
      <3>5. \A l \in 1..n - k : Proper(b[l])
        <4>1. \A l \in 1..n - k : k + l \in 1..n  BY <1>1, <1>2
        <4>2. QED  BY <1>1, <1>4, <4>1 DEF Tiles
      <3>6. QED  BY <1>4, <1>5, <2>1, <2>3, <3>2, <3>3, <3>4, <3>5 DEF Tiles
    <2>4. QED  BY <2>2, <2>3
  <1>8. Split(s, a, s[k], b)
    <2>1. SubSeq(s, k, n) = <<s[k]>> \o b
      <3>1. k \in 1..Len(s) /\ n \in k..Len(s)  BY <1>1
      <3>2. QED  BY <1>1, <3>1, SubSeqRecursiveFirst
    <2>2. a \o SubSeq(s, (k - 1) + 1, n) = SubSeq(s, 1, n)
      <3>1. 1 \in 1..Len(s) + 1 /\ k - 1 \in 1 - 1..Len(s) /\ n \in k - 1..Len(s)  BY <1>1
      <3>2. QED  BY <3>1, ConcatAdjacentSubSeq
    <2>3. (k - 1) + 1 = k  BY <1>2
    <2>4. SubSeq(s, 1, n) = s  BY <1>1, SubSeqFull
    <2>5. QED  BY <2>1, <2>2, <2>3, <2>4 DEF Split
  <1>9. QED  BY <1>3, <1>4, <1>6, <1>7, <1>8

\* Slots lie between the two ends of their list.
LEMMA TilesBetween ==
    ASSUME NEW s \in Seq(SlotType), NEW e \in Nat, Tiles(s, 0, e), NEW k \in 1..Len(s)
    PROVE  s[k] \in SlotType /\ Proper(s[k]) /\ s[k].end <= e
  <1>1. PICK n \in Nat : n = Len(s) /\ k \in 1..n /\ \A i \in 1..n : s[i] \in SlotType
    BY LenProperties, ElementOfSeq
  <1>2. s[n].end = e
    <2>1. s # <<>>  BY <1>1, EmptySeq
    <2>2. QED  BY <1>1, <2>1 DEF Tiles
  <1> DEFINE P == {i \in Nat : i < n => s[n - i].end <= e}
  <1>3. 0 \in P
    <2>1. n - 0 = n /\ e <= e  BY <1>1
    <2>2. QED  BY <1>2, <2>1
  <1>4. ASSUME NEW i \in 0..n - 1, i \in P  PROVE i + 1 \in P
    <2>1. SUFFICES ASSUME i + 1 < n  PROVE s[n - (i + 1)].end <= e
      BY <1>4
    <2>2. PICK l \in 1..n - 1 : l = n - (i + 1)
      <3>1. n - (i + 1) \in 1..n - 1  BY <1>1, <2>1
      <3>2. QED  BY <3>1
    <2>3. n - i = l + 1 /\ l \in 1..n /\ l + 1 \in 1..n  BY <1>1, <2>2
    <2>4. s[l + 1].end <= e  BY <1>1, <1>4, <2>1, <2>3
    <2>5. s[l + 1].start = s[l].end /\ Proper(s[l + 1])  BY <1>1, <2>2, <2>3 DEF Tiles
    <2>6. s[l + 1].start <= s[l + 1].end  BY <2>5 DEF Proper
    <2>7. s[l].end \in Nat /\ s[l + 1].end \in Nat  BY <1>1, <2>3 DEF SlotType
    <2>8. s[l].end <= e  BY <2>4, <2>5, <2>6, <2>7
    <2>9. QED  BY <2>2, <2>8
  <1> HIDE DEF P
  <1>5. n - k \in P
    <2>1. \A i \in 0..n : i \in P  BY <1>1, <1>3, <1>4, UpTo
    <2>2. n - k \in 0..n  BY <1>1
    <2>3. QED  BY <2>1, <2>2
  <1>6. s[k].end <= e
    <2>1. n - k < n /\ n - (n - k) = k  BY <1>1
    <2>2. QED  BY <1>5, <2>1 DEF P
  <1>7. QED  BY <1>1, <1>6 DEF Tiles

-----------------------------------------------------------------------------
(* A part is put into the list of a core.                                  *)

NonEmpty(s) == {y \in Held(s) : y.node # None}

\* The list u is the list s with the slot x put in and the empty slots adjusted.
IsPut(s, u, x) ==
    /\ u \in Seq(SlotType)
    /\ NonEmpty(u) = NonEmpty(s) \cup {x}
    /\ \A n \in Nodes : HasOnce(s, n) /\ ~(HasNode(s, n) /\ n = x.node) => HasOnce(u, n)

\* The slots of node n are the ones in NonEmpty.
LEMMA HasNodeHeld ==
    ASSUME NEW s \in Seq(SlotType), NEW n \in Nodes
    PROVE  HasNode(s, n) <=> \E y \in NonEmpty(s) : y.node = n
  <1>1. n # None  BY GraphAssumption DEF Nodes
  <1>2. DOMAIN s = 1..Len(s)  BY LenProperties
  <1>3. QED  BY <1>1, <1>2 DEF HasNode, NonEmpty, Held

\* Behind the last slot, with an empty one between.
LEMMA PutBehind ==
    ASSUME NEW s \in Seq(SlotType), NEW e \in Nat, Tiles(s, 0, e),
           NEW x \in SlotType, Proper(x), x.node \in Nodes, e <= x.start,
           NEW u, u = (s \o Gap(e, x.start)) \o <<x>>
    PROVE  IsPut(s, u, x) /\ Tiles(u, 0, x.end)
  <1>1. x.node # None  BY GraphAssumption DEF Nodes
  <1>2. x.start \in Nat  BY DEF SlotType
  <1>3. PICK g : g = Gap(e, x.start)  OBVIOUS
  <1>4. /\ g \in Seq(SlotType) /\ Tiles(g, e, x.start) /\ (\A y \in Held(g) : y.node = None)
        /\ \A n : HasOnce(g, n) /\ (n # None => ~HasNode(g, n))
    BY <1>2, <1>3, GapSlots
  <1>5. PICK w : w = <<x>>  OBVIOUS
  <1>6. /\ w \in Seq(SlotType) /\ Tiles(w, x.start, x.end) /\ Held(w) = {x}
        /\ \A n : HasOnce(w, n) /\ (HasNode(w, n) <=> x.node = n)
    BY <1>5, OneSlot
  <1>7. PICK v : v = s \o g  OBVIOUS
  <1>8. v \in Seq(SlotType) /\ Tiles(v, 0, x.start)  BY <1>4, <1>7, TilesConcat
  <1>9. u = v \o w  BY <1>3, <1>5, <1>7
  <1>10. u \in Seq(SlotType) /\ Tiles(u, 0, x.end)  BY ONLY <1>6, <1>8, <1>9, TilesConcat
  <1>11. Held(v) = Held(s) \cup Held(g) /\ Held(u) = Held(v) \cup {x}
    BY <1>4, <1>6, <1>7, <1>8, <1>9, NodesConcat
  <1>12. NonEmpty(u) = NonEmpty(s) \cup {x}
    <2>1. \A z : z \in Held(u) <=> z \in Held(s) \/ z \in Held(g) \/ z = x  BY <1>11
    <2>2. \A z : z \in NonEmpty(u) <=> z \in NonEmpty(s) \/ z = x
      BY <1>1, <1>4, <2>1 DEF NonEmpty
    <2>3. QED  BY <2>2
  <1>13. ASSUME NEW n \in Nodes, HasOnce(s, n), ~(HasNode(s, n) /\ n = x.node)
         PROVE  HasOnce(u, n)
    <2>1. n # None  BY GraphAssumption DEF Nodes
    <2>2. HasOnce(v, n) /\ (HasNode(v, n) <=> HasNode(s, n))
      BY <1>4, <1>7, <1>13, <2>1, NodesConcat
    <2>3. ~(HasNode(v, n) /\ HasNode(w, n)) /\ HasOnce(w, n)  BY <1>6, <1>13, <2>2
    <2>4. HasOnce(v \o w, n)  BY <1>6, <1>8, <2>2, <2>3, NodesConcat
    <2>5. QED  BY <1>9, <2>4
  <1>14. QED  BY <1>10, <1>12, <1>13 DEF IsPut

\* In the middle, into an empty slot.
LEMMA PutInside ==
    ASSUME NEW s \in Seq(SlotType), NEW e \in Nat, Tiles(s, 0, e), NEW k \in 1..Len(s),
           NEW x \in SlotType, Proper(x), x.node \in Nodes,
           s[k].node = None, s[k].start <= x.start, x.end <= s[k].end,
           NEW u, u = (((SubSeq(s, 1, k - 1) \o Gap(s[k].start, x.start)) \o <<x>>)
                       \o Gap(x.end, s[k].end)) \o SubSeq(s, k + 1, Len(s))
    PROVE  IsPut(s, u, x) /\ Tiles(u, 0, e)
  <1>1. x.node # None  BY GraphAssumption DEF Nodes
  <1>2. PICK y \in SlotType : y = s[k] /\ Proper(y)  BY TilesBetween
  <1>3. x.start \in Nat /\ x.end \in Nat /\ y.start \in Nat /\ y.end \in Nat
    BY <1>2 DEF SlotType
  <1>a. PICK a : a = SubSeq(s, 1, k - 1)  OBVIOUS
  <1>b. PICK b : b = SubSeq(s, k + 1, Len(s))  OBVIOUS
  <1>4. /\ a \in Seq(SlotType) /\ Tiles(a, 0, y.start)
        /\ b \in Seq(SlotType) /\ Tiles(b, y.end, e)
        /\ Split(s, a, y, b)
    BY <1>2, <1>a, <1>b, TilesCut
  <1>g. PICK g : g = Gap(y.start, x.start)  OBVIOUS
  <1>5. /\ g \in Seq(SlotType) /\ Tiles(g, y.start, x.start)
        /\ \A z \in Held(g) : z.node = None
        /\ \A n : HasOnce(g, n) /\ (n # None => ~HasNode(g, n))
    BY <1>2, <1>3, <1>g, GapSlots
  <1>h. PICK h : h = Gap(x.end, y.end)  OBVIOUS
  <1>6. /\ h \in Seq(SlotType) /\ Tiles(h, x.end, y.end)
        /\ \A z \in Held(h) : z.node = None
        /\ \A n : HasOnce(h, n) /\ (n # None => ~HasNode(h, n))
    BY <1>2, <1>3, <1>h, GapSlots
  <1>w. PICK w : w = <<x>>  OBVIOUS
  <1>7. /\ w \in Seq(SlotType) /\ Tiles(w, x.start, x.end) /\ Held(w) = {x}
        /\ \A n : HasOnce(w, n) /\ (HasNode(w, n) <=> x.node = n)
    BY <1>w, OneSlot
  <1>c. PICK p1 : p1 = a \o g  OBVIOUS
  <1>d. PICK p2 : p2 = p1 \o w  OBVIOUS
  <1>e. PICK p3 : p3 = p2 \o h  OBVIOUS
  <1>f. u = p3 \o b  BY <1>2, <1>a, <1>b, <1>g, <1>h, <1>w, <1>c, <1>d, <1>e
  <1>8. p1 \in Seq(SlotType) /\ Tiles(p1, 0, x.start)  BY <1>4, <1>5, <1>c, TilesConcat
  <1>9. p2 \in Seq(SlotType) /\ Tiles(p2, 0, x.end)  BY ONLY <1>7, <1>8, <1>d, TilesConcat
  <1>10. p3 \in Seq(SlotType) /\ Tiles(p3, 0, y.end)  BY ONLY <1>6, <1>9, <1>e, TilesConcat
  <1>11. u \in Seq(SlotType) /\ Tiles(u, 0, e)  BY ONLY <1>4, <1>10, <1>f, TilesConcat
  <1>12. PICK q : q = <<y>>  OBVIOUS
  <1>13. /\ q \in Seq(SlotType) /\ Held(q) = {y}
         /\ \A n : HasOnce(q, n) /\ (HasNode(q, n) <=> y.node = n)
    BY <1>2, <1>12, OneSlot
  <1>14. PICK r : r = q \o b  OBVIOUS
  <1>15. r \in Seq(SlotType)  BY <1>4, <1>13, <1>14, ConcatProperties
  <1>16. s = a \o r  BY <1>4, <1>12, <1>14 DEF Split
  <1>17. Held(r) = {y} \cup Held(b) /\ Held(s) = Held(a) \cup Held(r)
    BY <1>4, <1>13, <1>14, <1>15, <1>16, NodesConcat
  <1>18. /\ Held(p1) = Held(a) \cup Held(g) /\ Held(p2) = Held(p1) \cup {x}
         /\ Held(p3) = Held(p2) \cup Held(h) /\ Held(u) = Held(p3) \cup Held(b)
    <2>1. Held(p1) = Held(a) \cup Held(g)  BY <1>4, <1>5, <1>c, NodesConcat
    <2>2. Held(p2) = Held(p1) \cup {x}  BY <1>7, <1>8, <1>d, NodesConcat
    <2>3. Held(p3) = Held(p2) \cup Held(h)  BY <1>6, <1>9, <1>e, NodesConcat
    <2>4. Held(u) = Held(p3) \cup Held(b)  BY <1>4, <1>10, <1>f, NodesConcat
    <2>5. QED  BY <2>1, <2>2, <2>3, <2>4
  <1>19. NonEmpty(u) = NonEmpty(s) \cup {x}
    <2>1. \A z : z \in Held(u) <=>
            z \in Held(a) \/ z \in Held(g) \/ z = x \/ z \in Held(h) \/ z \in Held(b)
      BY <1>18
    <2>2. \A z : z \in Held(s) <=> z \in Held(a) \/ z = y \/ z \in Held(b)  BY <1>17
    <2>3. \A z : z \in NonEmpty(u) <=> z \in NonEmpty(s) \/ z = x
      BY <1>1, <1>2, <1>5, <1>6, <2>1, <2>2 DEF NonEmpty
    <2>4. QED  BY <2>3
  <1>20. ASSUME NEW n \in Nodes, HasOnce(s, n), ~(HasNode(s, n) /\ n = x.node)
         PROVE  HasOnce(u, n)
    <2>1. n # None  BY GraphAssumption DEF Nodes
    <2>2. HasOnce(a, n) /\ HasOnce(r, n) /\ ~(HasNode(a, n) /\ HasNode(r, n))
      BY <1>4, <1>15, <1>16, <1>20, NodesConcat
    <2>3. HasOnce(b, n) /\ (HasNode(r, n) <=> HasNode(b, n))
      <3>1. ~HasNode(q, n)  BY <1>2, <1>13, <2>1
      <3>2. QED  BY <1>4, <1>13, <1>14, <2>2, <3>1, NodesConcat
    <2>4. HasNode(s, n) <=> HasNode(a, n) \/ HasNode(b, n)
      BY <1>4, <1>15, <1>16, <2>3, NodesConcat
    <2>5. HasOnce(p1, n) /\ (HasNode(p1, n) <=> HasNode(a, n))
      BY <1>4, <1>5, <1>c, <2>1, <2>2, NodesConcat
    <2>6. HasOnce(p2, n) /\ (HasNode(p2, n) <=> HasNode(a, n) \/ n = x.node)
      BY <1>7, <1>8, <1>20, <1>d, <2>4, <2>5, NodesConcat
    <2>7. HasOnce(p3, n) /\ (HasNode(p3, n) <=> HasNode(a, n) \/ n = x.node)
      BY <1>6, <1>9, <1>e, <2>1, <2>6, NodesConcat
    <2>8. ~(HasNode(p3, n) /\ HasNode(b, n))  BY <1>20, <2>2, <2>3, <2>4, <2>7
    <2>9. HasOnce(p3 \o b, n)  BY <1>4, <1>10, <2>3, <2>7, <2>8, NodesConcat
    <2>10. QED  BY <1>f, <2>9
  <1>21. QED  BY <1>11, <1>19, <1>20 DEF IsPut

-----------------------------------------------------------------------------
(* Least and greatest elements, which the code finds by a loop.            *)

\* Values of finitely many cores have a bound.
LEMMA Bounded ==
    ASSUME NEW f, \A c \in Cores : f[c] \in Nat
    PROVE  \E b \in Nat : \A c \in Cores : f[c] <= b
  <1>1. C \in Nat  BY CoreAssumption
  <1> DEFINE P == {i \in Nat : i <= C => \E b \in Nat : \A c \in 0..i - 1 : f[c] <= b}
  <1>2. 0 \in P
    <2>1. \A c \in 0..0 - 1 : f[c] <= 0  OBVIOUS
    <2>2. QED  BY <2>1
  <1>3. ASSUME NEW i \in 0..C - 1, i \in P  PROVE i + 1 \in P
    <2>1. PICK b \in Nat : \A c \in 0..i - 1 : f[c] <= b  BY <1>1, <1>3
    <2>2. f[i] \in Nat /\ \A c \in 0..i - 1 : f[c] \in Nat  BY <1>1 DEF Cores
    <2>3. PICK d \in Nat : b <= d /\ f[i] <= d
      <3>1. CASE b <= f[i]  BY <2>2, <3>1
      <3>2. CASE f[i] <= b  BY <2>2, <3>2
      <3>3. QED  BY <2>2, <3>1, <3>2
    <2>4. ASSUME NEW c \in 0..(i + 1) - 1  PROVE f[c] <= d
      <3>1. CASE c = i  BY <2>3, <3>1
      <3>2. CASE c # i
        <4>1. c \in 0..i - 1  BY <3>2
        <4>2. QED  BY <2>1, <2>2, <2>3, <4>1
      <3>3. QED  BY <3>1, <3>2
    <2>5. QED  BY <1>1, <2>4
  <1> HIDE DEF P
  <1>4. C \in P
    <2>1. \A i \in 0..C : i \in P  BY <1>1, <1>2, <1>3, UpTo
    <2>2. QED  BY <1>1, <2>1
  <1>5. QED  BY <1>4 DEF P, Cores

\* A set of numbers with a bound has a greatest element.
LEMMA Greatest ==
    ASSUME NEW S \in SUBSET Nat, S # {}, NEW b \in Nat, \A x \in S : x <= b
    PROVE  MaxOf(S) \in S /\ MaxOf(S) \in Nat /\ \A y \in S : y <= MaxOf(S)
  <1> DEFINE T == {b - x : x \in S}
  <1>1. T \in SUBSET Nat /\ T # {}
    <2>1. \A x \in S : x \in Nat /\ x <= b  OBVIOUS
    <2>2. \A x \in S : b - x \in Nat  BY <2>1
    <2>3. QED  BY <2>2
  <1>2. PICK m \in T : \A y \in T : m <= y
    <2> HIDE DEF T
    <2>1. QED  BY <1>1, LeastNumber
  <1>3. PICK x \in S : m = b - x  OBVIOUS
  <1>4. \A y \in S : y <= x
    <2>1. SUFFICES ASSUME NEW y \in S  PROVE y <= x  OBVIOUS
    <2>2. b - x <= b - y  BY <1>2, <1>3
    <2>3. x \in Int /\ y \in Int /\ b \in Int  OBVIOUS
    <2>4. QED  BY ONLY <2>2, <2>3
  <1>5. MaxOf(S) \in S /\ \A y \in S : y <= MaxOf(S)  BY <1>4 DEF MaxOf
  <1>6. QED  BY <1>5

\* Among some cores one has the least value and, on a tie, the least index.
LEMMA LeastCore ==
    ASSUME NEW f, NEW S \in SUBSET Cores, S # {}, \A c \in S : f[c] \in Nat
    PROVE  \E c \in S : \A d \in S \ {c} : f[c] < f[d] \/ (f[c] = f[d] /\ c < d)
  <1>1. C \in Nat /\ S \in SUBSET Nat  BY CoreAssumption DEF Cores
  <1> DEFINE V == {f[c] : c \in S}
  <1>2. V \in SUBSET Nat /\ V # {}  OBVIOUS
  <1>3. PICK m \in V : \A y \in V : m <= y
    <2> HIDE DEF V
    <2>1. QED  BY <1>2, LeastNumber
  <1> DEFINE T == {c \in S : f[c] = m}
  <1>4. T \in SUBSET Nat /\ T # {}  BY <1>1
  <1>5. PICK c \in T : \A d \in T : c <= d
    <2> HIDE DEF T
    <2>1. QED  BY <1>4, LeastNumber
  <1>6. c \in S /\ f[c] = m  OBVIOUS
  <1>7. ASSUME NEW d \in S \ {c}  PROVE f[c] < f[d] \/ (f[c] = f[d] /\ c < d)
    <2>1. f[c] <= f[d] /\ f[c] \in Nat /\ f[d] \in Nat  BY <1>3, <1>6
    <2>2. CASE f[d] = m
      <3>1. c <= d /\ c # d /\ c \in Nat /\ d \in Nat  BY <1>1, <1>5, <1>7, <2>2
      <3>2. QED  BY <1>6, <2>2, <3>1
    <2>3. CASE f[d] # m  BY <1>6, <2>1, <2>3
    <2>4. QED  BY <2>2, <2>3
  <1>8. QED  BY <1>6, <1>7

-----------------------------------------------------------------------------
(* Where a part starts.                                                    *)

TaskInv ==
    /\ tasks \in [Cores -> Seq(SlotType)]
    /\ \A c \in Cores : EscTime(c) \in Nat /\ Tiles(tasks[c], 0, EscTime(c))

\* A part of some length could start on core c at time t, not before from.
CanStart(c, from, length, t) ==
    /\ from <= t
    /\ \/ EscTime(c) <= t
       \/ \E l \in 1..Len(tasks[c]) :
             /\ tasks[c][l].node = None
             /\ tasks[c][l].start <= t /\ t + length <= tasks[c][l].end

\* What get_sched_node_info finds.
IsBehind(p, from, cs) ==
    /\ p.core \in cs /\ p.slot = 0 /\ p.start \in Nat /\ from <= p.start
    /\ EscTime(p.core) <= p.start
    /\ p.start = from \/ p.start = EscTime(p.core)
    /\ \A c \in cs, t \in Nat : from <= t /\ EscTime(c) <= t => p.start <= t

\* Behind selects it, whatever the lists are.
LEMMA BehindEarliest ==
    ASSUME TaskInv, NEW from \in Nat, NEW cs \in SUBSET Cores, cs # {}
    PROVE  IsBehind(Behind(from, cs), from, cs)
  <1>1. \A c \in cs : EscTime(c) \in Nat  BY DEF TaskInv
  <1>e. PICK e : e = [c \in Cores |-> EscTime(c)]  OBVIOUS
  <1>2. \A c \in Cores : e[c] = EscTime(c) /\ e[c] \in Nat  BY <1>e DEF TaskInv
  <1> DEFINE free == {c \in cs : EscTime(c) <= from}
             late(c) == \A d \in free \ {c} :
                          EscTime(c) > EscTime(d) \/ (EscTime(c) = EscTime(d) /\ c < d)
             early(c) == \A d \in cs \ {c} :
                          EscTime(c) < EscTime(d) \/ (EscTime(c) = EscTime(d) /\ c < d)
             latest == CHOOSE c \in free : late(c)
             first == CHOOSE c \in cs : early(c)
  <1>3. Behind(from, cs) = IF free # {} THEN [core |-> latest, start |-> from, slot |-> 0]
                           ELSE [core |-> first, start |-> EscTime(first), slot |-> 0]
    BY DEF Behind
  <1>4. CASE free # {}
    <2>1. \E c \in free : late(c)
      <3>1. PICK b \in Nat : \A c \in Cores : e[c] <= b  BY <1>2, Bounded
      <3>2. PICK g : g = [c \in Cores |-> b - EscTime(c)]  OBVIOUS
      <3>3. \A c \in Cores : g[c] = b - EscTime(c) /\ g[c] \in Nat /\ EscTime(c) \in Nat
        <4>1. SUFFICES ASSUME NEW c \in Cores
                       PROVE  g[c] = b - EscTime(c) /\ g[c] \in Nat /\ EscTime(c) \in Nat
          OBVIOUS
        <4>2. EscTime(c) \in Nat /\ EscTime(c) <= b  BY <1>2, <3>1
        <4>3. QED  BY <3>2, <4>2
      <3>4. PICK S : S = free  OBVIOUS
      <3>5. S \in SUBSET Cores /\ S # {}  BY <1>4, <3>4
      <3>6. PICK c \in S : \A d \in S \ {c} : g[c] < g[d] \/ (g[c] = g[d] /\ c < d)
        <4> HIDE DEF free
        <4>1. QED  BY <3>3, <3>5, LeastCore
      <3>7. ASSUME NEW d \in S \ {c}
            PROVE  EscTime(c) > EscTime(d) \/ (EscTime(c) = EscTime(d) /\ c < d)
        <4>1. c \in Cores /\ d \in Cores  BY <3>5
        <4>2. g[c] < g[d] => EscTime(c) > EscTime(d)  BY <3>3, <4>1
        <4>3. g[c] = g[d] => EscTime(c) = EscTime(d)  BY <3>3, <4>1
        <4>4. QED  BY <3>6, <4>2, <4>3
      <3>8. QED  BY <3>4, <3>7
    <2>2. latest \in free
      <3> HIDE DEF free, late
      <3>1. QED  BY <2>1
    <2> HIDE DEF latest
    <2>3. PICK p : p = Behind(from, cs)  OBVIOUS
    <2>4. p.core = latest /\ p.start = from /\ p.slot = 0  BY <1>3, <1>4, <2>3
    <2>5. QED  BY <1>1, <2>2, <2>3, <2>4 DEF IsBehind
  <1>5. CASE free = {}
    <2>1. \E c \in cs : early(c)
      <3>1. PICK c \in cs : \A d \in cs \ {c} : e[c] < e[d] \/ (e[c] = e[d] /\ c < d)
        BY <1>2, LeastCore
      <3>2. QED  BY <1>2, <3>1
    <2>2. first \in cs /\ early(first)
      <3> HIDE DEF early
      <3>1. QED  BY <2>1
    <2>3. PICK f \in cs : f = first  BY <2>2
    <2>4. \A d \in cs \ {f} : EscTime(f) < EscTime(d) \/ (EscTime(f) = EscTime(d) /\ f < d)
      BY <2>2, <2>3
    <2> HIDE DEF first
    <2>5. PICK p : p = Behind(from, cs)  OBVIOUS
    <2>6. p.core = f /\ p.start = EscTime(f) /\ p.slot = 0  BY <1>3, <1>5, <2>3, <2>5
    <2>7. EscTime(f) \in Nat /\ from <= EscTime(f)  BY <1>1, <1>5
    <2>8. \A c \in cs : EscTime(f) <= EscTime(c)  BY <1>1, <2>4
    <2>9. ASSUME NEW c \in cs, NEW t \in Nat, EscTime(c) <= t  PROVE p.start <= t
      BY <1>1, <2>6, <2>7, <2>8, <2>9
    <2>10. QED  BY <2>5, <2>6, <2>7, <2>9 DEF IsBehind
  <1>6. QED  BY <1>4, <1>5

\* The least of the values at place i.
LEMMA LeastAt ==
    ASSUME NEW W, W # {}, NEW r, NEW i, \A v \in W : r[v][i] \in Nat
    PROVE  \E v \in W : \A w \in W : r[v][i] <= r[w][i]
  <1> DEFINE T == {r[v][i] : v \in W}
  <1>1. T \in SUBSET Nat /\ T # {}  OBVIOUS
  <1>2. PICK m \in T : \A y \in T : m <= y
    <2> HIDE DEF T
    <2>1. QED  BY <1>1, LeastNumber
  <1>3. PICK v \in W : m = r[v][i]  OBVIOUS
  <1>4. QED  BY <1>2, <1>3

\* v comes before w: it is less at the first place where they differ.
Better(r, v, w) ==
    \E i \in 1..4 : r[v][i] < r[w][i] /\ \A j \in 1..i - 1 : r[v][j] = r[w][j]

\* A set that is not empty has an element that comes before all others.
LEMMA BestExists ==
    ASSUME NEW V, V # {}, NEW r, \A v \in V : \A i \in 1..4 : r[v][i] \in Nat,
           \A v, w \in V : (\A i \in 1..4 : r[v][i] = r[w][i]) => v = w
    PROVE  \E v \in V : \A w \in V \ {v} : Better(r, v, w)
  <1>a. 1..4 = {1, 2, 3, 4}  OBVIOUS
  <1>b. 1..1 - 1 = {} /\ 1..2 - 1 = {1} /\ 1..3 - 1 = {1, 2} /\ 1..4 - 1 = {1, 2, 3}  OBVIOUS
  <1>c. \A v \in V : r[v][1] \in Nat /\ r[v][2] \in Nat /\ r[v][3] \in Nat /\ r[v][4] \in Nat
    BY <1>a
  <1>1. PICK v1 \in V : \A w \in V : r[v1][1] <= r[w][1]  BY <1>c, LeastAt
  <1>V. PICK V1 : V1 = {v \in V : r[v][1] = r[v1][1]}  OBVIOUS
  <1>2. PICK v2 \in V1 : \A w \in V1 : r[v2][2] <= r[w][2]  BY <1>c, <1>V, LeastAt
  <1>W. PICK V2 : V2 = {v \in V1 : r[v][2] = r[v2][2]}  OBVIOUS
  <1>3. PICK v3 \in V2 : \A w \in V2 : r[v3][3] <= r[w][3]
    <2>1. \A v \in V2 : r[v][3] \in Nat  BY <1>c, <1>V, <1>W
    <2>2. V2 # {}  BY <1>W
    <2>3. QED  BY <2>1, <2>2, LeastAt
  <1>X. PICK V3 : V3 = {v \in V2 : r[v][3] = r[v3][3]}  OBVIOUS
  <1>4. PICK v \in V3 : \A w \in V3 : r[v][4] <= r[w][4]
    <2>1. \A x \in V3 : r[x][4] \in Nat  BY <1>c, <1>V, <1>W, <1>X
    <2>2. V3 # {}  BY <1>X
    <2>3. QED  BY <2>1, <2>2, LeastAt
  <1>5. /\ v \in V /\ r[v][1] = r[v1][1] /\ r[v][2] = r[v2][2] /\ r[v][3] = r[v3][3]
    BY <1>V, <1>W, <1>X
  <1>6. ASSUME NEW w \in V \ {v}  PROVE Better(r, v, w)
    <2>1. CASE r[w][1] # r[v][1]
      <3>1. r[v][1] < r[w][1]  BY <1>1, <1>5, <1>c, <2>1
      <3>2. QED  BY <1>a, <1>b, <3>1 DEF Better
    <2>2. CASE r[w][1] = r[v][1] /\ r[w][2] # r[v][2]
      <3>1. w \in V1  BY <1>5, <1>V, <2>2
      <3>2. r[v][2] < r[w][2]  BY <1>2, <1>5, <1>c, <2>2, <3>1
      <3>3. QED  BY <1>a, <1>b, <2>2, <3>2 DEF Better
    <2>3. CASE r[w][1] = r[v][1] /\ r[w][2] = r[v][2] /\ r[w][3] # r[v][3]
      <3>1. w \in V2  BY <1>5, <1>V, <1>W, <2>3
      <3>2. r[v][3] < r[w][3]  BY <1>3, <1>5, <1>c, <2>3, <3>1
      <3>3. QED  BY <1>a, <1>b, <2>3, <3>2 DEF Better
    <2>4. CASE r[w][1] = r[v][1] /\ r[w][2] = r[v][2] /\ r[w][3] = r[v][3]
      <3>1. w \in V3  BY <1>5, <1>V, <1>W, <1>X, <2>4
      <3>2. r[v][4] # r[w][4]
        <4>1. SUFFICES ASSUME r[v][4] = r[w][4]  PROVE w = v  BY <1>6
        <4>2. \A i \in 1..4 : r[w][i] = r[v][i]  BY <1>a, <2>4, <4>1
        <4>3. QED  BY <1>5, <4>2
      <3>3. r[v][4] < r[w][4]  BY <1>4, <1>5, <1>c, <3>1, <3>2
      <3>4. QED  BY <1>a, <1>b, <2>4, <3>3 DEF Better
    <2>5. QED  BY <2>1, <2>2, <2>3, <2>4
  <1>7. QED  BY <1>5, <1>6

\* The vacancies a part fits into.
IsVacancy(v, from, length, cs) ==
    /\ v \in [core : cs, slot : Nat] /\ v.slot \in 1..Len(tasks[v.core])
    /\ Fits(tasks[v.core][v.slot], from, length)

\* Vacancies finds them all: no list is longer than the range it looks at.
LEMMA VacancyIs ==
    ASSUME TaskInv, NEW from \in Nat, NEW length \in Nat, NEW cs \in SUBSET Cores
    PROVE  \A v : v \in Vacancies(from, length, cs) <=> IsVacancy(v, from, length, cs)
  <1>1. PICK e : e = [c \in Cores |-> Len(tasks[c])]  OBVIOUS
  <1>2. \A c \in Cores : e[c] = Len(tasks[c]) /\ e[c] \in Nat  BY <1>1, LenProperties DEF TaskInv
  <1>3. PICK b \in Nat : \A c \in Cores : e[c] <= b  BY <1>2, Bounded
  <1>4. PICK S : S = {0} \cup {Len(tasks[c]) : c \in cs}  OBVIOUS
  <1>5. S \in SUBSET Nat /\ S # {} /\ \A x \in S : x <= b  BY <1>2, <1>3, <1>4
  <1>6. PICK m \in Nat : m = MaxOf(S) /\ \A y \in S : y <= m  BY <1>5, Greatest
  <1>7. Vacancies(from, length, cs) =
          {v \in [core : cs, slot : 1..m] :
              v.slot <= Len(tasks[v.core]) /\ Fits(tasks[v.core][v.slot], from, length)}
    BY <1>4, <1>6 DEF Vacancies
  <1>8. \A c \in cs : Len(tasks[c]) \in Nat /\ Len(tasks[c]) <= m  BY <1>2, <1>4, <1>6
  <1>9. ASSUME NEW v, v \in Vacancies(from, length, cs)  PROVE IsVacancy(v, from, length, cs)
    <2>1. /\ v \in [core : cs, slot : 1..m] /\ v.slot <= Len(tasks[v.core])
          /\ Fits(tasks[v.core][v.slot], from, length)
      BY <1>7, <1>9
    <2>2. v.core \in cs /\ v.slot \in 1..m /\ v \in [core : cs, slot : Nat]  BY <2>1
    <2>3. v.slot \in 1..Len(tasks[v.core])  BY <1>8, <2>1, <2>2
    <2>4. QED  BY <2>1, <2>2, <2>3 DEF IsVacancy
  <1>10. ASSUME NEW v, IsVacancy(v, from, length, cs)  PROVE v \in Vacancies(from, length, cs)
    <2>1. /\ v \in [core : cs, slot : Nat] /\ v.slot \in 1..Len(tasks[v.core])
          /\ Fits(tasks[v.core][v.slot], from, length)
      BY <1>10 DEF IsVacancy
    <2>2. v.core \in cs  BY <2>1
    <2>3. v.slot \in 1..m /\ v.slot <= Len(tasks[v.core])  BY <1>8, <2>1, <2>2
    <2>4. v \in [core : cs, slot : 1..m]  BY <2>1, <2>3
    <2>5. QED  BY <1>7, <2>1, <2>3, <2>4
  <1>11. QED  BY <1>9, <1>10

\* What get_sched_vacancy_node_info finds.
IsInside(p, from, length, cs) ==
    /\ p.core \in cs /\ p.start \in Nat /\ from <= p.start
    /\ p.slot \in 1..Len(tasks[p.core])
    /\ tasks[p.core][p.slot].node = None
    /\ tasks[p.core][p.slot].start <= p.start
    /\ p.start + length <= tasks[p.core][p.slot].end
    /\ \A v \in Vacancies(from, length, cs) : p.start <= StartIn(tasks[v.core][v.slot], from)

\* BestVacancy selects it, if there is a vacancy.
LEMMA VacancyEarliest ==
    ASSUME TaskInv, NEW from \in Nat, NEW length \in Nat, NEW cs \in SUBSET Cores,
           Vacancies(from, length, cs) # {}
    PROVE  IsInside(BestVacancy(from, length, cs), from, length, cs)
  <1>V. PICK V : V = Vacancies(from, length, cs)  OBVIOUS
  <1> DEFINE rank(v) == LET s == tasks[v.core][v.slot]
                        IN  <<StartIn(s, from), s.end, v.core, v.slot>>
  <1>r. PICK r : r = [v \in V |-> rank(v)]  OBVIOUS
  <1>1. ASSUME NEW v \in V
        PROVE  /\ v \in [core : cs, slot : Nat] /\ v.slot \in 1..Len(tasks[v.core])
               /\ v.core \in Cores
               /\ Fits(tasks[v.core][v.slot], from, length)
               /\ tasks[v.core][v.slot] \in SlotType
    <2>1. IsVacancy(v, from, length, cs)  BY <1>V, VacancyIs
    <2>2. v.core \in cs /\ v.core \in Cores  BY <2>1 DEF IsVacancy
    <2>3. tasks[v.core] \in Seq(SlotType)  BY <2>2 DEF TaskInv
    <2>4. tasks[v.core][v.slot] \in SlotType  BY <2>1, <2>3, ElementOfSeq DEF IsVacancy
    <2>5. QED  BY <2>1, <2>2, <2>4 DEF IsVacancy
  <1>2. ASSUME NEW v \in V
        PROVE  /\ r[v][1] = StartIn(tasks[v.core][v.slot], from) /\ r[v][1] \in Nat
               /\ r[v][2] \in Nat
               /\ r[v][3] = v.core /\ v.core \in Nat /\ r[v][4] = v.slot /\ v.slot \in Nat
    <2>1. PICK s \in SlotType : s = tasks[v.core][v.slot]  BY <1>1
    <2>2. s.start \in Nat /\ s.end \in Nat  BY DEF SlotType
    <2>3. StartIn(s, from) \in Nat  BY <2>2 DEF StartIn
    <2>4. r[v] = <<StartIn(s, from), s.end, v.core, v.slot>>  BY <1>r, <2>1
    <2>5. v.core \in Nat /\ v.slot \in Nat  BY <1>1, CoreAssumption DEF Cores
    <2>6. QED  BY <2>1, <2>2, <2>3, <2>4, <2>5
  <1>3. \A v \in V : \A i \in 1..4 : r[v][i] \in Nat
    <2>1. 1..4 = {1, 2, 3, 4}  OBVIOUS
    <2>2. \A v \in V : r[v][1] \in Nat /\ r[v][2] \in Nat /\ r[v][3] \in Nat /\ r[v][4] \in Nat
      BY <1>2
    <2>3. QED  BY <2>1, <2>2
  <1>4. ASSUME NEW v \in V, NEW w \in V, \A i \in 1..4 : r[v][i] = r[w][i]  PROVE v = w
    <2>1. r[v][3] = r[w][3] /\ r[v][4] = r[w][4]  BY <1>4
    <2>2. v.core = w.core /\ v.slot = w.slot  BY <1>2, <2>1
    <2>3. v \in [core : cs, slot : Nat] /\ w \in [core : cs, slot : Nat]  BY <1>1
    <2>4. QED  BY <2>2, <2>3
  <1>5. \E v \in V : \A w \in V \ {v} : Better(r, v, w)  BY <1>3, <1>4, <1>V, BestExists
  <1> DEFINE best(v) == \A w \in V \ {v} :
                \E i \in 1..4 : /\ rank(v)[i] < rank(w)[i]
                                /\ \A j \in 1..i - 1 : rank(v)[j] = rank(w)[j]
             b == CHOOSE v \in V : best(v)
  <1>6. BestVacancy(from, length, cs) = [core |-> b.core, start |-> rank(b)[1], slot |-> b.slot]
    BY <1>V DEF BestVacancy
  <1>7. \A v \in V : r[v] = rank(v)  BY <1>r
  <1>8. \A v \in V : best(v) <=> \A w \in V \ {v} : Better(r, v, w)
    <2> HIDE DEF rank
    <2>1. QED  BY <1>7 DEF Better
  <1>9. b \in V /\ best(b)
    <2> HIDE DEF best
    <2>1. QED  BY <1>5, <1>8
  <1>10. PICK v \in V : v = b /\ \A w \in V \ {v} : Better(r, v, w)
    <2> HIDE DEF best, b
    <2>1. QED  BY <1>8, <1>9
  <1>11. PICK s \in SlotType : s = tasks[v.core][v.slot] /\ Fits(s, from, length)  BY <1>1
  <1>12. PICK p : p = BestVacancy(from, length, cs)  OBVIOUS
  <1>13. p.core = v.core /\ p.start = r[v][1] /\ p.slot = v.slot
    <2> HIDE DEF rank, b
    <2>1. QED  BY <1>6, <1>7, <1>10, <1>12
  <1> HIDE DEF rank, best, b
  <1>14. p.start = StartIn(s, from) /\ p.start \in Nat  BY <1>2, <1>11, <1>13
  <1>15. s.start \in Nat /\ s.end \in Nat  BY DEF SlotType
  <1>16. /\ from <= p.start /\ s.node = None /\ s.start <= p.start /\ p.start + length <= s.end
    BY <1>11, <1>14, <1>15 DEF StartIn, Fits
  <1>17. ASSUME NEW w \in V  PROVE p.start <= StartIn(tasks[w.core][w.slot], from)
    <2>1. CASE w = v  BY <1>11, <1>14, <2>1
    <2>2. CASE w # v
      <3>1. PICK i \in 1..4 : r[v][i] < r[w][i] /\ \A j \in 1..i - 1 : r[v][j] = r[w][j]
        BY <1>10, <2>2 DEF Better
      <3>2. r[v][1] <= r[w][1]
        <4>1. CASE i = 1  BY <1>2, <3>1, <4>1
        <4>2. CASE i # 1
          <5>1. 1 \in 1..i - 1  BY <4>2
          <5>2. QED  BY <1>2, <3>1, <5>1
        <4>3. QED  BY <4>1, <4>2
      <3>3. QED  BY <1>2, <1>13, <3>2
    <2>3. QED  BY <2>1, <2>2
  <1>18. p.core \in cs /\ p.slot \in 1..Len(tasks[p.core])  BY <1>1, <1>13
  <1>19. tasks[p.core][p.slot] = s  BY <1>11, <1>13
  <1>20. QED  BY <1>12, <1>14, <1>16, <1>17, <1>18, <1>19, <1>V DEF IsInside

\* The place a part gets: behind a core's list or in one of its empty slots,
\* and no core could start it earlier.
IsSelected(p, from, length, cs) ==
    /\ p.core \in cs /\ p.start \in Nat /\ from <= p.start
    /\ \/ /\ p.slot = 0 /\ EscTime(p.core) <= p.start
          /\ p.start = from \/ p.start = EscTime(p.core)
       \/ /\ p.slot \in 1..Len(tasks[p.core])
          /\ tasks[p.core][p.slot].node = None
          /\ tasks[p.core][p.slot].start <= p.start
          /\ p.start + length <= tasks[p.core][p.slot].end
    /\ \A c \in cs, t \in Nat : CanStart(c, from, length, t) => p.start <= t

\* The vacancy and the end of a list together: no start is missed.
LEMMA SelectIsEarliest ==
    ASSUME TaskInv, NEW from \in Nat, NEW length \in Nat, NEW cs \in SUBSET Cores, cs # {}
    PROVE  IsSelected(Select(from, length, cs), from, length, cs)
  <1>1. PICK p : p = Behind(from, cs) /\ IsBehind(p, from, cs)  BY BehindEarliest
  <1>2. PICK q : q = BestVacancy(from, length, cs)  OBVIOUS
  <1>V. PICK V : V = Vacancies(from, length, cs)  OBVIOUS
  <1>3. V # {} => IsInside(q, from, length, cs)  BY <1>2, <1>V, VacancyEarliest
  <1>4. ASSUME NEW c \in cs, NEW t \in Nat, CanStart(c, from, length, t)
        PROVE  \/ p.start <= t
               \/ V # {} /\ q.start <= t
    <2>1. CASE EscTime(c) <= t  BY <1>1, <1>4, <2>1 DEF IsBehind, CanStart
    <2>2. CASE ~(EscTime(c) <= t)
      <3>1. PICK l \in 1..Len(tasks[c]) :
               /\ tasks[c][l].node = None
               /\ tasks[c][l].start <= t /\ t + length <= tasks[c][l].end
        BY <1>4, <2>2 DEF CanStart
      <3>2. tasks[c] \in Seq(SlotType) /\ Len(tasks[c]) \in Nat  BY LenProperties DEF TaskInv
      <3>3. PICK s \in SlotType : s = tasks[c][l]  BY <3>2, ElementOfSeq
      <3>4. s.start \in Nat /\ s.end \in Nat  BY DEF SlotType
      <3>5. from <= t  BY <1>4 DEF CanStart
      <3>6. StartIn(s, from) <= t /\ StartIn(s, from) \in Nat /\ Fits(s, from, length)
        BY <3>1, <3>3, <3>4, <3>5 DEF StartIn, Fits
      <3>7. PICK v : v = [core |-> c, slot |-> l]  OBVIOUS
      <3>8. v.core = c /\ v.slot = l /\ v \in [core : cs, slot : Nat]  BY <3>2, <3>7
      <3>9. IsVacancy(v, from, length, cs)  BY <3>3, <3>6, <3>8 DEF IsVacancy
      <3>10. v \in V  BY <1>V, <3>9, VacancyIs
      <3>11. q.start <= StartIn(s, from) /\ q.start \in Nat
        BY <1>3, <1>V, <3>3, <3>8, <3>10 DEF IsInside
      <3>12. QED  BY <3>6, <3>10, <3>11
    <2>3. QED  BY <2>1, <2>2
  <1>5. CASE V # {} /\ q.start <= p.start
    <2>1. Select(from, length, cs) = q  BY <1>1, <1>2, <1>V, <1>5 DEF Select
    <2>2. IsInside(q, from, length, cs)  BY <1>3, <1>5
    <2>3. q.start \in Nat /\ p.start \in Nat  BY <1>1, <2>2 DEF IsInside, IsBehind
    <2>4. \A c \in cs, t \in Nat : CanStart(c, from, length, t) => q.start <= t
      BY <1>4, <1>5, <2>3
    <2>5. IsSelected(q, from, length, cs)  BY <2>2, <2>4 DEF IsSelected, IsInside
    <2>6. QED  BY <2>1, <2>5
  <1>6. CASE ~(V # {} /\ q.start <= p.start)
    <2>1. Select(from, length, cs) = p  BY <1>1, <1>2, <1>V, <1>6 DEF Select
    <2>2. p.start \in Nat  BY <1>1 DEF IsBehind
    <2>3. ASSUME NEW c \in cs, NEW t \in Nat, CanStart(c, from, length, t)
          PROVE  p.start <= t
      <3>1. SUFFICES ASSUME V # {}, q.start <= t  PROVE p.start <= t  BY <1>4, <2>3
      <3>2. q.start \in Nat  BY <1>3, <3>1 DEF IsInside
      <3>3. QED  BY <1>6, <2>2, <3>1, <3>2
    <2>4. IsSelected(p, from, length, cs)  BY <1>1, <2>3 DEF IsSelected, IsBehind
    <2>5. QED  BY <2>1, <2>4
  <1>7. QED  BY <1>5, <1>6

\* A list without slots.
LEMMA EmptyTiles ==
    /\ <<>> \in Seq(SlotType) /\ Tiles(<<>>, 0, 0) /\ Held(<<>>) = {}
    /\ \A n : HasOnce(<<>>, n) /\ ~HasNode(<<>>, n)
  <1>1. <<>> \in Seq(SlotType) /\ Len(<<>>) = 0 /\ DOMAIN <<>> = {}  OBVIOUS
  <1>2. 1..0 = {} /\ 1..0 - 1 = {}  OBVIOUS
  <1>3. QED  BY <1>1, <1>2 DEF Tiles, Held, HasOnce, HasNode

-----------------------------------------------------------------------------
(* The inductive invariant.                                                *)

SchedType ==
    /\ run_time \in [Nodes -> Nat]
    /\ core \in CoreMaps /\ core \in [Nodes -> Nat \ {0}]
    /\ queue \subseteq Nodes
    /\ pc \in SchedPC
    /\ node \in Nodes \cup {None} /\ (pc \in {"try", "place"} => node \in Nodes)
    /\ min_start_time \in Nat
    /\ used \subseteq Cores
    /\ start \in Nat /\ success \in BOOLEAN /\ next_min \in Nat \cup {None}
    /\ makespan \in Nat

\* A round of the trial: the first core's start is not early, and once a core
\* could not keep up there is a next time to try.
RoundInv ==
    pc = "try" /\ used # {} =>
        min_start_time <= start /\ (success = FALSE => next_min # None)

\* A node runs at time t; at every time before T.
Busy(t) == \E c \in Cores : \E s \in NonEmpty(tasks[c]) : s.start <= t /\ t < s.end
BusyBefore(T) == \A t \in 0..T - 1 : Busy(t)

BusyInv ==
    /\ \A c \in Cores : BusyBefore(EscTime(c))
    /\ pc \in {"try", "place"} => BusyBefore(min_start_time)
    /\ pc = "try" /\ used # {} =>
          BusyBefore(start) /\ (next_min # None => BusyBefore(next_min))
    /\ pc = "done" => BusyBefore(makespan)

\* Whatever the schedule is, it is one, and no time before its end is idle.
TimeInv == SchedType /\ TaskInv /\ RoundInv /\ BusyInv

\* The cores that have a part of node n; all its parts start at time t.
On(n) == {c \in Cores : HasNode(tasks[c], n)}
StartsAt(n, t) ==
    \A c \in Cores : \A s \in NonEmpty(tasks[c]) :
        s.node = n => s.start = t /\ s.end = t + run_time[n]

\* Which nodes have parts, and on which cores.
WhereInv ==
    /\ \A c \in Cores, n \in Nodes : HasOnce(tasks[c], n)
    /\ pc = "graph" => \A n \in Nodes : On(n) = {}
    /\ \A n \in queue : On(n) = {}
    /\ pc \in {"try", "place"} => node \notin queue
    /\ pc = "try" => On(node) = {}
    /\ pc = "place" => On(node) = used

DoneInv ==
    \A n \in Nodes : Complete(n) =>
        Cardinality(On(n)) = core[n] /\ \E t \in Nat : StartsAt(n, t)

\* No core of cs could start the current node before the time start; a set of
\* as many cores as it needs could start it then.
NotEarlier(cs) ==
    \A c \in cs : \A t \in 0..start - 1 : ~CanStart(c, min_start_time, run_time[node], t)
Together(cs) == \A c \in cs : CanStart(c, min_start_time, run_time[node], start)

TrialInv ==
    pc = "try" =>
        /\ Cardinality(used) <= core[node]
        /\ used # {} => NotEarlier(Cores) /\ (success = TRUE => Together(used))

PlaceInv ==
    pc = "place" =>
        /\ Cardinality(used) < core[node]
        /\ core[node] > 1 =>
              /\ StartsAt(node, start) /\ NotEarlier(Cores \ used)
              /\ \E U \in SUBSET Cores : Cardinality(U) = core[node] /\ Together(U \ used)

GangInv == WhereInv /\ DoneInv /\ TrialInv /\ PlaceInv

-----------------------------------------------------------------------------
(* Putting a part.                                                         *)

\* The part of a node that one core is given.
Part(p) == Slot(node, p.start, p.start + run_time[node])

\* What putting a part does to the lists of the cores.
IsPlaced(p) ==
    /\ TaskInv'
    /\ \A c \in Cores : c # p.core => tasks'[c] = tasks[c]
    /\ IsPut(tasks[p.core], tasks'[p.core], Part(p))
    /\ EscTime(p.core)' = EscTime(p.core) \/ EscTime(p.core)' = p.start + run_time[node]
    /\ p.slot # 0 => p.start <= EscTime(p.core)

\* Both branches of the placement put the part.
LEMMA PlacePuts ==
    ASSUME TaskInv, SchedType, node \in Nodes, NEW cs \in SUBSET Cores, NEW p,
           IsSelected(p, min_start_time, run_time[node], cs),
           tasks' = [tasks EXCEPT ![p.core] =
                        IF p.slot > 0 THEN Filled(p, node) ELSE Pushed(p, node)]
    PROVE  IsPlaced(p)
  <1>1. PICK c \in Cores : c = p.core  BY DEF IsSelected
  <1>2. PICK s \in Seq(SlotType) : s = tasks[c]  BY DEF TaskInv
  <1>3. PICK e \in Nat : e = EscTime(c) /\ Tiles(s, 0, e)  BY <1>2 DEF TaskInv
  <1>4. p.start \in Nat /\ run_time[node] \in Nat  BY DEF IsSelected, SchedType
  <1>5. PICK x \in SlotType : x = Part(p)
    <2>1. PICK b \in Nat : b = p.start + run_time[node]  BY <1>4
    <2>2. Slot(node, p.start, b) \in SlotType  BY <1>4 DEF Slot, SlotType
    <2>3. QED  BY <2>1, <2>2 DEF Part
  <1>6. x.node = node /\ x.start = p.start /\ x.end = p.start + run_time[node]
    BY <1>5 DEF Part, Slot
  <1>7. Proper(x) /\ x.node \in Nodes
    <2>1. node # None  BY GraphAssumption DEF Nodes
    <2>2. QED  BY <1>4, <1>6, <2>1 DEF Proper
  <1>8. PICK u : u = tasks'[c]  OBVIOUS
  <1>9. \A d \in Cores : d # c => tasks'[d] = tasks[d]  BY <1>1 DEF TaskInv
  <1>10. u = IF p.slot > 0 THEN Filled(p, node) ELSE Pushed(p, node)
    BY <1>1, <1>8 DEF TaskInv
  <1>11. /\ IsPut(s, u, x)
         /\ Tiles(u, 0, e) \/ Tiles(u, 0, x.end)
         /\ p.slot # 0 => p.start <= e
    <2>1. CASE p.slot = 0
      <3>1. e <= x.start  BY <1>1, <1>3, <1>6, <2>1 DEF IsSelected
      <3>2. u = (s \o Gap(e, x.start)) \o <<x>>
        <4>1. ~(p.slot > 0)  BY <2>1
        <4>2. u = Pushed(p, node)  BY ONLY <1>10, <4>1
        <4>3. Pushed(p, node) = (tasks[p.core] \o Gap(EscTime(p.core), p.start)) \o <<Part(p)>>
          BY DEF Pushed, Part
        <4>4. QED  BY ONLY <1>1, <1>2, <1>3, <1>5, <1>6, <4>2, <4>3
      <3>3. QED  BY <1>3, <1>7, <2>1, <3>1, <3>2, PutBehind
    <2>2. CASE p.slot # 0
      <3>1. PICK k \in 1..Len(s) : k = p.slot  BY <1>1, <1>2, <2>2 DEF IsSelected
      <3>2. /\ s[k].node = None /\ s[k].start <= x.start /\ x.end <= s[k].end
        BY <1>1, <1>2, <1>6, <2>2, <3>1 DEF IsSelected
      <3>3. k > 0  BY LenProperties
      <3>4. u = (((SubSeq(s, 1, k - 1) \o Gap(s[k].start, x.start)) \o <<x>>)
                 \o Gap(x.end, s[k].end)) \o SubSeq(s, k + 1, Len(s))
        BY <1>1, <1>2, <1>5, <1>6, <1>10, <3>1, <3>3 DEF Filled, Part
      <3>5. IsPut(s, u, x) /\ Tiles(u, 0, e)  BY <1>3, <1>7, <3>2, <3>4, PutInside
      <3>6. s[k] \in SlotType /\ s[k].end <= e  BY <1>3, TilesBetween
      <3>7. p.start <= e
        <4>1. s[k].end \in Nat  BY <3>6 DEF SlotType
        <4>2. QED  BY <1>4, <1>6, <3>2, <3>6, <4>1
      <3>8. QED  BY <3>5, <3>7
    <2>3. QED  BY <2>1, <2>2
  <1>12. u \in Seq(SlotType)  BY <1>11 DEF IsPut
  <1>13. \/ EscTime(c)' = e /\ Tiles(u, 0, e)
         \/ EscTime(c)' = x.end /\ Tiles(u, 0, x.end)
    <2>1. ASSUME NEW f, Tiles(u, 0, f)  PROVE EscTime(c)' = f
      <3>1. CASE u = <<>>  BY <1>8, <2>1, <3>1 DEF EscTime, Tiles
      <3>2. CASE u # <<>>  BY <1>8, <2>1, <3>2 DEF EscTime, Tiles
      <3>3. QED  BY <3>1, <3>2
    <2>2. QED  BY <1>11, <2>1
  <1>14. x.end \in Nat  BY DEF SlotType
  <1>15. EscTime(c)' \in Nat /\ Tiles(u, 0, EscTime(c)')  BY <1>13, <1>14
  <1>16. TaskInv'
    <2>1. tasks' \in [Cores -> Seq(SlotType)]
      <3>1. tasks' = [tasks EXCEPT ![c] = u]  BY <1>1, <1>8 DEF TaskInv
      <3>2. QED  BY <1>12, <3>1 DEF TaskInv
    <2>2. ASSUME NEW d \in Cores  PROVE EscTime(d)' \in Nat /\ Tiles(tasks'[d], 0, EscTime(d)')
      <3>1. CASE d = c  BY <1>8, <1>15, <3>1
      <3>2. CASE d # c
        <4>1. tasks'[d] = tasks[d]  BY <1>9, <3>2
        <4>2. EscTime(d)' = EscTime(d)  BY <4>1 DEF EscTime
        <4>3. QED  BY <4>1, <4>2 DEF TaskInv
      <3>3. QED  BY <3>1, <3>2
    <2>3. QED  BY <2>1, <2>2 DEF TaskInv
  <1>17. QED  BY <1>1, <1>2, <1>3, <1>5, <1>6, <1>8, <1>9, <1>11, <1>13, <1>16 DEF IsPlaced

-----------------------------------------------------------------------------
(* The schedule has no idle time.                                          *)

\* Times before a busy time.
LEMMA BusyLess ==
    ASSUME NEW T \in Nat, NEW U \in Nat, U <= T, BusyBefore(T)
    PROVE  BusyBefore(U)
  <1>1. \A t \in 0..U - 1 : t \in 0..T - 1  OBVIOUS
  <1>2. QED  BY <1>1 DEF BusyBefore

\* Nothing is idle before time 0.
LEMMA BusyNever == BusyBefore(0)
  <1>1. 0..0 - 1 = {}  OBVIOUS
  <1>2. QED  BY <1>1 DEF BusyBefore

\* A node starts at a time before which nothing is idle.
LEMMA SelectBusy ==
    ASSUME TaskInv, \A c \in Cores : BusyBefore(EscTime(c)), NEW from \in Nat, BusyBefore(from),
           NEW length \in Nat, NEW cs \in SUBSET Cores, NEW p, IsSelected(p, from, length, cs)
    PROVE  BusyBefore(p.start)
  <1>1. PICK c \in Cores : c = p.core  BY DEF IsSelected
  <1>2. p.start \in Nat  BY DEF IsSelected
  <1>3. PICK e \in Nat : e = EscTime(c) /\ Tiles(tasks[c], 0, e)  BY DEF TaskInv
  <1>4. CASE p.slot = 0 /\ (p.start = from \/ p.start = e)
    BY <1>3, <1>4
  <1>5. CASE p.slot \in 1..Len(tasks[c]) /\ p.start + length <= tasks[c][p.slot].end
    <2>1. PICK s \in Seq(SlotType) : s = tasks[c]  BY DEF TaskInv
    <2>2. PICK k \in 1..Len(s) : k = p.slot  BY <1>5, <2>1
    <2>3. s[k] \in SlotType /\ s[k].end <= e  BY <1>3, <2>1, TilesBetween
    <2>4. s[k].end \in Nat  BY <2>3 DEF SlotType
    <2>5. p.start <= e  BY <1>2, <1>5, <2>1, <2>2, <2>3, <2>4
    <2>6. QED  BY <1>2, <1>3, <2>5, BusyLess
  <1>6. QED  BY <1>1, <1>3, <1>4, <1>5 DEF IsSelected

\* The slots that are placed end where nothing before is idle.
LEMMA PlacedEnds ==
    ASSUME TaskInv, NEW s \in Placed
    PROVE  s \in SlotType /\ \E c \in Cores : s.end <= EscTime(c) /\ s \in Held(tasks[c])
  <1>1. PICK c \in Cores : s \in SlotsOf(c)  BY DEF Placed
  <1>2. PICK l \in DOMAIN tasks[c] : s = tasks[c][l]  BY <1>1 DEF SlotsOf
  <1>3. PICK u \in Seq(SlotType) : u = tasks[c]  BY DEF TaskInv
  <1>4. PICK e \in Nat : e = EscTime(c) /\ Tiles(u, 0, e)  BY <1>3 DEF TaskInv
  <1>5. l \in 1..Len(u) /\ DOMAIN u = 1..Len(u)  BY <1>3, LenProperties
  <1>6. u[l] \in SlotType /\ u[l].end <= e  BY <1>4, <1>5, TilesBetween
  <1>7. u[l] \in Held(u)  BY <1>5 DEF Held
  <1>8. QED  BY <1>2, <1>3, <1>4, <1>6, <1>7

\* The ends of the cores' lists have a bound.
LEMMA EscBound ==
    ASSUME TaskInv
    PROVE  \E b \in Nat : \A c \in Cores : EscTime(c) \in Nat /\ EscTime(c) <= b
  <1>1. PICK e : e = [c \in Cores |-> EscTime(c)]  OBVIOUS
  <1>2. \A c \in Cores : e[c] = EscTime(c) /\ e[c] \in Nat  BY <1>1 DEF TaskInv
  <1>3. PICK b \in Nat : \A c \in Cores : e[c] <= b  BY <1>2, Bounded
  <1>4. QED  BY <1>2, <1>3

\* get_min_start_time.
LEMMA MinStartBusy ==
    ASSUME TaskInv, \A c \in Cores : BusyBefore(EscTime(c)), NEW n
    PROVE  GetMinStartTime(n) \in Nat /\ BusyBefore(GetMinStartTime(n))
  <1>1. PICK b \in Nat : \A c \in Cores : EscTime(c) \in Nat /\ EscTime(c) <= b  BY EscBound
  <1>2. PICK S : S = {0} \cup {s.end : s \in {s \in Placed : s.node \in ChildList(n)}}  OBVIOUS
  <1>3. ASSUME NEW x \in S, x # 0
        PROVE  x \in Nat /\ \E c \in Cores : x <= EscTime(c)
    <2>1. PICK s \in Placed : x = s.end  BY <1>2, <1>3
    <2>2. s \in SlotType /\ \E c \in Cores : s.end <= EscTime(c)  BY PlacedEnds
    <2>3. QED  BY <2>1, <2>2 DEF SlotType
  <1>4. S \in SUBSET Nat /\ S # {}
    <2>1. \A x \in S : x \in Nat  BY <1>3
    <2>2. 0 \in S  BY <1>2
    <2>3. QED  BY ONLY <2>1, <2>2
  <1>5. \A x \in S : x <= b
    <2>1. SUFFICES ASSUME NEW x \in S, x # 0  PROVE x <= b  OBVIOUS
    <2>2. PICK c \in Cores : x <= EscTime(c)  BY <1>3, <2>1
    <2>3. QED  BY <1>1, <1>4, <2>2
  <1>6. PICK m \in S : m = MaxOf(S) /\ m \in Nat  BY <1>4, <1>5, Greatest
  <1>7. m = GetMinStartTime(n)  BY <1>2, <1>6 DEF GetMinStartTime
  <1>8. BusyBefore(m)
    <2>1. CASE m = 0  BY <2>1, BusyNever
    <2>2. CASE m # 0
      <3>1. PICK c \in Cores : m <= EscTime(c)  BY <1>3, <2>2
      <3>2. QED  BY <1>1, <1>6, <3>1, BusyLess
    <2>3. QED  BY <2>1, <2>2
  <1>9. QED  BY <1>6, <1>7, <1>8

\* Steps that leave the lists alone.
LEMMA SameTasks ==
    ASSUME tasks' = tasks
    PROVE  /\ TaskInv => TaskInv'
           /\ \A c : EscTime(c)' = EscTime(c)
           /\ \A t : Busy(t)' <=> Busy(t)
  <1>1. \A c : EscTime(c)' = EscTime(c)  BY DEF EscTime
  <1>2. QED  BY <1>1 DEF TaskInv, Busy

\* The rest of the invariant after a step that leaves the lists alone.
LEMMA BusySame ==
    ASSUME tasks' = tasks, BusyInv,
           pc' \in {"try", "place"} => BusyBefore(min_start_time'),
           pc' = "try" /\ used' # {} =>
              BusyBefore(start') /\ (next_min' # None => BusyBefore(next_min')),
           pc' = "done" => BusyBefore(makespan')
    PROVE  BusyInv'
  <1>1. \A t : Busy(t)' <=> Busy(t)  BY SameTasks
  <1>2. ASSUME NEW c \in Cores  PROVE BusyBefore(EscTime(c))'
    <2>1. EscTime(c)' = EscTime(c) /\ BusyBefore(EscTime(c))  BY SameTasks DEF BusyInv
    <2>2. QED  BY <1>1, <2>1 DEF BusyBefore
  <1>3. BusyBefore(min_start_time') => BusyBefore(min_start_time)'  BY <1>1 DEF BusyBefore
  <1>4. BusyBefore(start') => BusyBefore(start)'  BY <1>1 DEF BusyBefore
  <1>5. BusyBefore(next_min') => BusyBefore(next_min)'  BY <1>1 DEF BusyBefore
  <1>6. BusyBefore(makespan') => BusyBefore(makespan)'  BY <1>1 DEF BusyBefore
  <1>7. QED  BY <1>2, <1>3, <1>4, <1>5, <1>6 DEF BusyInv

\* No core has a slot at the beginning.
LEMMA TimeInit == ASSUME Init  PROVE TimeInv
  <1>1. \A c \in Cores : tasks[c] = <<>> /\ EscTime(c) = 0  BY DEF Init, EscTime
  <1>2. tasks \in [Cores -> Seq(SlotType)]  BY EmptyTiles DEF Init
  <1>3. TaskInv  BY <1>1, <1>2, EmptyTiles DEF TaskInv
  <1>4. SchedType
    <2>1. run_time \in [Nodes -> Nat]  BY GraphAssumption DEF Init, GraphInit
    <2>2. core \in [Nodes -> Nat \ {0}]  BY CoreAssumption DEF Init
    <2>3. QED  BY <2>1, <2>2 DEF Init, SchedType, SchedPC
  <1>5. RoundInv  BY DEF Init, RoundInv
  <1>6. BusyInv  BY <1>1, BusyNever DEF Init, BusyInv
  <1>7. QED  BY <1>3, <1>4, <1>5, <1>6 DEF TimeInv

\* The steps of the graph's code.
LEMMA TimeGraph == ASSUME TimeInv, GraphNext, UNCHANGED schedVars  PROVE TimeInv'
  <1>1. run_time' = run_time
    BY DEF GraphNext, CreateDag, DagDone, SetToRoot, InsertHangs, StartLaxity, ComputeLaxity,
           StackOverflow, LaxityDone, file
  <1>2. UNCHANGED <<core, tasks, queue, pc, makespan, node, min_start_time, used, start,
                    success, next_min>>
    BY DEF schedVars, search
  <1>3. TaskInv'  BY <1>2, SameTasks DEF TimeInv
  <1>4. SchedType' /\ RoundInv'  BY <1>1, <1>2 DEF TimeInv, SchedType, RoundInv
  <1>5. BusyInv'  BY <1>2, BusySame DEF TimeInv, BusyInv
  <1>6. QED  BY <1>3, <1>4, <1>5 DEF TimeInv

\* The queue is filled.
LEMMA TimeNodeQueue == ASSUME TimeInv, NodeQueue  PROVE TimeInv'
  <1>1. /\ UNCHANGED <<run_time, core, tasks, makespan, node, min_start_time, used, start,
                       success, next_min>>
        /\ queue' = Nodes /\ pc' = "pick"
    BY DEF NodeQueue, graphVars, file, search
  <1>2. TaskInv'  BY <1>1, SameTasks DEF TimeInv
  <1>3. SchedType' /\ RoundInv'  BY <1>1 DEF TimeInv, SchedType, RoundInv, SchedPC
  <1>4. BusyInv'  BY <1>1, BusySame DEF TimeInv
  <1>5. QED  BY <1>2, <1>3, <1>4 DEF TimeInv

\* A node is taken from the queue.
LEMMA TimePickNode == ASSUME TimeInv, NEW n \in Nodes, PickNode(n)  PROVE TimeInv'
  <1>1. /\ UNCHANGED <<run_time, core, tasks, makespan, start, success, next_min>>
        /\ queue' = queue \ {n} /\ node' = n /\ min_start_time' = GetMinStartTime(n)
        /\ used' = {} /\ pc' \in {"try", "place"}
    BY DEF PickNode, graphVars, file
  <1>2. TaskInv'  BY <1>1, SameTasks DEF TimeInv
  <1>3. min_start_time' \in Nat /\ BusyBefore(min_start_time')
    BY <1>1, MinStartBusy DEF TimeInv, BusyInv
  <1>4. SchedType' /\ RoundInv'  BY <1>1, <1>3 DEF TimeInv, SchedType, RoundInv, SchedPC
  <1>5. BusyInv'  BY <1>1, <1>3, BusySame DEF TimeInv
  <1>6. QED  BY <1>2, <1>4, <1>5 DEF TimeInv

\* at(-1) throws.
LEMMA TimeNoCoreLeft == ASSUME TimeInv, NoCoreLeft  PROVE TimeInv'
  <1>1. /\ UNCHANGED <<run_time, core, tasks, queue, makespan, node, min_start_time, used, start,
                       success, next_min>>
        /\ pc' = "crash"
    BY DEF NoCoreLeft, graphVars, file, search
  <1>2. TaskInv'  BY <1>1, SameTasks DEF TimeInv
  <1>3. SchedType' /\ RoundInv'  BY <1>1 DEF TimeInv, SchedType, RoundInv, SchedPC
  <1>4. BusyInv'  BY <1>1, BusySame DEF TimeInv
  <1>5. QED  BY <1>2, <1>3, <1>4 DEF TimeInv

\* What the trial finds for its first core.
LEMMA TryFirstSelects ==
    ASSUME TimeInv, TryFirst
    PROVE  \E p : /\ IsSelected(p, min_start_time, run_time[node], Cores)
                  /\ used' = {p.core} /\ start' = p.start /\ success' = TRUE /\ next_min' = None
                  /\ UNCHANGED <<run_time, core, tasks, queue, pc, node, min_start_time, makespan>>
                  /\ pc = "try" /\ node \in Nodes
  <1>1. pc = "try" /\ node \in Nodes  BY DEF TimeInv, SchedType, TryFirst
  <1>2. run_time[node] \in Nat /\ min_start_time \in Nat  BY <1>1 DEF TimeInv, SchedType
  <1>3. Cores # {}
    <2>1. 0 \in Cores  BY CoreAssumption DEF Cores
    <2>2. QED  BY <2>1
  <1>4. PICK p : p = Select(min_start_time, run_time[node], Cores)  OBVIOUS
  <1>5. IsSelected(p, min_start_time, run_time[node], Cores)
    BY <1>2, <1>3, <1>4, SelectIsEarliest DEF TimeInv
  <1>6. QED  BY <1>1, <1>4, <1>5 DEF TryFirst, graphVars, file

\* The first core of a round.
LEMMA TimeTryFirst == ASSUME TimeInv, TryFirst  PROVE TimeInv'
  <1>1. PICK p : /\ IsSelected(p, min_start_time, run_time[node], Cores)
                 /\ used' = {p.core} /\ start' = p.start /\ success' = TRUE /\ next_min' = None
                 /\ UNCHANGED <<run_time, core, tasks, queue, pc, node, min_start_time, makespan>>
                 /\ pc = "try" /\ node \in Nodes
    BY TryFirstSelects
  <1>2. TaskInv'  BY <1>1, SameTasks DEF TimeInv
  <1>3. p.core \in Cores /\ p.start \in Nat /\ min_start_time <= p.start
    BY <1>1 DEF IsSelected
  <1>4. SchedType' /\ RoundInv'  BY <1>1, <1>3 DEF TimeInv, SchedType, RoundInv
  <1>5. BusyBefore(p.start)
    <2>1. run_time[node] \in Nat /\ min_start_time \in Nat  BY <1>1 DEF TimeInv, SchedType
    <2>2. BusyBefore(min_start_time) /\ \A c \in Cores : BusyBefore(EscTime(c))
      BY <1>1 DEF TimeInv, BusyInv
    <2>3. QED  BY <1>1, <2>1, <2>2, SelectBusy DEF TimeInv
  <1>6. BusyInv'  BY <1>1, <1>5, BusySame DEF TimeInv, BusyInv
  <1>7. QED  BY <1>2, <1>4, <1>6 DEF TimeInv

\* What it finds for the others.
LEMMA TryNextSelects ==
    ASSUME TimeInv, TryNext
    PROVE  \E p : /\ IsSelected(p, start, run_time[node], Cores \ used)
                  /\ used' = used \cup {p.core} /\ next_min' = NextMin(p.start)
                  /\ success' = (success /\ p.start = start)
                  /\ UNCHANGED <<run_time, core, tasks, queue, pc, node, min_start_time, start,
                                 makespan>>
                  /\ pc = "try" /\ node \in Nodes /\ used # {} /\ Cardinality(used) < core[node]
  <1>1. pc = "try" /\ node \in Nodes  BY DEF TimeInv, SchedType, TryNext
  <1>2. run_time[node] \in Nat /\ start \in Nat /\ used \subseteq Cores
    BY <1>1 DEF TimeInv, SchedType
  <1>3. Cores \ used # {} /\ Cores \ used \in SUBSET Cores  BY <1>2 DEF TryNext
  <1>4. PICK p : p = Select(start, run_time[node], Cores \ used)  OBVIOUS
  <1>5. IsSelected(p, start, run_time[node], Cores \ used)
    BY <1>2, <1>3, <1>4, SelectIsEarliest DEF TimeInv
  <1>6. QED  BY <1>1, <1>4, <1>5 DEF TryNext, graphVars, file

\* The next core of a round.
LEMMA TimeTryNext == ASSUME TimeInv, TryNext  PROVE TimeInv'
  <1>1. PICK p : /\ IsSelected(p, start, run_time[node], Cores \ used)
                 /\ used' = used \cup {p.core} /\ next_min' = NextMin(p.start)
                 /\ success' = (success /\ p.start = start)
                 /\ UNCHANGED <<run_time, core, tasks, queue, pc, node, min_start_time, start,
                                makespan>>
                 /\ pc = "try" /\ node \in Nodes /\ used # {} /\ Cardinality(used) < core[node]
    BY TryNextSelects
  <1>2. TaskInv'  BY <1>1, SameTasks DEF TimeInv
  <1>3. p.core \in Cores /\ p.start \in Nat /\ start <= p.start  BY <1>1 DEF IsSelected
  <1>4. /\ min_start_time \in Nat /\ start \in Nat /\ min_start_time <= start
        /\ next_min \in Nat \cup {None} /\ None \notin Nat
        /\ success = FALSE => next_min # None
    BY <1>1, GraphAssumption DEF TimeInv, SchedType, RoundInv
  <1>5. next_min' \in Nat \cup {None} /\ (next_min' = next_min \/ next_min' = p.start)
    BY <1>1, <1>3, <1>4 DEF NextMin
  <1>6. success' = TRUE \/ success' = FALSE
    <2>1. success = TRUE \/ success = FALSE  BY DEF TimeInv, SchedType
    <2>2. QED  BY <1>1, <2>1, Zenon
  <1>7. ASSUME success' = FALSE  PROVE next_min' # None
    <2>1. CASE success = FALSE  BY <1>3, <1>4, <1>5, <2>1
    <2>2. CASE p.start # start
      <3>1. min_start_time < p.start  BY <1>3, <1>4, <2>2
      <3>2. QED  BY <1>1, <1>3, <1>4, <3>1 DEF NextMin
    <2>3. QED
      <3>1. success = TRUE \/ success = FALSE  BY DEF TimeInv, SchedType
      <3>2. QED  BY <1>1, <1>7, <2>1, <2>2, <3>1, Zenon
  <1>8. SchedType'
    <2>1. success' \in BOOLEAN  BY <1>6, Zenon
    <2>2. QED  BY <1>1, <1>3, <1>5, <2>1 DEF TimeInv, SchedType
  <1>9. RoundInv'  BY <1>1, <1>4, <1>7 DEF RoundInv
  <1>10. /\ BusyBefore(start) /\ (next_min # None => BusyBefore(next_min))
         /\ BusyBefore(min_start_time)
         /\ \A c \in Cores : BusyBefore(EscTime(c))
    BY <1>1 DEF TimeInv, BusyInv
  <1>11. BusyBefore(p.start)
    <2>1. run_time[node] \in Nat /\ Cores \ used \in SUBSET Cores
      BY <1>1 DEF TimeInv, SchedType
    <2>2. QED  BY <1>1, <1>4, <1>10, <2>1, SelectBusy DEF TimeInv
  <1>12. BusyInv'
    <2>1. next_min' # None => BusyBefore(next_min')  BY <1>5, <1>10, <1>11
    <2>2. QED  BY <1>1, <1>10, <2>1, BusySame DEF TimeInv
  <1>13. QED  BY <1>2, <1>8, <1>9, <1>12 DEF TimeInv

\* A round ends: a failed one has a next time to try.
LEMMA TimeTryEnd == ASSUME TimeInv, TryEnd  PROVE TimeInv'
  <1>1. /\ UNCHANGED <<run_time, core, tasks, queue, node, start, success, next_min, makespan>>
        /\ pc = "try" /\ used' = {} /\ Cardinality(used) = core[node]
        /\ \/ success /\ pc' = "place" /\ min_start_time' = min_start_time
           \/ ~success /\ pc' = "try" /\ min_start_time' = next_min
    BY DEF TryEnd, AllTogether, graphVars, file
  <1>2. TaskInv'  BY <1>1, SameTasks DEF TimeInv
  <1>3. used # {}
    <2>1. core[node] # 0  BY <1>1 DEF TimeInv, SchedType
    <2>2. QED  BY <1>1, <2>1, FS_EmptySet
  <1>4. min_start_time' \in Nat /\ BusyBefore(min_start_time')
    <2>1. CASE min_start_time' = min_start_time
      BY <1>1, <2>1 DEF TimeInv, SchedType, BusyInv
    <2>2. CASE ~success /\ min_start_time' = next_min
      <3>1. success = FALSE  BY <2>2 DEF TimeInv, SchedType
      <3>2. next_min # None /\ next_min \in Nat
        BY <1>1, <1>3, <3>1 DEF TimeInv, SchedType, RoundInv
      <3>3. BusyBefore(next_min)  BY <1>1, <1>3, <3>2 DEF TimeInv, BusyInv
      <3>4. QED  BY <2>2, <3>2, <3>3
    <2>3. QED  BY <1>1, <2>1, <2>2
  <1>5. SchedType' /\ RoundInv'  BY <1>1, <1>4 DEF TimeInv, SchedType, RoundInv, SchedPC
  <1>6. BusyInv'  BY <1>1, <1>4, BusySame DEF TimeInv
  <1>7. QED  BY <1>2, <1>5, <1>6 DEF TimeInv

\* What the second pass finds.
LEMMA PlaceSelects ==
    ASSUME TimeInv, Place
    PROVE  \E p : /\ IsSelected(p, min_start_time, run_time[node], Cores \ used) /\ IsPlaced(p)
                  /\ used' = used \cup {p.core} /\ p.core \in Cores \ used /\ p.start \in Nat
                  /\ pc' = (IF Cardinality(used) + 1 = core[node] THEN "pick" ELSE "place")
                  /\ UNCHANGED <<run_time, core, queue, node, min_start_time, start, success,
                                 next_min, makespan>>
                  /\ pc = "place" /\ node \in Nodes
  <1>1. pc = "place" /\ node \in Nodes  BY DEF TimeInv, SchedType, Place
  <1>2. run_time[node] \in Nat /\ min_start_time \in Nat /\ used \subseteq Cores
    BY <1>1 DEF TimeInv, SchedType
  <1>3. Cores \ used # {} /\ Cores \ used \in SUBSET Cores  BY <1>2 DEF Place
  <1>4. PICK p : p = Select(min_start_time, run_time[node], Cores \ used)  OBVIOUS
  <1>5. IsSelected(p, min_start_time, run_time[node], Cores \ used)
    BY <1>2, <1>3, <1>4, SelectIsEarliest DEF TimeInv
  <1>6. tasks' = [tasks EXCEPT ![p.core] =
                    IF p.slot > 0 THEN Filled(p, node) ELSE Pushed(p, node)]
    BY <1>4 DEF Place
  <1>7. IsPlaced(p)  BY <1>1, <1>3, <1>5, <1>6, PlacePuts DEF TimeInv
  <1>8. p.core \in Cores \ used /\ p.start \in Nat  BY <1>5 DEF IsSelected
  <1>9. QED  BY <1>1, <1>4, <1>5, <1>7, <1>8 DEF Place, graphVars, file

\* A part that is put makes its time busy, and no other time idle.
LEMMA PlacedBusy ==
    ASSUME TaskInv, NEW p, p.core \in Cores, IsPlaced(p)
    PROVE  /\ \A t : Busy(t) => Busy(t)'
           /\ \A t : p.start <= t /\ t < p.start + run_time[node] => Busy(t)'
  <1>1. PICK c \in Cores : c = p.core  OBVIOUS
  <1>3. PICK x : x = Part(p)  OBVIOUS
  <1>4. x.start = p.start /\ x.end = p.start + run_time[node]  BY <1>3 DEF Part, Slot
  <1>5. PICK u : u = tasks'[c]  OBVIOUS
  <1>6. NonEmpty(u) = NonEmpty(tasks[c]) \cup {x}  BY <1>1, <1>3, <1>5 DEF IsPlaced, IsPut
  <1>7. ASSUME NEW d \in Cores  PROVE NonEmpty(tasks[d]) \subseteq NonEmpty(tasks'[d])
    <2>1. CASE d = c  BY <1>5, <1>6, <2>1
    <2>2. CASE d # c  BY <1>1, <2>2 DEF IsPlaced
    <2>3. QED  BY <2>1, <2>2
  <1>8. ASSUME NEW t, Busy(t)  PROVE Busy(t)'
    <2>1. PICK d \in Cores : \E s \in NonEmpty(tasks[d]) : s.start <= t /\ t < s.end
      BY <1>8 DEF Busy
    <2>2. \E s \in NonEmpty(tasks'[d]) : s.start <= t /\ t < s.end  BY <1>7, <2>1
    <2>3. QED  BY <2>2 DEF Busy, NonEmpty
  <1>9. ASSUME NEW t, p.start <= t, t < p.start + run_time[node]  PROVE Busy(t)'
    <2>1. x \in NonEmpty(tasks'[c]) /\ x.start <= t /\ t < x.end  BY <1>4, <1>5, <1>6, <1>9
    <2>2. QED  BY <2>1 DEF Busy, NonEmpty
  <1>10. QED  BY <1>8, <1>9

\* A part is put.
LEMMA TimePlace == ASSUME TimeInv, Place  PROVE TimeInv'
  <1>1. PICK p : /\ IsSelected(p, min_start_time, run_time[node], Cores \ used) /\ IsPlaced(p)
                 /\ used' = used \cup {p.core} /\ p.core \in Cores \ used /\ p.start \in Nat
                 /\ pc' = (IF Cardinality(used) + 1 = core[node] THEN "pick" ELSE "place")
                 /\ UNCHANGED <<run_time, core, queue, node, min_start_time, start, success,
                                next_min, makespan>>
                 /\ pc = "place" /\ node \in Nodes
    BY PlaceSelects
  <1>2. TaskInv'  BY <1>1 DEF IsPlaced
  <1>3. pc' \in {"pick", "place"}  BY <1>1
  <1>4. SchedType' /\ RoundInv'  BY <1>1, <1>3 DEF TimeInv, SchedType, RoundInv, SchedPC
  <1>5. /\ \A t : Busy(t) => Busy(t)'
        /\ \A t : p.start <= t /\ t < p.start + run_time[node] => Busy(t)'
    BY <1>1, PlacedBusy DEF TimeInv
  <1>6. /\ BusyBefore(min_start_time) /\ run_time[node] \in Nat /\ min_start_time \in Nat
        /\ \A c \in Cores : BusyBefore(EscTime(c))
    BY <1>1 DEF TimeInv, BusyInv, SchedType
  <1>7. BusyBefore(p.start)
    <2>1. Cores \ used \in SUBSET Cores  OBVIOUS
    <2>2. QED  BY <1>1, <1>6, <2>1, SelectBusy DEF TimeInv
  <1>8. ASSUME NEW c \in Cores  PROVE BusyBefore(EscTime(c))'
    <2>1. CASE EscTime(c)' = EscTime(c)  BY <1>5, <1>6, <2>1 DEF BusyBefore
    <2>2. CASE EscTime(c)' = p.start + run_time[node]
      <3>1. SUFFICES ASSUME NEW t \in 0..(p.start + run_time[node]) - 1  PROVE Busy(t)'
        BY <2>2 DEF BusyBefore
      <3>2. CASE t < p.start
        <4>1. t \in 0..p.start - 1  BY <1>1, <1>6, <3>2
        <4>2. QED  BY <1>5, <1>7, <4>1 DEF BusyBefore
      <3>3. CASE p.start <= t  BY <1>1, <1>5, <1>6, <3>3
      <3>4. QED  BY <1>1, <3>2, <3>3
    <2>3. CASE c # p.core
      <3>1. EscTime(c)' = EscTime(c)  BY <1>1, <2>3 DEF IsPlaced, EscTime
      <3>2. QED  BY <2>1, <3>1
    <2>4. QED  BY <1>1, <2>1, <2>2, <2>3 DEF IsPlaced
  <1>9. BusyBefore(min_start_time)'  BY <1>1, <1>5, <1>6 DEF BusyBefore
  <1>10. BusyInv'  BY <1>3, <1>8, <1>9 DEF BusyInv
  <1>11. QED  BY <1>2, <1>4, <1>10 DEF TimeInv

\* The makespan is the end of some core.
LEMMA TimeFinish == ASSUME TimeInv, Finish  PROVE TimeInv'
  <1>1. /\ UNCHANGED <<run_time, core, tasks, queue, node, min_start_time, used, start, success,
                       next_min>>
        /\ pc' = "done" /\ makespan' = MaxOf({0} \cup {EscTime(c) : c \in Cores})
    BY DEF Finish, ComputeMakespan, graphVars, file, search
  <1>2. TaskInv'  BY <1>1, SameTasks DEF TimeInv
  <1>3. makespan' \in Nat /\ BusyBefore(makespan')
    <2>1. PICK b \in Nat : \A c \in Cores : EscTime(c) \in Nat /\ EscTime(c) <= b
      BY EscBound DEF TimeInv
    <2>2. PICK S : S = {0} \cup {EscTime(c) : c \in Cores}  OBVIOUS
    <2>3. S \in SUBSET Nat /\ S # {} /\ \A x \in S : x <= b  BY <2>1, <2>2
    <2>4. PICK m \in S : m = MaxOf(S) /\ m \in Nat  BY <2>3, Greatest
    <2>5. BusyBefore(m)
      <3>1. CASE m = 0  BY <3>1, BusyNever
      <3>2. CASE m # 0  BY <2>2, <3>2 DEF TimeInv, BusyInv
      <3>3. QED  BY <3>1, <3>2
    <2>6. QED  BY <1>1, <2>2, <2>4, <2>5
  <1>4. SchedType' /\ RoundInv'  BY <1>1, <1>3 DEF TimeInv, SchedType, RoundInv, SchedPC
  <1>5. BusyInv'  BY <1>1, <1>3, BusySame DEF TimeInv
  <1>6. QED  BY <1>2, <1>4, <1>5 DEF TimeInv

\* Every step of run().
LEMMA TimeNext == ASSUME TimeInv, [Next]_vars  PROVE TimeInv'
  <1>1. CASE UNCHANGED vars
    <2>1. UNCHANGED <<run_time, core, tasks, queue, pc, makespan, node, min_start_time, used,
                      start, success, next_min>>
      BY <1>1 DEF vars, graphVars, file, schedVars, search
    <2>2. TaskInv'  BY <2>1, SameTasks DEF TimeInv
    <2>3. SchedType' /\ RoundInv'  BY <2>1 DEF TimeInv, SchedType, RoundInv
    <2>4. BusyInv'  BY <2>1, BusySame DEF TimeInv, BusyInv
    <2>5. QED  BY <2>2, <2>3, <2>4 DEF TimeInv
  <1>2. CASE Next
    BY <1>2, TimeGraph, TimeNodeQueue, TimePickNode, TimeNoCoreLeft, TimeTryFirst, TimeTryNext,
       TimeTryEnd, TimePlace, TimeFinish DEF Next
  <1>3. QED  BY <1>1, <1>2

\* The invariant of the schedule's times holds throughout.
THEOREM TimeInvariant == Spec => []TimeInv
  <1>1. Init => TimeInv  BY TimeInit
  <1>2. TimeInv /\ [Next]_vars => TimeInv'  BY TimeNext
  <1>3. QED  BY <1>1, <1>2, PTL DEF Spec

\* v_sched_cpu_task_ is a schedule at every moment of run(): the slots of every core
\* tile its time from 0, whatever was put into vacancies, and the search for
\* several cores never goes on at INT_MAX.
THEOREM ScheduleIsTiled == Spec => []Tiled
  <1>1. ASSUME TimeInv  PROVE Tiled
    <2>1. TypeOK
      <3>1. \A c \in Cores : tasks[c] \in Seq(SlotType)  BY <1>1 DEF TimeInv, TaskInv
      <3>2. QED  BY <1>1, <3>1 DEF TimeInv, SchedType, TypeOK, SlotType
    <2>2. ASSUME NEW c \in Cores, NEW l \in DOMAIN tasks[c]
          PROVE  /\ tasks[c][l].start = IF l = 1 THEN 0 ELSE tasks[c][l - 1].end
                 /\ tasks[c][l].node = None => tasks[c][l].start < tasks[c][l].end
      <3>1. PICK s \in Seq(SlotType) : s = tasks[c]  BY <1>1 DEF TimeInv, TaskInv
      <3>2. PICK e \in Nat : Tiles(s, 0, e)  BY <1>1, <3>1 DEF TimeInv, TaskInv
      <3>3. PICK m \in Nat : m = Len(s) /\ l \in 1..m  BY <3>1, LenProperties
      <3>4. s # <<>>  BY <3>3, EmptySeq
      <3>5. Proper(s[l])  BY <3>2, <3>3 DEF Tiles
      <3>6. CASE l = 1  BY <3>1, <3>2, <3>4, <3>5, <3>6 DEF Tiles, Proper
      <3>7. CASE l # 1
        <4>1. l - 1 \in 1..m - 1 /\ (l - 1) + 1 = l  BY <3>3, <3>7
        <4>2. s[l].start = s[l - 1].end  BY <3>2, <3>3, <4>1 DEF Tiles
        <4>3. QED  BY <3>1, <3>5, <3>7, <4>2 DEF Proper
      <3>8. QED  BY <3>6, <3>7
    <2>3. QED  BY <2>1, <2>2 DEF Tiled
  <1>2. QED  BY <1>1, TimeInvariant, PTL

\* Until the makespan that the Analyzer reports some core always runs a node: no
\* node waits for a moment in which everything before it has already ended.
THEOREM ScheduleIsNeverIdle == Spec => []NeverIdle
  <1>1. ASSUME TimeInv  PROVE NeverIdle
    <2>1. SUFFICES ASSUME pc = "done", NEW t \in 0..makespan - 1
                   PROVE  \E s \in Placed : s.node # None /\ s.start <= t /\ t < s.end
      BY DEF NeverIdle
    <2>2. Busy(t)  BY <1>1, <2>1 DEF TimeInv, BusyInv, BusyBefore
    <2>3. PICK c \in Cores : \E s \in NonEmpty(tasks[c]) : s.start <= t /\ t < s.end
      BY <2>2 DEF Busy
    <2>4. PICK s \in Held(tasks[c]) : s.node # None /\ s.start <= t /\ t < s.end
      BY <2>3 DEF NonEmpty
    <2>5. s \in Placed  BY <2>4 DEF Placed, SlotsOf, Held
    <2>6. QED  BY <2>4, <2>5
  <1>2. QED  BY <1>1, TimeInvariant, PTL

-----------------------------------------------------------------------------
(* The parts of a node start together.                                     *)

\* Sets of cores are finite.
LEMMA FiniteCores ==
    ASSUME NEW S \in SUBSET Cores
    PROVE  IsFiniteSet(S) /\ Cardinality(S) \in Nat
  <1>1. 0 \in Int /\ C - 1 \in Int  BY CoreAssumption
  <1>2. IsFiniteSet(Cores)  BY <1>1, FS_Interval DEF Cores
  <1>3. IsFiniteSet(S)  BY <1>2, FS_Subset
  <1>4. QED  BY <1>3, FS_CardinalityType

\* A place that is selected is one where the part can start.
LEMMA SelectedCanStart ==
    ASSUME NEW p, NEW from, NEW length, NEW cs, IsSelected(p, from, length, cs)
    PROVE  CanStart(p.core, from, length, p.start)
  BY DEF IsSelected, CanStart

\* Steps that leave the lists and the file alone.
LEMMA SameParts ==
    ASSUME tasks' = tasks, run_time' = run_time
    PROVE  /\ \A n : On(n)' = On(n)
           /\ \A n, t : StartsAt(n, t)' <=> StartsAt(n, t)
           /\ \A c, n : HasOnce(tasks'[c], n) <=> HasOnce(tasks[c], n)
           /\ \A c, f, l, t : CanStart(c, f, l, t)' <=> CanStart(c, f, l, t)
  <1>1. \A c : EscTime(c)' = EscTime(c)  BY SameTasks
  <1>2. QED  BY <1>1 DEF On, StartsAt, HasOnce, CanStart, NonEmpty

\* ... and complete no further node.
LEMMA SameDone ==
    ASSUME tasks' = tasks, run_time' = run_time, core' = core, DoneInv,
           \A n \in Nodes : Complete(n)' => Complete(n)
    PROVE  DoneInv'
  <1>1. ASSUME NEW n \in Nodes, Complete(n)'
        PROVE  Cardinality(On(n)') = core'[n] /\ \E t \in Nat : StartsAt(n, t)'
    <2>1. Cardinality(On(n)) = core[n] /\ \E t \in Nat : StartsAt(n, t)
      BY <1>1 DEF DoneInv
    <2>2. QED  BY <2>1, SameParts
  <1>2. QED  BY <1>1 DEF DoneInv

\* No node has a part at the beginning.
LEMMA GangInit == ASSUME Init  PROVE GangInv
  <1>1. \A c \in Cores : tasks[c] = <<>>  BY DEF Init
  <1>2. \A n : On(n) = {}  BY <1>1, EmptyTiles DEF On
  <1>3. WhereInv  BY <1>1, <1>2, EmptyTiles DEF WhereInv, Init
  <1>4. DoneInv /\ TrialInv /\ PlaceInv
    BY DEF Init, DoneInv, Complete, TrialInv, PlaceInv
  <1>5. QED  BY <1>3, <1>4 DEF GangInv

\* Steps that change nothing but the graph.
LEMMA GangSame ==
    ASSUME GangInv, run_time' = run_time,
           UNCHANGED <<core, tasks, queue, pc, node, min_start_time, used, start, success>>
    PROVE  GangInv'
  <1>1. WhereInv'  BY SameParts DEF GangInv, WhereInv
  <1>2. DoneInv'
    <2>1. \A n \in Nodes : Complete(n)' => Complete(n)  BY DEF Complete
    <2>2. QED  BY <2>1, SameDone DEF GangInv
  <1>3. \A cs : NotEarlier(cs) => NotEarlier(cs)'  BY SameParts DEF NotEarlier
  <1>4. \A cs : Together(cs) => Together(cs)'  BY SameParts DEF Together
  <1>5. TrialInv'  BY <1>3, <1>4 DEF GangInv, TrialInv
  <1>6. PlaceInv'
    <2>1. SUFFICES ASSUME pc = "place"
                   PROVE  /\ Cardinality(used) < core[node]
                          /\ core[node] > 1 =>
                                /\ StartsAt(node, start)' /\ NotEarlier(Cores \ used)'
                                /\ \E U \in SUBSET Cores :
                                      Cardinality(U) = core[node] /\ Together(U \ used)'
      BY DEF PlaceInv
    <2>2. StartsAt(node, start) => StartsAt(node, start)'  BY SameParts DEF StartsAt
    <2>3. QED  BY <1>3, <1>4, <2>1, <2>2 DEF GangInv, PlaceInv
  <1>7. QED  BY <1>1, <1>2, <1>5, <1>6 DEF GangInv

\* The steps of the graph's code.
LEMMA GangGraph == ASSUME GangInv, GraphNext, UNCHANGED schedVars  PROVE GangInv'
  <1>1. run_time' = run_time
    BY DEF GraphNext, CreateDag, DagDone, SetToRoot, InsertHangs, StartLaxity, ComputeLaxity,
           StackOverflow, LaxityDone, file
  <1>2. UNCHANGED <<core, tasks, queue, pc, node, min_start_time, used, start, success>>
    BY DEF schedVars, search
  <1>3. QED  BY <1>1, <1>2, GangSame

\* The queue is filled.
LEMMA GangNodeQueue == ASSUME GangInv, NodeQueue  PROVE GangInv'
  <1>1. /\ UNCHANGED <<run_time, core, tasks, node>>
        /\ pc = "graph" /\ queue' = Nodes /\ pc' = "pick"
    BY DEF NodeQueue, graphVars, file, search
  <1>2. WhereInv'  BY <1>1, SameParts DEF GangInv, WhereInv
  <1>3. DoneInv' /\ TrialInv' /\ PlaceInv'
    BY <1>1 DEF DoneInv, Complete, TrialInv, PlaceInv
  <1>4. QED  BY <1>2, <1>3 DEF GangInv

\* A node is taken from the queue.
LEMMA GangPickNode == ASSUME TimeInv, GangInv, NEW n \in Nodes, PickNode(n)  PROVE GangInv'
  <1>1. /\ UNCHANGED <<run_time, core, tasks>>
        /\ pc = "pick" /\ n \in queue /\ queue' = queue \ {n} /\ node' = n /\ used' = {}
        /\ pc' = (IF core[n] > 1 THEN "try" ELSE "place")
    BY DEF PickNode, graphVars, file
  <1>2. core[n] \in Nat /\ core[n] # 0  BY DEF TimeInv, SchedType
  <1>3. Cardinality({}) = 0  BY FS_EmptySet
  <1>4. WhereInv'  BY <1>1, SameParts DEF GangInv, WhereInv
  <1>5. DoneInv'
    <2>1. \A m \in Nodes : Complete(m)' => Complete(m)  BY <1>1 DEF Complete
    <2>2. QED  BY <1>1, <2>1, SameDone DEF GangInv
  <1>6. TrialInv' /\ PlaceInv'  BY <1>1, <1>2, <1>3 DEF TrialInv, PlaceInv
  <1>7. QED  BY <1>4, <1>5, <1>6 DEF GangInv

\* at(-1) throws.
LEMMA GangNoCoreLeft == ASSUME GangInv, NoCoreLeft  PROVE GangInv'
  <1>1. UNCHANGED <<run_time, core, tasks, queue, node>> /\ pc' = "crash"
    BY DEF NoCoreLeft, graphVars, file, search
  <1>2. WhereInv'  BY <1>1, SameParts DEF GangInv, WhereInv
  <1>3. DoneInv' /\ TrialInv' /\ PlaceInv'
    BY <1>1 DEF DoneInv, Complete, TrialInv, PlaceInv
  <1>4. QED  BY <1>2, <1>3 DEF GangInv

\* run() ends.
LEMMA GangFinish == ASSUME GangInv, Finish  PROVE GangInv'
  <1>1. UNCHANGED <<run_time, core, tasks, queue, node>> /\ pc = "pick" /\ pc' = "done"
    BY DEF Finish, graphVars, file, search
  <1>2. WhereInv'  BY <1>1, SameParts DEF GangInv, WhereInv
  <1>3. DoneInv'
    <2>1. \A n \in Nodes : Complete(n)' => Complete(n)  BY <1>1 DEF Complete
    <2>2. QED  BY <1>1, <2>1, SameDone DEF GangInv
  <1>4. TrialInv' /\ PlaceInv'  BY <1>1 DEF TrialInv, PlaceInv
  <1>5. QED  BY <1>2, <1>3, <1>4 DEF GangInv

\* The first core of the trial sets the time that no core can better.
LEMMA GangTryFirst == ASSUME TimeInv, GangInv, TryFirst  PROVE GangInv'
  <1>1. PICK p : /\ IsSelected(p, min_start_time, run_time[node], Cores)
                 /\ used' = {p.core} /\ start' = p.start /\ success' = TRUE /\ next_min' = None
                 /\ UNCHANGED <<run_time, core, tasks, queue, pc, node, min_start_time, makespan>>
                 /\ pc = "try" /\ node \in Nodes
    BY TryFirstSelects
  <1>2. WhereInv'  BY <1>1, SameParts DEF GangInv, WhereInv
  <1>3. DoneInv'
    <2>1. \A n \in Nodes : Complete(n)' => Complete(n)  BY <1>1 DEF Complete
    <2>2. QED  BY <1>1, <2>1, SameDone DEF GangInv
  <1>4. Cardinality(used') = 1  BY <1>1, FS_Singleton
  <1>5. core[node] \in Nat /\ core[node] # 0  BY <1>1 DEF TimeInv, SchedType
  <1>6. NotEarlier(Cores)'
    <2>1. p.start \in Nat  BY <1>1 DEF IsSelected
    <2>2. ASSUME NEW c \in Cores, NEW t \in 0..p.start - 1
          PROVE  ~CanStart(c, min_start_time, run_time[node], t)
      <3>1. t \in Nat /\ ~(p.start <= t)  BY <2>1
      <3>2. QED  BY <1>1, <3>1 DEF IsSelected
    <2>3. QED  BY <1>1, <2>2, SameParts DEF NotEarlier
  <1>7. Together(used)'
    <2>1. CanStart(p.core, min_start_time, run_time[node], p.start)
      BY <1>1, SelectedCanStart
    <2>2. QED  BY <1>1, <2>1, SameParts DEF Together
  <1>8. TrialInv' /\ PlaceInv'
    BY <1>1, <1>4, <1>5, <1>6, <1>7 DEF TrialInv, PlaceInv
  <1>9. QED  BY <1>2, <1>3, <1>8 DEF GangInv

\* Another core keeps up, or the round fails.
LEMMA GangTryNext == ASSUME TimeInv, GangInv, TryNext  PROVE GangInv'
  <1>1. PICK p : /\ IsSelected(p, start, run_time[node], Cores \ used)
                 /\ used' = used \cup {p.core} /\ next_min' = NextMin(p.start)
                 /\ success' = (success /\ p.start = start)
                 /\ UNCHANGED <<run_time, core, tasks, queue, pc, node, min_start_time, start,
                                makespan>>
                 /\ pc = "try" /\ node \in Nodes /\ used # {} /\ Cardinality(used) < core[node]
    BY TryNextSelects
  <1>2. WhereInv'  BY <1>1, SameParts DEF GangInv, WhereInv
  <1>3. DoneInv'
    <2>1. \A n \in Nodes : Complete(n)' => Complete(n)  BY <1>1 DEF Complete
    <2>2. QED  BY <1>1, <2>1, SameDone DEF GangInv
  <1>4. Cardinality(used') <= core[node]
    <2>1. used \in SUBSET Cores /\ core[node] \in Nat  BY <1>1 DEF TimeInv, SchedType
    <2>2. IsFiniteSet(used) /\ Cardinality(used) \in Nat  BY <2>1, FiniteCores
    <2>3. Cardinality(used') = Cardinality(used) \/ Cardinality(used') = Cardinality(used) + 1
      BY <1>1, <2>2, FS_AddElement
    <2>4. QED  BY <1>1, <2>1, <2>2, <2>3
  <1>5. NotEarlier(Cores)'
    <2>1. NotEarlier(Cores)  BY <1>1 DEF GangInv, TrialInv
    <2>2. QED  BY <1>1, <2>1, SameParts DEF NotEarlier
  <1>6. ASSUME success' = TRUE  PROVE Together(used)'
    <2>1. success = TRUE /\ p.start = start
      <3>1. success = TRUE \/ success = FALSE  BY DEF TimeInv, SchedType
      <3>2. QED  BY <1>1, <1>6, <3>1, Zenon
    <2>2. Together(used)  BY <1>1, <2>1 DEF GangInv, TrialInv
    <2>3. CanStart(p.core, start, run_time[node], start)  BY <1>1, <2>1, SelectedCanStart
    <2>4. min_start_time <= start  BY <1>1 DEF TimeInv, RoundInv
    <2>5. CanStart(p.core, min_start_time, run_time[node], start)  BY <2>3, <2>4 DEF CanStart
    <2>6. QED  BY <1>1, <2>2, <2>5, SameParts DEF Together
  <1>7. TrialInv' /\ PlaceInv'
    BY <1>1, <1>4, <1>5, <1>6 DEF TrialInv, PlaceInv
  <1>8. QED  BY <1>2, <1>3, <1>7 DEF GangInv

\* The trial ends: its cores are as many as the node needs.
LEMMA GangTryEnd == ASSUME TimeInv, GangInv, TryEnd  PROVE GangInv'
  <1>1. /\ UNCHANGED <<run_time, core, tasks, queue, node, start, success>>
        /\ pc = "try" /\ used' = {} /\ Cardinality(used) = core[node]
        /\ \/ success /\ pc' = "place" /\ min_start_time' = min_start_time
           \/ ~success /\ pc' = "try" /\ min_start_time' = next_min
    BY DEF TryEnd, AllTogether, graphVars, file
  <1>2. /\ core[node] \in Nat /\ core[node] # 0 /\ used \in SUBSET Cores
        /\ success = TRUE \/ success = FALSE
    BY <1>1 DEF TimeInv, SchedType
  <1>3. used # {} /\ Cardinality({}) = 0  BY <1>1, <1>2, FS_EmptySet
  <1>4. WhereInv'  BY <1>1, SameParts DEF GangInv, WhereInv
  <1>5. DoneInv'
    <2>1. \A n \in Nodes : Complete(n)' => Complete(n)  BY <1>1 DEF Complete
    <2>2. QED  BY <1>1, <2>1, SameDone DEF GangInv
  <1>6. TrialInv'  BY <1>1, <1>2, <1>3 DEF TrialInv
  <1>7. PlaceInv'
    <2>1. SUFFICES ASSUME pc' = "place"
                   PROVE  /\ StartsAt(node, start)' /\ NotEarlier(Cores \ used)'
                          /\ \E U \in SUBSET Cores :
                                Cardinality(U) = core'[node'] /\ Together(U \ used)'
      BY <1>1, <1>2, <1>3 DEF PlaceInv
    <2>2. success = TRUE /\ min_start_time' = min_start_time  BY <1>1, <1>2, <2>1
    <2>3. NotEarlier(Cores) /\ Together(used) /\ On(node) = {}
      BY <1>1, <1>3, <2>2 DEF GangInv, TrialInv, WhereInv
    <2>4. StartsAt(node, start)'
      <3>1. StartsAt(node, start)
        <4>1. node \in Nodes /\ \A c \in Cores : tasks[c] \in Seq(SlotType)
          BY <1>1 DEF TimeInv, TaskInv, SchedType
        <4>2. \A c \in Cores : ~HasNode(tasks[c], node)  BY <2>3 DEF On
        <4>3. \A c \in Cores : \A s \in NonEmpty(tasks[c]) : s.node # node
          BY <4>1, <4>2, HasNodeHeld
        <4>4. QED  BY <4>3 DEF StartsAt
      <3>2. QED  BY <1>1, <3>1 DEF StartsAt, NonEmpty
    <2>5. NotEarlier(Cores \ used)'  BY <1>1, <2>2, <2>3, SameParts DEF NotEarlier
    <2>6. PICK U \in SUBSET Cores : U = used  BY <1>2
    <2>7. Cardinality(U) = core'[node']  BY <1>1, <2>6
    <2>8. Together(U \ used)'
      <3>1. ASSUME NEW c \in U
            PROVE  CanStart(c, min_start_time, run_time[node], start)'
        <4>1. CanStart(c, min_start_time, run_time[node], start)  BY <2>3, <2>6 DEF Together
        <4>2. EscTime(c)' = EscTime(c)  BY <1>1, SameTasks
        <4>3. QED  BY <1>1, <2>2, <4>1, <4>2 DEF CanStart
      <3>2. QED  BY <3>1 DEF Together
    <2>9. QED  BY <2>4, <2>5, <2>7, <2>8
  <1>8. QED  BY <1>4, <1>5, <1>6, <1>7 DEF GangInv

\* What putting a part does to the parts of the nodes.
LEMMA PlacedParts ==
    ASSUME TaskInv, run_time' = run_time, node \in Nodes, node' = node,
           NEW p, p.core \in Cores, IsPlaced(p)
    PROVE  /\ \A n \in Nodes : n # node => On(n)' = On(n)
           /\ \A n \in Nodes : \A t : n # node /\ StartsAt(n, t) => StartsAt(n, t)'
           /\ \A c \in Cores : c \in On(node)' <=> c \in On(node) \cup {p.core}
           /\ \A t : t = p.start /\ StartsAt(node, t) =>
                \A c \in Cores : \A s \in NonEmpty(tasks'[c]) :
                    s.node = node => s.start = t /\ s.end = t + run_time[node]
           /\ ~HasNode(tasks[p.core], node) =>
                \A c \in Cores, n \in Nodes : HasOnce(tasks[c], n) => HasOnce(tasks'[c], n)
  <1>1. PICK c \in Cores : c = p.core  OBVIOUS
  <1>2. PICK x : x = Part(p)  OBVIOUS
  <1>3. x.node = node /\ x.start = p.start /\ x.end = p.start + run_time[node]
    BY <1>2 DEF Part, Slot
  <1>4. PICK u \in Seq(SlotType) : u = tasks'[c] /\ IsPut(tasks[c], u, x)
    BY <1>1, <1>2 DEF IsPlaced, IsPut
  <1>5. NonEmpty(u) = NonEmpty(tasks[c]) \cup {x}  BY <1>4 DEF IsPut
  <1>6. \A d \in Cores : d # c => tasks'[d] = tasks[d]  BY <1>1 DEF IsPlaced
  <1>7. \A d \in Cores : tasks[d] \in Seq(SlotType) /\ tasks'[d] \in Seq(SlotType)
    <2>1. \A d \in Cores : tasks[d] \in Seq(SlotType)  BY DEF TaskInv
    <2>2. QED  BY <1>4, <1>6, <2>1
  <1>8. ASSUME NEW d \in Cores, NEW s
        PROVE  s \in NonEmpty(tasks'[d]) <=> s \in NonEmpty(tasks[d]) \/ (d = c /\ s = x)
    <2>1. CASE d = c  BY <1>4, <1>5, <2>1
    <2>2. CASE d # c  BY <1>6, <2>2
    <2>3. QED  BY <2>1, <2>2
  <1>9. ASSUME NEW d \in Cores, NEW n \in Nodes
        PROVE  HasNode(tasks'[d], n) <=> HasNode(tasks[d], n) \/ (d = c /\ n = node)
    <2>1. HasNode(tasks[d], n) <=> \E y \in NonEmpty(tasks[d]) : y.node = n
      BY <1>7, HasNodeHeld
    <2>2. HasNode(tasks'[d], n) <=> \E y \in NonEmpty(tasks'[d]) : y.node = n
      BY <1>7, HasNodeHeld
    <2>3. QED  BY <1>3, <1>8, <2>1, <2>2
  <1>10. \A n \in Nodes : On(n)' = {d \in Cores : HasNode(tasks'[d], n)}
    BY DEF On, HasNode
  <1>11. \A n \in Nodes : n # node => On(n)' = On(n)
    <2>1. SUFFICES ASSUME NEW n \in Nodes, n # node  PROVE On(n)' = On(n)  OBVIOUS
    <2>2. \A d \in Cores : HasNode(tasks'[d], n) <=> HasNode(tasks[d], n)  BY <1>9, <2>1
    <2>3. QED  BY <1>10, <2>2 DEF On
  <1>12. ASSUME NEW n \in Nodes, NEW t, n # node, StartsAt(n, t)  PROVE StartsAt(n, t)'
    <2>1. ASSUME NEW d \in Cores, NEW s \in NonEmpty(tasks'[d]), s.node = n
          PROVE  s.start = t /\ s.end = t + run_time[n]
      <3>1. s \in NonEmpty(tasks[d])  BY <1>3, <1>8, <1>12, <2>1
      <3>2. QED  BY <1>12, <2>1, <3>1 DEF StartsAt
    <2>2. QED  BY <2>1 DEF StartsAt, NonEmpty
  <1>13. \A d \in Cores : d \in On(node)' <=> d \in On(node) \cup {p.core}
    <2>1. SUFFICES ASSUME NEW d \in Cores
                   PROVE  d \in On(node)' <=> d \in On(node) \cup {p.core}
      OBVIOUS
    <2>2. d \in On(node)' <=> HasNode(tasks'[d], node')  BY DEF On, HasNode
    <2>3. QED  BY <1>1, <1>9, <2>2 DEF On
  <1>14. ASSUME NEW t, t = p.start, StartsAt(node, t), NEW d \in Cores,
                NEW s \in NonEmpty(tasks'[d]), s.node = node
         PROVE  s.start = t /\ s.end = t + run_time[node]
    <2>1. CASE s \in NonEmpty(tasks[d])  BY <1>14, <2>1 DEF StartsAt
    <2>2. CASE s = x  BY <1>3, <1>14, <2>2
    <2>3. QED  BY <1>8, <2>1, <2>2
  <1>15. ASSUME ~HasNode(tasks[p.core], node), NEW d \in Cores, NEW n \in Nodes,
                HasOnce(tasks[d], n)
         PROVE  HasOnce(tasks'[d], n)
    <2>1. CASE d = c
      <3>1. ~(HasNode(tasks[c], n) /\ n = x.node)  BY <1>1, <1>3, <1>15
      <3>2. HasOnce(u, n)  BY <1>4, <1>15, <2>1, <3>1 DEF IsPut
      <3>3. QED  BY <1>4, <2>1, <3>2
    <2>2. CASE d # c  BY <1>6, <1>15, <2>2
    <2>3. QED  BY <2>1, <2>2
  <1>16. QED  BY <1>11, <1>12, <1>13, <1>14, <1>15

\* The second pass finds the time that the trial promised.
LEMMA PlaceKeepsStart ==
    ASSUME TimeInv, PlaceInv, pc = "place", node \in Nodes, core[node] > 1, NEW p,
           IsSelected(p, min_start_time, run_time[node], Cores \ used)
    PROVE  p.start = start
  <1>1. /\ Cardinality(used) < core[node] /\ NotEarlier(Cores \ used)
        /\ \E U \in SUBSET Cores : Cardinality(U) = core[node] /\ Together(U \ used)
    BY DEF PlaceInv
  <1>2. PICK U \in SUBSET Cores : Cardinality(U) = core[node] /\ Together(U \ used)  BY <1>1
  <1>3. used \in SUBSET Cores /\ start \in Nat  BY DEF TimeInv, SchedType
  <1>4. PICK c \in U : c \notin used
    <2>1. SUFFICES ASSUME U \subseteq used  PROVE FALSE  OBVIOUS
    <2>2. IsFiniteSet(used) /\ Cardinality(used) \in Nat /\ Cardinality(U) \in Nat
      BY <1>3, FiniteCores
    <2>3. Cardinality(U) <= Cardinality(used)  BY <2>1, <2>2, FS_Subset
    <2>4. QED  BY <1>1, <1>2, <2>2, <2>3
  <1>5. p.start <= start
    <2>1. CanStart(c, min_start_time, run_time[node], start)  BY <1>2, <1>4 DEF Together
    <2>2. c \in Cores \ used  BY <1>4
    <2>3. QED  BY <1>3, <2>1, <2>2 DEF IsSelected
  <1>6. p.core \in Cores \ used /\ p.start \in Nat  BY DEF IsSelected
  <1>7. CanStart(p.core, min_start_time, run_time[node], p.start)  BY SelectedCanStart
  <1>8. p.start \notin 0..start - 1  BY <1>1, <1>6, <1>7 DEF NotEarlier
  <1>9. QED  BY <1>3, <1>5, <1>6, <1>8

\* A part is put, the last one of its node perhaps.
LEMMA GangPlace == ASSUME TimeInv, GangInv, Place  PROVE GangInv'
  <1>1. PICK p : /\ IsSelected(p, min_start_time, run_time[node], Cores \ used) /\ IsPlaced(p)
                 /\ used' = used \cup {p.core} /\ p.core \in Cores \ used /\ p.start \in Nat
                 /\ pc' = (IF Cardinality(used) + 1 = core[node] THEN "pick" ELSE "place")
                 /\ UNCHANGED <<run_time, core, queue, node, min_start_time, start, success,
                                next_min, makespan>>
                 /\ pc = "place" /\ node \in Nodes
    BY PlaceSelects
  <1>2. /\ pc' \in {"pick", "place"}
        /\ pc' = "pick" => Cardinality(used) + 1 = core[node]
        /\ pc' = "place" => Cardinality(used) + 1 # core[node]
    BY <1>1
  <1>3. On(node) = used /\ node \notin queue /\ Cardinality(used) < core[node]
    BY <1>1 DEF GangInv, WhereInv, PlaceInv
  <1>4. ~HasNode(tasks[p.core], node)  BY <1>1, <1>3 DEF On
  <1>5. /\ \A n \in Nodes : n # node => On(n)' = On(n)
        /\ \A n \in Nodes : \A t : n # node /\ StartsAt(n, t) => StartsAt(n, t)'
        /\ \A c \in Cores : c \in On(node)' <=> c \in On(node) \cup {p.core}
        /\ \A t : t = p.start /\ StartsAt(node, t) =>
             \A c \in Cores : \A s \in NonEmpty(tasks'[c]) :
                 s.node = node => s.start = t /\ s.end = t + run_time[node]
        /\ \A c \in Cores, n \in Nodes : HasOnce(tasks[c], n) => HasOnce(tasks'[c], n)
    BY <1>1, <1>4, PlacedParts DEF TimeInv
  <1>6. On(node)' = used'
    <2>1. On(node)' \subseteq Cores /\ used \subseteq Cores  BY DEF On, TimeInv, SchedType
    <2>2. \A c \in Cores : c \in On(node)' <=> c \in used'  BY <1>1, <1>3, <1>5
    <2>3. QED  BY <1>1, <2>1, <2>2
  <1>7. /\ Cardinality(used') = Cardinality(used) + 1 /\ Cardinality(used) \in Nat
        /\ core[node] \in Nat
    <2>1. used \in SUBSET Cores /\ core[node] \in Nat  BY <1>1 DEF TimeInv, SchedType
    <2>2. IsFiniteSet(used) /\ Cardinality(used) \in Nat  BY <2>1, FiniteCores
    <2>3. QED  BY <1>1, <2>1, <2>2, FS_AddElement
  <1>8. WhereInv'
    <2>1. \A c \in Cores, n \in Nodes : HasOnce(tasks[c], n)  BY DEF GangInv, WhereInv
    <2>2. \A n \in queue : n \in Nodes /\ n # node /\ On(n) = {}
      BY <1>3 DEF GangInv, WhereInv, TimeInv, SchedType
    <2>3. \A n \in queue' : On(n)' = {}  BY <1>1, <1>5, <2>2
    <2>4. \A c \in Cores, n \in Nodes : HasOnce(tasks'[c], n)  BY <1>5, <2>1
    <2>5. QED  BY <1>1, <1>2, <1>3, <1>6, <2>3, <2>4 DEF WhereInv
  <1>9. core[node] > 1 => p.start = start
    BY <1>1, PlaceKeepsStart DEF GangInv
  <1>11. DoneInv'
    <2>1. ASSUME NEW n \in Nodes, Complete(n)', n # node
          PROVE  Cardinality(On(n)') = core'[n] /\ \E t \in Nat : StartsAt(n, t)'
      <3>1. Complete(n)  BY <1>1, <1>2, <2>1 DEF Complete
      <3>2. QED  BY <1>1, <1>5, <2>1, <3>1 DEF GangInv, DoneInv
    <2>2. ASSUME NEW n \in Nodes, Complete(n)', n = node
          PROVE  Cardinality(On(n)') = core'[n] /\ \E t \in Nat : StartsAt(n, t)'
      <3>1. pc' = "pick"  BY <1>1, <1>2, <2>2 DEF Complete
      <3>2. On(n)' = used'
        <4>1. On(n)' = On(node)'  BY <1>1, <2>2 DEF On
        <4>2. QED  BY <1>6, <4>1
      <3>3. Cardinality(On(n)') = core'[n]  BY <1>1, <1>2, <1>7, <2>2, <3>1, <3>2
      <3>4. PICK t \in Nat : t = p.start  BY <1>1
      <3>5. StartsAt(node, t)
        <4>1. CASE core[node] > 1
          BY <1>1, <1>9, <3>4, <4>1 DEF GangInv, PlaceInv
        <4>2. CASE ~(core[node] > 1)
          <5>1. Cardinality(used) = 0  BY <1>3, <1>7, <4>2
          <5>2. IsFiniteSet(used)  BY FiniteCores DEF TimeInv, SchedType
          <5>3. On(node) = {}  BY <1>3, <5>1, <5>2, FS_EmptySet
          <5>4. \A c \in Cores : ~HasNode(tasks[c], node) /\ tasks[c] \in Seq(SlotType)
            BY <5>3 DEF On, TimeInv, TaskInv
          <5>5. \A c \in Cores : \A s \in NonEmpty(tasks[c]) : s.node # node
            BY <1>1, <5>4, HasNodeHeld
          <5>6. QED  BY <5>5 DEF StartsAt
        <4>3. QED  BY <4>1, <4>2
      <3>6. StartsAt(n, t)'
        <4>1. \A c \in Cores : \A s \in NonEmpty(tasks'[c]) :
                 s.node = node => s.start = t /\ s.end = t + run_time[node]
          BY <1>5, <3>4, <3>5
        <4>2. QED  BY <1>1, <2>2, <4>1 DEF StartsAt, NonEmpty
      <3>7. QED  BY <3>3, <3>6
    <2>3. QED  BY <2>1, <2>2 DEF DoneInv
  <1>12. TrialInv'  BY <1>2 DEF TrialInv
  <1>13. PlaceInv'
    <2>1. SUFFICES ASSUME pc' = "place"
                   PROVE  /\ Cardinality(used') < core[node]
                          /\ core[node] > 1 =>
                                /\ StartsAt(node, start)' /\ NotEarlier(Cores \ used)'
                                /\ \E U \in SUBSET Cores :
                                      Cardinality(U) = core[node] /\ Together(U \ used)'
      BY <1>1 DEF PlaceInv
    <2>2. Cardinality(used') < core[node]  BY <1>2, <1>3, <1>7, <2>1
    <2>3. SUFFICES ASSUME core[node] > 1
                   PROVE  /\ StartsAt(node, start)' /\ NotEarlier(Cores \ used)'
                          /\ \E U \in SUBSET Cores :
                                Cardinality(U) = core[node] /\ Together(U \ used)'
      BY <2>2
    <2>4. /\ p.start = start /\ StartsAt(node, start) /\ NotEarlier(Cores \ used)
          /\ \E U \in SUBSET Cores : Cardinality(U) = core[node] /\ Together(U \ used)
      BY <1>1, <1>9, <2>3 DEF GangInv, PlaceInv
    <2>5. StartsAt(node, start)'
      <3>1. PICK t : t = start  OBVIOUS
      <3>2. \A c \in Cores : \A s \in NonEmpty(tasks'[c]) :
               s.node = node => s.start = t /\ s.end = t + run_time[node]
        BY <1>5, <2>4, <3>1
      <3>3. QED  BY <1>1, <3>1, <3>2 DEF StartsAt, NonEmpty
    <2>6. ASSUME NEW c \in Cores \ used', NEW f, NEW l, NEW t
          PROVE  CanStart(c, f, l, t)' <=> CanStart(c, f, l, t)
      <3>1. tasks'[c] = tasks[c]  BY <1>1, <2>6 DEF IsPlaced
      <3>2. EscTime(c)' = EscTime(c)  BY <3>1 DEF EscTime
      <3>3. QED  BY <3>1, <3>2 DEF CanStart
    <2>7. NotEarlier(Cores \ used)'
      <3>1. ASSUME NEW c \in Cores \ used', NEW t \in 0..start - 1
            PROVE  ~CanStart(c, min_start_time, run_time[node], t)'
        <4>1. ~CanStart(c, min_start_time, run_time[node], t)  BY <1>1, <2>4 DEF NotEarlier
        <4>2. PICK f, l : f = min_start_time /\ l = run_time[node]  OBVIOUS
        <4>3. ~CanStart(c, f, l, t)'  BY <2>6, <4>1, <4>2
        <4>4. QED  BY <1>1, <4>2, <4>3 DEF CanStart
      <3>2. QED  BY <1>1, <3>1 DEF NotEarlier
    <2>8. PICK U \in SUBSET Cores : Cardinality(U) = core[node] /\ Together(U \ used)  BY <2>4
    <2>9. Together(U \ used)'
      <3>1. ASSUME NEW c \in U \ used'
            PROVE  CanStart(c, min_start_time, run_time[node], start)'
        <4>1. c \in U \ used /\ c \in Cores \ used'  BY <1>1, <3>1
        <4>2. CanStart(c, min_start_time, run_time[node], start)  BY <2>8, <4>1 DEF Together
        <4>3. PICK f, l, t : f = min_start_time /\ l = run_time[node] /\ t = start  OBVIOUS
        <4>4. CanStart(c, f, l, t)'  BY <2>6, <4>1, <4>2, <4>3
        <4>5. QED  BY <1>1, <4>3, <4>4 DEF CanStart
      <3>2. QED  BY <3>1 DEF Together
    <2>10. QED  BY <2>5, <2>7, <2>8, <2>9
  <1>14. QED  BY <1>8, <1>11, <1>12, <1>13 DEF GangInv

\* Every step of run().
LEMMA GangNext == ASSUME TimeInv, GangInv, [Next]_vars  PROVE GangInv'
  <1>1. CASE UNCHANGED vars
    BY <1>1, GangSame DEF vars, graphVars, file, schedVars, search
  <1>2. CASE Next
    BY <1>2, GangGraph, GangNodeQueue, GangPickNode, GangNoCoreLeft, GangTryFirst, GangTryNext,
       GangTryEnd, GangPlace, GangFinish DEF Next
  <1>3. QED  BY <1>1, <1>2

\* A node has one part on each of its cores.
LEMMA PartsOnCores ==
    ASSUME TaskInv, NEW n \in Nodes, \A c \in Cores : HasOnce(tasks[c], n)
    PROVE  /\ \A q \in Parts(n) : \E c \in Cores : \E l \in 1..Len(tasks[c]) :
                 q = <<c, l>> /\ tasks[c][l].node = n
           /\ \A p, q \in Parts(n) : p[1] = q[1] => p = q
           /\ Cardinality(Parts(n)) = Cardinality(On(n))
  <1>1. \A c \in Cores : tasks[c] \in Seq(SlotType) /\ DOMAIN tasks[c] = 1..Len(tasks[c])
    BY LenProperties DEF TaskInv
  <1>2. ASSUME NEW q \in Parts(n)
        PROVE  \E c \in Cores : \E l \in 1..Len(tasks[c]) : q = <<c, l>> /\ tasks[c][l].node = n
    <2>1. PICK c \in Cores : q \in {c} \X DOMAIN tasks[c]  BY DEF Parts
    <2>2. PICK l \in 1..Len(tasks[c]) : q = <<c, l>>  BY <1>1, <2>1
    <2>3. SlotAt(q).node = n  BY DEF Parts
    <2>4. QED  BY <2>2, <2>3 DEF SlotAt
  <1>3. ASSUME NEW c \in Cores, NEW l \in 1..Len(tasks[c]), tasks[c][l].node = n
        PROVE  <<c, l>> \in Parts(n)
    <2>1. PICK q : q = <<c, l>>  OBVIOUS
    <2>2. q \in {c} \X DOMAIN tasks[c] /\ SlotAt(q).node = n  BY <1>1, <1>3, <2>1 DEF SlotAt
    <2>3. QED  BY <2>1, <2>2 DEF Parts
  <1>4. ASSUME NEW p \in Parts(n), NEW q \in Parts(n), p[1] = q[1]  PROVE p = q
    <2>1. PICK c \in Cores : \E l \in 1..Len(tasks[c]) : p = <<c, l>> /\ tasks[c][l].node = n
      BY <1>2
    <2>2. PICK k \in 1..Len(tasks[c]) : p = <<c, k>> /\ tasks[c][k].node = n  BY <2>1
    <2>3. PICK d \in Cores : \E l \in 1..Len(tasks[d]) : q = <<d, l>> /\ tasks[d][l].node = n
      BY <1>2
    <2>4. PICK l \in 1..Len(tasks[d]) : q = <<d, l>> /\ tasks[d][l].node = n  BY <2>3
    <2>5. c = d  BY <1>4, <2>2, <2>4
    <2>6. k = l  BY <2>2, <2>4, <2>5 DEF HasOnce
    <2>7. QED  BY <2>2, <2>4, <2>5, <2>6
  <1>5. PICK f : f = [q \in Parts(n) |-> q[1]]  OBVIOUS
  <1>6. \A q \in Parts(n) : f[q] = q[1] /\ f[q] \in On(n)
    <2>1. SUFFICES ASSUME NEW q \in Parts(n)  PROVE f[q] = q[1] /\ f[q] \in On(n)  OBVIOUS
    <2>2. PICK c \in Cores : \E l \in 1..Len(tasks[c]) : q = <<c, l>> /\ tasks[c][l].node = n
      BY <1>2
    <2>3. q[1] = c /\ HasNode(tasks[c], n)  BY <2>2 DEF HasNode
    <2>4. QED  BY <1>5, <2>3 DEF On
  <1>7. f \in Injection(Parts(n), On(n))
    <2>1. f \in [Parts(n) -> On(n)]  BY <1>5, <1>6
    <2>2. \A p, q \in Parts(n) : f[p] = f[q] => p = q  BY <1>4, <1>6
    <2>3. QED  BY <2>1, <2>2 DEF Injection, IsInjective
  <1>8. f \in Surjection(Parts(n), On(n))
    <2>1. f \in [Parts(n) -> On(n)]  BY <1>5, <1>6
    <2>2. ASSUME NEW c \in On(n)  PROVE \E q \in Parts(n) : f[q] = c
      <3>1. PICK l \in 1..Len(tasks[c]) : c \in Cores /\ tasks[c][l].node = n
        BY DEF On, HasNode
      <3>2. PICK q : q = <<c, l>>  OBVIOUS
      <3>3. q \in Parts(n) /\ q[1] = c  BY <1>3, <3>1, <3>2
      <3>4. QED  BY <1>6, <3>3
    <2>3. QED  BY <2>1, <2>2 DEF Surjection
  <1>9. IsFiniteSet(On(n))
    <2>1. On(n) \in SUBSET Cores  BY DEF On
    <2>2. QED  BY <2>1, FiniteCores
  <1>10. Cardinality(Parts(n)) = Cardinality(On(n))  BY <1>7, <1>8, <1>9, FS_Injection
  <1>11. QED  BY <1>2, <1>4, <1>10

\* A node that run() has placed occupies as many cores as it asked for, one part on
\* each, and all parts start at the same time and last run_time: placing the parts
\* one by one finds the common start that the trial found, although every part that
\* is placed changes the lists the next one is selected from.
THEOREM GangsStartTogether == Spec => []GangTogether
  <1>1. ASSUME TimeInv, GangInv  PROVE GangTogether
    <2>1. SUFFICES ASSUME NEW n \in Nodes, Complete(n)
                   PROVE  /\ Cardinality(Parts(n)) = core[n]
                          /\ \A p, q \in Parts(n) :
                                /\ p[1] = q[1] => p = q
                                /\ SlotAt(p).start = SlotAt(q).start
                                /\ SlotAt(p).end = SlotAt(p).start + run_time[n]
      BY DEF GangTogether
    <2>2. TaskInv /\ \A c \in Cores : HasOnce(tasks[c], n)
      BY <1>1 DEF TimeInv, GangInv, WhereInv
    <2>3. /\ \A q \in Parts(n) : \E c \in Cores : \E l \in 1..Len(tasks[c]) :
                q = <<c, l>> /\ tasks[c][l].node = n
          /\ \A p, q \in Parts(n) : p[1] = q[1] => p = q
          /\ Cardinality(Parts(n)) = Cardinality(On(n))
      BY <2>2, PartsOnCores
    <2>4. PICK t \in Nat : Cardinality(On(n)) = core[n] /\ StartsAt(n, t)
      BY <1>1, <2>1 DEF GangInv, DoneInv
    <2>5. ASSUME NEW q \in Parts(n)
          PROVE  SlotAt(q).start = t /\ SlotAt(q).end = t + run_time[n]
      <3>1. PICK c \in Cores : \E l \in 1..Len(tasks[c]) : q = <<c, l>> /\ tasks[c][l].node = n
        BY <2>3
      <3>2. PICK l \in 1..Len(tasks[c]) : q = <<c, l>> /\ tasks[c][l].node = n  BY <3>1
      <3>3. n # None  BY GraphAssumption DEF Nodes
      <3>4. DOMAIN tasks[c] = 1..Len(tasks[c])  BY <2>2, LenProperties DEF TaskInv
      <3>5. tasks[c][l] \in NonEmpty(tasks[c])  BY <3>2, <3>3, <3>4 DEF NonEmpty, Held
      <3>6. tasks[c][l].start = t /\ tasks[c][l].end = t + run_time[n]
        BY <2>4, <3>2, <3>5 DEF StartsAt
      <3>7. QED  BY <3>2, <3>6 DEF SlotAt
    <2>6. QED  BY <2>3, <2>4, <2>5
  <1>2. Init => GangInv  BY GangInit
  <1>3. TimeInv /\ GangInv /\ [Next]_vars => GangInv'  BY GangNext
  <1>4. QED  BY <1>1, <1>2, <1>3, TimeInvariant, PTL DEF Spec

-----------------------------------------------------------------------------
(* Lists of children: the walk along next pointers.                        *)

Pointers == [Nodes \cup {Root} -> Nodes \cup {None}]

\* Walk for any function of next pointers.
WalkOf(f, n) ==
    LET w[k \in 0..N] == IF k = 0 THEN n
                         ELSE IF w[k - 1] = None THEN None ELSE f[w[k - 1]]
    IN  {w[k] : k \in 0..N} \ {None}

IsWalk(w, f, n, m) ==
    /\ w[0] = n
    /\ \A k \in 1..m : w[k] = IF w[k - 1] = None THEN None ELSE f[w[k - 1]]

\* The recursion of the walk defines a function.
LEMMA WalkExists ==
    ASSUME NEW f \in Pointers, NEW n \in Nodes
    PROVE  \E w \in [0..N -> Nodes \cup {None}] : IsWalk(w, f, n, N)
  <1>a. N \in Nat  BY GraphAssumption
  <1> DEFINE P == {m \in 0..N : \E w \in [0..m -> Nodes \cup {None}] : IsWalk(w, f, n, m)}
  <1>b. 0 \in P
    <2> DEFINE w == [i \in 0..0 |-> n]
    <2>1. w \in [0..0 -> Nodes \cup {None}] /\ IsWalk(w, f, n, 0)  BY DEF IsWalk
    <2>2. 0 \in 0..N  BY <1>a
    <2>3. QED  BY <2>1, <2>2
  <1>c. ASSUME NEW m \in 0..N - 1, m \in P  PROVE m + 1 \in P
    <2>1. PICK w \in [0..m -> Nodes \cup {None}] : IsWalk(w, f, n, m)  BY <1>c
    <2>2. m + 1 \in 0..N /\ m \in 0..m  BY <1>a
    <2> DEFINE x == IF w[m] = None THEN None ELSE f[w[m]]
               v == [i \in 0..m + 1 |-> IF i = m + 1 THEN x ELSE w[i]]
    <2>3. w[m] \in Nodes \cup {None}  BY <2>1, <2>2
    <2>4. x \in Nodes \cup {None}  BY <2>3 DEF Pointers
    <2> HIDE DEF x
    <2>5. v \in [0..m + 1 -> Nodes \cup {None}]  BY <2>1, <2>4
    <2>6. IsWalk(v, f, n, m + 1)
      <3>1. v[0] = n  BY <2>1 DEF IsWalk
      <3>2. ASSUME NEW i \in 1..m + 1
            PROVE  v[i] = IF v[i - 1] = None THEN None ELSE f[v[i - 1]]
        <4>1. CASE i = m + 1
          <5>1. v[i] = x /\ v[i - 1] = w[m]  BY <4>1
          <5>2. QED  BY <4>1, <5>1 DEF x
        <4>2. CASE i \in 1..m
          <5>1. v[i] = w[i] /\ v[i - 1] = w[i - 1]  BY <4>2
          <5>2. QED  BY <2>1, <4>2, <5>1 DEF IsWalk
        <4>3. QED  BY <4>1, <4>2
      <3>3. QED  BY <3>1, <3>2 DEF IsWalk
    <2>7. QED  BY <2>2, <2>5, <2>6
  <1>d. \A m \in 0..N - 1 : m \in P => m + 1 \in P  BY <1>c
  <1> HIDE DEF P
  <1>e. \A m \in 0..N : m \in P  BY <1>a, <1>b, <1>d, UpTo
  <1>f. N \in P  BY <1>a, <1>e
  <1>g. QED  BY <1>f DEF P

\* The walk is what the recursion passes.
LEMMA WalkPasses ==
    ASSUME NEW f \in Pointers, NEW n \in Nodes
    PROVE  \E w \in [0..N -> Nodes \cup {None}] :
               IsWalk(w, f, n, N) /\ WalkOf(f, n) = {w[k] : k \in 0..N} \ {None}
  <1>a. N \in Nat  BY GraphAssumption
  <1> DEFINE Rec(w) == [k \in 0..N |->
                  IF k = 0 THEN n
                  ELSE IF w[k - 1] = None THEN None ELSE f[w[k - 1]]]
             F == CHOOSE w : w = Rec(w)
  <1>1. PICK w \in [0..N -> Nodes \cup {None}] : IsWalk(w, f, n, N)  BY WalkExists
  <1>2. w = Rec(w)
    <2>1. ASSUME NEW i \in 0..N  PROVE w[i] = Rec(w)[i]
      <3>1. CASE i = 0  BY <1>1, <3>1 DEF IsWalk
      <3>2. CASE i \in 1..N
        <4>1. i # 0  BY <1>a, <3>2
        <4>2. QED  BY <1>1, <3>2, <4>1 DEF IsWalk
      <3>3. QED  BY <1>a, <3>1, <3>2
    <2>2. w = [i \in 0..N |-> w[i]]  BY <1>1
    <2>3. QED  BY <2>1, <2>2
  <1>3. F = Rec(F)  BY <1>2
  <1>h. WalkOf(f, n) = {F[k] : k \in 0..N} \ {None}  BY DEF WalkOf
  <1> HIDE DEF F
  <1> DEFINE P == {i \in 0..N : F[i] = w[i]}
  <1>4. 0 \in P
    <2>1. F[0] = Rec(F)[0] /\ 0 \in 0..N  BY <1>3, <1>a
    <2>2. QED  BY <1>1, <2>1 DEF IsWalk
  <1>5. ASSUME NEW i \in 0..N - 1, i \in P  PROVE i + 1 \in P
    <2>1. i + 1 \in 1..N /\ i + 1 \in 0..N /\ i + 1 # 0 /\ (i + 1) - 1 = i  BY <1>a
    <2>2. F[i + 1] = Rec(F)[i + 1]  BY <1>3
    <2>3. F[i + 1] = IF F[i] = None THEN None ELSE f[F[i]]  BY <2>1, <2>2
    <2>4. w[i + 1] = IF w[i] = None THEN None ELSE f[w[i]]  BY <1>1, <2>1 DEF IsWalk
    <2>5. QED  BY <1>5, <2>1, <2>3, <2>4
  <1>6. \A i \in 0..N : i \in P
    <2> HIDE DEF P
    <2>1. QED  BY <1>a, <1>4, <1>5, UpTo
  <1>7. \A i \in 0..N : F[i] = w[i]  BY <1>6
  <1>8. {F[k] : k \in 0..N} = {w[k] : k \in 0..N}  BY <1>7
  <1>9. QED  BY <1>1, <1>h, <1>8

\* A walk that goes on has come to a node for the second time.
LEMMA WalkReturns ==
    ASSUME NEW f \in Pointers, NEW n \in Nodes, NEW w \in [0..N -> Nodes \cup {None}],
           IsWalk(w, f, n, N), w[N] # None
    PROVE  \E k \in 0..N - 1 : w[k] = w[N]
  <1>a. N \in Nat  BY GraphAssumption
  <1>1. ASSUME NEW k \in 0..N  PROVE w[k] # None
    <2>1. SUFFICES ASSUME w[k] = None  PROVE FALSE
      OBVIOUS
    <2> DEFINE P == {j \in 0..N : j < k \/ w[j] = None}
    <2>2. 0 \in P  BY <1>a, <2>1
    <2>3. ASSUME NEW j \in 0..N - 1, j \in P  PROVE j + 1 \in P
      <3>1. j + 1 \in 1..N /\ (j + 1) - 1 = j  BY <1>a
      <3>2. j < k => j + 1 < k \/ j + 1 = k  BY <1>a
      <3>3. w[j] = None => w[j + 1] = None  BY <3>1 DEF IsWalk
      <3>4. QED  BY <2>1, <2>3, <3>1, <3>2, <3>3
    <2>4. \A j \in 0..N : j \in P
      <3> HIDE DEF P
      <3>1. QED  BY <1>a, <2>2, <2>3, UpTo
    <2>5. QED  BY <1>a, <2>4
  <1>2. w \in [0..N -> Nodes]  BY <1>1
  <1>3. IsFiniteSet(0..N) /\ Cardinality(0..N) = N + 1  BY <1>a, FS_Interval
  <1>4. IsFiniteSet(Nodes) /\ Cardinality(Nodes) = N  BY <1>a, FS_Interval DEF Nodes
  <1>5. \E i, j \in 0..N : i # j /\ w[i] = w[j]
    <2>1. Cardinality(Nodes) < Cardinality(0..N)  BY <1>a, <1>3, <1>4
    <2>2. SUFFICES ASSUME \A i, j \in 0..N : w[i] = w[j] => i = j  PROVE FALSE
      OBVIOUS
    <2>3. w \in Injection(0..N, Nodes)  BY <1>2, <2>2 DEF Injection, IsInjective
    <2>4. Cardinality(0..N) <= Cardinality(Nodes)  BY <1>4, <2>3, FS_Injection
    <2>5. QED  BY <1>a, <1>3, <1>4, <2>4
  <1>6. PICK i \in 0..N, j \in 0..N : i < j /\ w[i] = w[j]  BY <1>a, <1>5
  <1> DEFINE P == {t \in 0..N - j : w[i + t] = w[j + t]}
  <1>7. 0 \in P  BY <1>a, <1>6
  <1>8. ASSUME NEW t \in 0..(N - j) - 1, t \in P  PROVE t + 1 \in P
    <2>1. /\ t + 1 \in 0..N - j
          /\ i + (t + 1) \in 1..N /\ (i + (t + 1)) - 1 = i + t
          /\ j + (t + 1) \in 1..N /\ (j + (t + 1)) - 1 = j + t
      BY <1>a, <1>6
    <2>2. w[i + (t + 1)] = w[j + (t + 1)]  BY <1>8, <2>1 DEF IsWalk
    <2>3. QED  BY <2>1, <2>2
  <1>9. \A t \in 0..N - j : t \in P
    <2>1. N - j \in Nat  BY <1>a
    <2> HIDE DEF P
    <2>2. QED  BY <1>7, <1>8, <2>1, UpTo
  <1>10. N - j \in P /\ j + (N - j) = N /\ i + (N - j) \in 0..N - 1  BY <1>a, <1>6, <1>9
  <1>11. QED  BY <1>10

\* The walk from n is the least set that holds n and is closed under f.
LEMMA WalkIsLeast ==
    ASSUME NEW f \in Pointers, NEW n \in Nodes
    PROVE  /\ n \in WalkOf(f, n) /\ WalkOf(f, n) \subseteq Nodes
           /\ \A x \in WalkOf(f, n) : f[x] # None => f[x] \in WalkOf(f, n)
           /\ \A S : n \in S /\ (\A x \in S \cap Nodes : f[x] # None => f[x] \in S)
                     => WalkOf(f, n) \subseteq S
  <1>a. N \in Nat /\ None \notin Nodes  BY GraphAssumption DEF Nodes
  <1>1. PICK w \in [0..N -> Nodes \cup {None}] :
            IsWalk(w, f, n, N) /\ WalkOf(f, n) = {w[k] : k \in 0..N} \ {None}
    BY WalkPasses
  <1>2. n \in WalkOf(f, n)
    <2>1. 0 \in 0..N /\ w[0] = n  BY <1>a, <1>1 DEF IsWalk
    <2>2. QED  BY <1>a, <1>1, <2>1
  <1>3. WalkOf(f, n) \subseteq Nodes  BY <1>1
  <1>4. ASSUME NEW k \in 0..N - 1, w[k] # None, f[w[k]] # None  PROVE f[w[k]] \in WalkOf(f, n)
    <2>1. k + 1 \in 1..N /\ k + 1 \in 0..N /\ (k + 1) - 1 = k  BY <1>a
    <2>2. w[k + 1] = f[w[k]]  BY <1>1, <1>4, <2>1 DEF IsWalk
    <2>3. QED  BY <1>1, <1>4, <2>1, <2>2
  <1>5. ASSUME NEW x \in WalkOf(f, n), f[x] # None  PROVE f[x] \in WalkOf(f, n)
    <2>1. PICK k \in 0..N : x = w[k] /\ w[k] # None  BY <1>1
    <2>2. CASE k \in 0..N - 1  BY <1>4, <1>5, <2>1, <2>2
    <2>3. CASE k = N
      <3>1. PICK j \in 0..N - 1 : w[j] = w[N]  BY <1>1, <2>1, <2>3, WalkReturns
      <3>2. QED  BY <1>4, <1>5, <2>1, <2>3, <3>1
    <2>4. QED  BY <1>a, <2>2, <2>3
  <1>6. ASSUME NEW S, n \in S, \A x \in S \cap Nodes : f[x] # None => f[x] \in S
        PROVE  WalkOf(f, n) \subseteq S
    <2> DEFINE P == {k \in 0..N : w[k] \in S \cup {None}}
    <2>1. 0 \in P  BY <1>a, <1>1, <1>6 DEF IsWalk
    <2>2. ASSUME NEW k \in 0..N - 1, k \in P  PROVE k + 1 \in P
      <3>1. k + 1 \in 1..N /\ k + 1 \in 0..N /\ (k + 1) - 1 = k /\ k \in 0..N  BY <1>a
      <3>2. w[k + 1] = IF w[k] = None THEN None ELSE f[w[k]]  BY <1>1, <3>1 DEF IsWalk
      <3>3. w[k] \in Nodes \cup {None}  BY <1>1, <3>1
      <3>4. QED  BY <1>6, <2>2, <3>1, <3>2, <3>3
    <2>3. \A k \in 0..N : k \in P
      <3> HIDE DEF P
      <3>1. QED  BY <1>a, <2>1, <2>2, UpTo
    <2>4. QED  BY <1>1, <2>3
  <1>7. QED  BY <1>2, <1>3, <1>5, <1>6

\* The walk along the present next pointers, and along the next ones.
LEMMA WalkNow ==
    ASSUME NEW n
    PROVE  /\ Walk(n) = WalkOf(next, n) /\ Walk(n)' = WalkOf(next', n)
           /\ Children(n) = IF child[n] = None THEN {} ELSE WalkOf(next, child[n])
           /\ Children(n)' = IF child'[n] = None THEN {} ELSE WalkOf(next', child'[n])
  BY DEF Walk, WalkOf, Children

-----------------------------------------------------------------------------
(* Insertions, in their order.                                             *)

\* What is made a child of p: its publishers or, for the root, the nodes nobody
\* subscribes to.
Below(p) == IF p = Root THEN {m \in Nodes : Subscribers(m) = {}} ELSE Publishers(p)

OrphanArcs == {<<Root, m, 1>> : m \in Below(Root)}

\* The order of the insertions is total, so some insertion comes first.
LEMMA FirstIs ==
    ASSUME NEW S, S # {}, S \subseteq (Nodes \cup {Root}) \X Nodes \X Nat
    PROVE  FirstOf(S) \in S /\ \A t \in S \ {FirstOf(S)} : Before(FirstOf(S), t)
  <1> DEFINE r == [t \in S |-> <<t[1] + 10, t[2], t[3], 0>>]
  <1>a. 1..4 = {1, 2, 3, 4}  OBVIOUS
  <1>1. \A t \in S : /\ t = <<t[1], t[2], t[3]>> /\ t[1] + 10 \in Nat /\ t[1] \in Int
                     /\ t[2] \in Nat /\ t[3] \in Nat
    BY GraphAssumption DEF Nodes, Root
  <1>2. \A t \in S : r[t][1] = t[1] + 10 /\ r[t][2] = t[2] /\ r[t][3] = t[3] /\ r[t][4] = 0
    OBVIOUS
  <1> HIDE DEF r
  <1>3. \A t \in S : \A i \in 1..4 : r[t][i] \in Nat  BY <1>a, <1>1, <1>2
  <1>4. ASSUME NEW t \in S, NEW u \in S, \A i \in 1..4 : r[t][i] = r[u][i]  PROVE t = u
    <2>1. t[1] + 10 = u[1] + 10 /\ t[2] = u[2] /\ t[3] = u[3]  BY <1>a, <1>2, <1>4
    <2>2. t[1] = u[1]  BY <1>1, <2>1
    <2>3. QED  BY <1>1, <2>1, <2>2
  <1>5. PICK t \in S : \A u \in S \ {t} : Better(r, t, u)  BY <1>3, <1>4, BestExists
  <1>6. ASSUME NEW u \in S \ {t}  PROVE Before(t, u)
    <2>1. PICK i \in 1..4 : r[t][i] < r[u][i] /\ \A j \in 1..i - 1 : r[t][j] = r[u][j]
      BY <1>5 DEF Better
    <2>2. CASE i = 1
      <3>1. t[1] + 10 < u[1] + 10  BY <1>2, <2>1, <2>2
      <3>2. QED  BY <1>1, <3>1 DEF Before
    <2>3. CASE i = 2
      <3>1. t[1] + 10 = u[1] + 10 /\ t[2] < u[2]  BY <1>2, <2>1, <2>3
      <3>2. QED  BY <1>1, <3>1 DEF Before
    <2>4. CASE i = 3
      <3>1. t[1] + 10 = u[1] + 10 /\ t[2] = u[2] /\ t[3] < u[3]  BY <1>2, <2>1, <2>4
      <3>2. QED  BY <1>1, <3>1 DEF Before
    <2>5. CASE i = 4  BY <1>2, <2>1, <2>5
    <2>6. QED  BY <1>a, <2>2, <2>3, <2>4, <2>5
  <1>7. QED  BY <1>6 DEF FirstOf

\* A node is none of its lists' ends, and the root is no node.
LEMMA NodeNames == None \notin Nodes /\ Root \notin Nodes /\ None # Root /\ Nodes \subseteq Nat
  BY GraphAssumption DEF Nodes, Root

\* The children of a node are nodes, and their list goes on while it can.
LEMMA ChildrenClosed ==
    ASSUME child \in Pointers, next \in Pointers, NEW n \in Nodes \cup {Root}
    PROVE  /\ Children(n) \subseteq Nodes
           /\ child[n] # None => child[n] \in Children(n)
           /\ \A x \in Children(n) : next[x] # None => next[x] \in Children(n)
           /\ \A S : (child[n] # None => child[n] \in S)
                     /\ (\A x \in S \cap Nodes : next[x] # None => next[x] \in S)
                     => Children(n) \subseteq S
  <1>1. CASE child[n] = None  BY <1>1, WalkNow
  <1>2. CASE child[n] # None
    <2>1. child[n] \in Nodes  BY <1>2 DEF Pointers
    <2>2. Children(n) = WalkOf(next, child[n])  BY <1>2, WalkNow
    <2>3. QED  BY <1>2, <2>1, <2>2, WalkIsLeast
  <1>3. QED  BY <1>1, <1>2

\* insert_child_node makes c a child of p, and whoever was a child of a node stays one.
LEMMA InsertCovers ==
    ASSUME child \in Pointers, next \in Pointers, NEW p \in Nodes \cup {Root}, NEW c \in Nodes,
           InsertChildNode(p, c)
    PROVE  /\ child' \in Pointers /\ next' \in Pointers
           /\ next[Root] = None => next'[Root] = None
           /\ c \in Children(p)'
           /\ \A n \in Nodes \cup {Root} : Children(n) \subseteq Children(n)'
  <1>n. None \notin Nodes /\ Root \notin Nodes  BY NodeNames
  <1>1. CASE child[p] = None
    <2>1. child' = [child EXCEPT ![p] = c] /\ next' = next  BY <1>1 DEF InsertChildNode
    <2>2. /\ child' \in Pointers /\ child'[p] = c
          /\ \A n \in Nodes \cup {Root} : n # p => child'[n] = child[n]
      BY <2>1 DEF Pointers
    <2>3. Children(p)' = WalkOf(next, c)  BY <1>n, <2>1, <2>2, WalkNow
    <2>4. c \in Children(p)'  BY <2>3, WalkIsLeast
    <2>5. ASSUME NEW n \in Nodes \cup {Root}, n # p  PROVE Children(n)' = Children(n)
      BY <2>1, <2>2, <2>5, WalkNow
    <2>6. Children(p) = {}  BY <1>1, WalkNow
    <2>7. QED  BY <2>1, <2>2, <2>4, <2>5, <2>6
  <1>2. CASE child[p] # None
    <2>1. PICK m \in Tails(child[p]) : next' = [next EXCEPT ![m] = c]
      BY <1>2 DEF InsertChildNode, InsertAfter
    <2>2. child' = child /\ child[p] \in Nodes  BY <1>2 DEF InsertChildNode, Pointers
    <2>3. m \in WalkOf(next, child[p]) /\ next[m] = None  BY <2>1, WalkNow DEF Tails
    <2>4. m \in Nodes  BY <2>2, <2>3, WalkIsLeast
    <2>5. /\ next' \in Pointers /\ next'[m] = c
          /\ \A x \in Nodes \cup {Root} : x # m => next'[x] = next[x]
      BY <2>1, <2>4 DEF Pointers
    <2>6. ASSUME NEW x \in Nodes  PROVE WalkOf(next, x) \subseteq WalkOf(next', x)
      <3>1. x \in WalkOf(next', x) /\ WalkOf(next', x) \subseteq Nodes
            /\ \A y \in WalkOf(next', x) : next'[y] # None => next'[y] \in WalkOf(next', x)
        BY <2>5, WalkIsLeast
      <3>2. \A y \in WalkOf(next', x) \cap Nodes : next[y] # None => next[y] \in WalkOf(next', x)
        BY <2>3, <2>5, <3>1
      <3>3. QED  BY <3>1, <3>2, WalkIsLeast
    <2>7. c \in Children(p)'
      <3>1. m \in WalkOf(next', child[p])  BY <2>2, <2>3, <2>6
      <3>2. c \in WalkOf(next', child[p])  BY <1>n, <2>2, <2>5, <3>1, WalkIsLeast
      <3>3. QED  BY <1>2, <2>2, <3>2, WalkNow
    <2>8. ASSUME NEW n \in Nodes \cup {Root}  PROVE Children(n) \subseteq Children(n)'
      <3>1. child[n] # None => child[n] \in Nodes  BY DEF Pointers
      <3>2. QED  BY <2>2, <2>6, <3>1, WalkNow
    <2>9. QED  BY <1>n, <2>2, <2>4, <2>5, <2>7, <2>8
  <1>3. QED  BY <1>1, <1>2

\* insert_child_node gives c a parent.
LEMMA ParentGrows ==
    ASSUME NEW p \in Nodes \cup {Root}, NEW c \in Nodes,
           parent \in [Nodes \cup {Root} -> Seq(Nodes \cup {Root})]
    PROVE  /\ WithParent(c, p) \in [Nodes \cup {Root} -> Seq(Nodes \cup {Root})]
           /\ WithParent(c, p)[c] # <<>>
           /\ \A n \in Nodes : n # c => WithParent(c, p)[n] = parent[n]
  <1>1. parent[c] \in Seq(Nodes \cup {Root}) /\ Len(parent[c]) \in Nat  BY LenProperties
  <1>2. ParentMax \in Nat \ {0}  BY GraphAssumption
  <1>3. CASE Len(parent[c]) < ParentMax
    <2> DEFINE l == Append(parent[c], p)
    <2>1. l \in Seq(Nodes \cup {Root}) /\ Len(l) = Len(parent[c]) + 1  BY <1>1, AppendProperties
    <2>2. l # <<>>
      <3>1. Len(l) # 0  BY <1>1, <2>1
      <3>2. QED  BY <3>1, EmptySeq
    <2>3. WithParent(c, p) = [parent EXCEPT ![c] = l]  BY <1>3 DEF WithParent
    <2> HIDE DEF l
    <2>4. QED  BY <2>1, <2>2, <2>3
  <1>4. CASE ~(Len(parent[c]) < ParentMax)
    <2>1. Len(parent[c]) # 0  BY <1>1, <1>2, <1>4
    <2>2. parent[c] # <<>>  BY <2>1, EmptySeq
    <2>3. WithParent(c, p) = parent  BY <1>4 DEF WithParent
    <2>4. QED  BY <2>2, <2>3
  <1>5. QED  BY <1>3, <1>4

-----------------------------------------------------------------------------
(* No dependency is lost, whatever the file.                               *)

PendingInv ==
    /\ next[Root] = None
    /\ gpc = "dag" => pending \subseteq Insertions(links)
    /\ gpc = "root" => pending \subseteq OrphanArcs
    /\ gpc = "hang" => pending \subseteq Insertions(links) \cup OrphanArcs
    /\ gpc \in {"laxity", "built", "overflow"} => pending = {}

\* What was inserted is in the list of its subscriber ...
CoverInv == \A t \in Insertions(links) \ pending : t[2] \in Children(t[1])

\* ... the others in the root's ...
RootInv ==
    gpc \in {"root", "laxity", "built", "overflow"} =>
        \A m \in Below(Root) : <<Root, m, 1>> \in pending \/ m \in Children(Root)

\* ... since a node without parents is one that nobody subscribes to.
ParentInv ==
    gpc = "dag" => \A m \in Nodes :
        parent[m] = <<>> <=> \A t \in Insertions(links) \ pending : t[2] # m

CoverAll == GraphTypeOK /\ PendingInv /\ CoverInv /\ RootInv /\ ParentInv

\* The insertions are the pairs of equal topics.
LEMMA InsertionsAre ==
    ASSUME GraphTypeOK
    PROVE  /\ Insertions(links) \subseteq Nodes \X Nodes \X (1..MaxLinks)
           /\ \A n, m \in Nodes : /\ links[n][m] \in 0..MaxLinks
                                  /\ links[n][m] > 0 => <<n, m, 1>> \in Insertions(links)
           /\ \A t \in Insertions(links) : /\ t[1] \in Nodes /\ t[2] \in Nodes
                                           /\ t[3] \in 1..MaxLinks
                                           /\ t = <<t[1], t[2], t[3]>>
                                           /\ t[3] <= links[t[1]][t[2]]
                                           /\ links[t[1]][t[2]] > 0
           /\ Insertions(links) \cap OrphanArcs = {}
           /\ OrphanArcs \subseteq {Root} \X Nodes \X {1}
  <1>1. MaxLinks \in Nat  BY GraphAssumption
  <1>2. ASSUME NEW n \in Nodes, NEW m \in Nodes  PROVE links[n][m] \in 0..MaxLinks
    BY DEF GraphTypeOK
  <1>3. ASSUME NEW n \in Nodes, NEW m \in Nodes, links[n][m] > 0
        PROVE  <<n, m, 1>> \in Insertions(links)
    <2>1. 1 \in 1..MaxLinks /\ 1 <= links[n][m]  BY <1>1, <1>2, <1>3
    <2>2. QED  BY <2>1 DEF Insertions
  <1>4. ASSUME NEW t \in Insertions(links)
        PROVE  /\ t[1] \in Nodes /\ t[2] \in Nodes /\ t[3] \in 1..MaxLinks
               /\ t = <<t[1], t[2], t[3]>>
               /\ t[3] <= links[t[1]][t[2]]
               /\ links[t[1]][t[2]] > 0
    <2>1. /\ t[1] \in Nodes /\ t[2] \in Nodes /\ t[3] \in 1..MaxLinks
          /\ t = <<t[1], t[2], t[3]>> /\ t[3] <= links[t[1]][t[2]]
      BY DEF Insertions
    <2>2. links[t[1]][t[2]] > 0  BY <1>1, <1>2, <2>1
    <2>3. QED  BY <2>1, <2>2
  <1>5. OrphanArcs \subseteq {Root} \X Nodes \X {1}  BY DEF OrphanArcs, Below
  <1>6. Insertions(links) \cap OrphanArcs = {}
    <2>1. Root \notin Nodes  BY NodeNames
    <2>2. QED  BY <1>4, <2>1 DEF OrphanArcs
  <1>7. QED  BY <1>2, <1>3, <1>4, <1>5, <1>6 DEF Insertions

\* What the constructor inserts next.
LEMMA FirstPending ==
    ASSUME CoverAll, gpc \in {"dag", "root"}, pending # {}
    PROVE  LET t == FirstOf(pending) IN
           /\ t \in pending /\ \A u \in pending \ {t} : Before(t, u)
           /\ t[1] \in Nodes \cup {Root} /\ t[2] \in Nodes
           /\ gpc = "dag" => t \in Insertions(links)
           /\ gpc = "root" => t \in OrphanArcs /\ t = <<Root, t[2], 1>>
  <1>1. GraphTypeOK /\ PendingInv  BY DEF CoverAll
  <1>2. pending \subseteq (Nodes \cup {Root}) \X Nodes \X Nat
    <2>1. MaxLinks \in Nat  BY GraphAssumption
    <2>2. CASE gpc = "dag"
      <3>1. pending \subseteq Nodes \X Nodes \X (1..MaxLinks)
          BY <1>1, <2>2, InsertionsAre DEF PendingInv
      <3>2. QED  BY <2>1, <3>1
    <2>3. CASE gpc = "root"
      <3>1. pending \subseteq {Root} \X Nodes \X {1}  BY <1>1, <2>3, InsertionsAre DEF PendingInv
      <3>2. QED  BY <3>1
    <2>4. QED  BY <2>2, <2>3
  <1>3. /\ FirstOf(pending) \in pending
        /\ \A u \in pending \ {FirstOf(pending)} : Before(FirstOf(pending), u)
    BY <1>2, FirstIs
  <1>4. QED  BY <1>1, <1>2, <1>3, InsertionsAre DEF PendingInv

\* A call of _compute_laxity: a node, *sum_run_time and its depth.
Frame == (Nodes \cup {Root}) \X Nat \X Nat

\* A call of _compute_laxity calls itself for the child and for the next node.
LEMMA LaxityCalls ==
    ASSUME GraphTypeOK, ComputeLaxity
    PROVE  /\ stack' \in Seq(Frame)
           /\ inv_laxity' \in [Nodes \cup {Root} -> Int]
           /\ UNCHANGED <<file, pointers, pending, gpc>>
           /\ \E n \in Nodes \cup {Root}, sum \in Nat, depth \in Nat, rest \in Seq(Frame) :
                 /\ stack # <<>> /\ Head(stack) = <<n, sum, depth>> /\ rest = Tail(stack)
                 /\ depth <= StackMax
                 /\ SumForChildren(n, sum) \in Nat
                 /\ n = Root => SumForChildren(n, sum) = sum /\ inv_laxity' = inv_laxity
                 /\ n \in Nodes =>
                       /\ SumForChildren(n, sum) = sum + run_time[n] /\ run_time[n] \in Nat
                       /\ inv_laxity' = IF run_time[n] + sum > inv_laxity[n]
                                        THEN [inv_laxity EXCEPT ![n] = sum + run_time[n]]
                                        ELSE inv_laxity
                 /\ CallOn(child[n], SumForChildren(n, sum), depth + 1) \in Seq(Frame)
                 /\ CallOn(next[n], sum, depth + 1) \in Seq(Frame)
                 /\ stack' = CallOn(child[n], SumForChildren(n, sum), depth + 1)
                             \o CallOn(next[n], sum, depth + 1) \o rest
  <1>1. stack \in Seq(Frame) /\ stack # <<>>  BY DEF GraphTypeOK, ComputeLaxity, Frame
  <1>2. Head(stack) \in Frame /\ Tail(stack) \in Seq(Frame)  BY <1>1, HeadTailProperties
  <1>3. PICK n \in Nodes \cup {Root}, sum \in Nat, depth \in Nat : Head(stack) = <<n, sum, depth>>
    BY <1>2 DEF Frame
  <1>h. Head(stack)[1] = n /\ Head(stack)[2] = sum /\ Head(stack)[3] = depth  BY <1>3
  <1>4. Root \notin Nodes /\ Root = -10  BY NodeNames DEF Root
  <1>5. n \in Nodes => run_time[n] \in Nat /\ RunTimeOf(n) = run_time[n]
    BY <1>4, GraphAssumption DEF GraphTypeOK, RunTimeOf
  <1>6. n = Root => RunTimeOf(n) = -1  BY DEF RunTimeOf
  <1>7. /\ n \in Nodes => SumForChildren(n, sum) = sum + run_time[n]
        /\ n = Root => SumForChildren(n, sum) = sum
    BY <1>5, <1>6 DEF SumForChildren
  <1>8. SumForChildren(n, sum) \in Nat  BY <1>5, <1>7
  <1>9. ASSUME NEW m \in Nodes \cup {None}, NEW s \in Nat
      PROVE CallOn(m, s, depth + 1) \in Seq(Frame)
    <2>1. CASE m = None
      <3>1. <<>> \in Seq(Frame)  BY EmptySeq
      <3>2. QED  BY <2>1, <3>1 DEF CallOn
    <2>2. CASE m \in Nodes /\ m # None
      <3>1. <<m, s, depth + 1>> \in Frame  BY <2>2 DEF Frame
      <3>2. <<<<m, s, depth + 1>>>> \in Seq(Frame)  BY <3>1
      <3>3. QED  BY <2>2, <3>2 DEF CallOn
    <2>3. QED  BY <2>1, <2>2
  <1>10. /\ CallOn(child[n], SumForChildren(n, sum), depth + 1) \in Seq(Frame)
         /\ CallOn(next[n], sum, depth + 1) \in Seq(Frame)
    BY <1>8, <1>9 DEF GraphTypeOK
  <1>11. stack' = CallOn(child[n], SumForChildren(n, sum), depth + 1)
                  \o CallOn(next[n], sum, depth + 1) \o Tail(stack)
    BY <1>h, Zenon DEF ComputeLaxity
  <1>12. stack' \in Seq(Frame)  BY <1>2, <1>10, <1>11, ConcatProperties
  <1>13. depth <= StackMax /\ UNCHANGED <<file, pointers, pending, gpc>>
    BY <1>3 DEF ComputeLaxity
  <1>14. /\ n = Root => inv_laxity' = inv_laxity
         /\ n \in Nodes => inv_laxity' = IF run_time[n] + sum > inv_laxity[n]
                                         THEN [inv_laxity EXCEPT ![n] = sum + run_time[n]]
                                         ELSE inv_laxity
    <2>1. inv_laxity' = IF RunTimeOf(n) >= 0 /\ RunTimeOf(n) + sum > inv_laxity[n]
                        THEN [inv_laxity EXCEPT ![n] = sum + RunTimeOf(n)] ELSE inv_laxity
      BY <1>h, Zenon DEF ComputeLaxity
    <2>2. CASE n = Root
      <3>1. ~(RunTimeOf(n) >= 0)  BY <1>6, <2>2
      <3>2. QED  BY <1>4, <2>1, <2>2, <3>1
    <2>3. CASE n \in Nodes
      <3>1. RunTimeOf(n) = run_time[n] /\ RunTimeOf(n) >= 0  BY <1>5, <2>3
      <3>2. QED  BY <1>4, <2>1, <2>3, <3>1
    <2>4. QED  BY <2>2, <2>3
  <1>15. inv_laxity' \in [Nodes \cup {Root} -> Int]
    <2>1. inv_laxity \in [Nodes \cup {Root} -> Int]  BY DEF GraphTypeOK
    <2>2. n \in Nodes => sum + run_time[n] \in Int  BY <1>5
    <2>3. QED  BY <1>14, <2>1, <2>2
  <1>16. QED
    BY <1>1, <1>2, <1>3, <1>5, <1>7, <1>8, <1>10, <1>11, <1>12, <1>13, <1>14, <1>15

\* At the start nothing is inserted.
LEMMA CoverInit == ASSUME GraphInit  PROVE CoverAll
  <1>n. None \notin Nodes /\ Root \notin Nodes  BY NodeNames
  <1>1. GraphTypeOK
    <2>1. links \in [Nodes -> [Nodes -> 0..MaxLinks]]  BY GraphAssumption DEF GraphInit
    <2>2. <<>> \in Seq(Nodes \cup {Root}) /\ <<>> \in Seq((Nodes \cup {Root}) \X Nat \X Nat)
      BY EmptySeq
    <2>3. QED  BY <2>1, <2>2 DEF GraphInit, GraphTypeOK, GraphPC
  <1>2. PendingInv  BY DEF GraphInit, PendingInv
  <1>3. CoverInv /\ RootInv /\ ParentInv  BY DEF GraphInit, CoverInv, RootInv, ParentInv
  <1>4. QED  BY <1>1, <1>2, <1>3 DEF CoverAll

\* The insertion of the first pending child keeps the types and covers it.
LEMMA InsertStep ==
    ASSUME CoverAll, gpc \in {"dag", "root"}, pending # {}, NEW t, t = FirstOf(pending),
           InsertChildNode(t[1], t[2]), pending' = pending \ {t},
           UNCHANGED <<file, gpc, stack, inv_laxity>>
    PROVE  CoverAll'
  <1>1. GraphTypeOK /\ PendingInv /\ CoverInv /\ RootInv /\ ParentInv  BY DEF CoverAll
  <1>2. child \in Pointers /\ next \in Pointers  BY <1>1 DEF GraphTypeOK, Pointers
  <1>3. /\ t \in pending /\ t[1] \in Nodes \cup {Root} /\ t[2] \in Nodes
        /\ gpc = "dag" => t \in Insertions(links)
        /\ gpc = "root" => t \in OrphanArcs /\ t = <<Root, t[2], 1>>
    BY FirstPending
  <1>4. /\ child' \in Pointers /\ next' \in Pointers
        /\ next[Root] = None => next'[Root] = None
        /\ t[2] \in Children(t[1])'
        /\ \A n \in Nodes \cup {Root} : Children(n) \subseteq Children(n)'
    BY <1>2, <1>3, InsertCovers
  <1>p. parent' = WithParent(t[2], t[1])  BY DEF InsertChildNode
  <1>5. /\ parent' \in [Nodes \cup {Root} -> Seq(Nodes \cup {Root})]
        /\ parent'[t[2]] # <<>>
        /\ \A n \in Nodes : n # t[2] => parent'[n] = parent[n]
    BY <1>1, <1>3, <1>p, ParentGrows DEF GraphTypeOK
  <1>6. GraphTypeOK'  BY <1>1, <1>4, <1>5 DEF GraphTypeOK, Pointers, file
  <1>7. links' = links /\ gpc' = gpc /\ Insertions(links)' = Insertions(links)
        /\ OrphanArcs' = OrphanArcs /\ Below(Root)' = Below(Root)
    BY DEF file, Insertions, OrphanArcs, Below, Subscribers
  <1>8. PendingInv'
    <2>1. next'[Root] = None  BY <1>1, <1>4 DEF PendingInv
    <2>2. QED  BY <1>1, <1>7, <2>1 DEF PendingInv
  <1>9. CoverInv'
    <2>1. SUFFICES ASSUME NEW u \in Insertions(links) \ pending'  PROVE u[2] \in Children(u[1])'
      BY <1>7 DEF CoverInv
    <2>2. u \in pending => u = t  OBVIOUS
    <2>3. u[1] \in Nodes  BY <1>1, InsertionsAre
    <2>4. QED  BY <1>1, <1>4, <2>2, <2>3 DEF CoverInv
  <1>10. RootInv'
    <2>1. SUFFICES ASSUME gpc = "root", NEW m \in Below(Root), <<Root, m, 1>> \notin pending'
                   PROVE  m \in Children(Root)'
      BY <1>7 DEF RootInv
    <2>2. CASE <<Root, m, 1>> \in pending
      <3>1. t = <<Root, m, 1>>  BY <2>1, <2>2
      <3>2. QED  BY <1>4, <3>1
    <2>3. CASE <<Root, m, 1>> \notin pending  BY <1>1, <1>4, <2>1, <2>3 DEF RootInv
    <2>4. QED  BY <2>2, <2>3
  <1>11. ParentInv'
    <2>1. SUFFICES ASSUME gpc = "dag", NEW m \in Nodes
                   PROVE  parent'[m] = <<>> <=> \A u \in Insertions(links) \ pending' : u[2] # m
      BY <1>7 DEF ParentInv
    <2>2. t \in Insertions(links) \ pending'  BY <1>3, <2>1
    <2>3. CASE m = t[2]  BY <1>5, <2>2, <2>3
    <2>4. CASE m # t[2]
      <3>1. parent[m] = <<>> <=> \A u \in Insertions(links) \ pending : u[2] # m
        BY <1>1, <2>1 DEF ParentInv
      <3>2. QED  BY <1>5, <2>4, <3>1
    <2>5. QED  BY <2>3, <2>4
  <1>12. QED  BY <1>6, <1>8, <1>9, <1>10, <1>11 DEF CoverAll

\* After the last insertion of create_dag the orphans are those without subscribers.
LEMMA OrphansAre ==
    ASSUME CoverAll, gpc = "dag", pending = {}
    PROVE  Orphans = Below(Root)
  <1>1. GraphTypeOK /\ ParentInv  BY DEF CoverAll
  <1>2. SUFFICES ASSUME NEW m \in Nodes  PROVE parent[m] = <<>> <=> Subscribers(m) = {}
    BY DEF Orphans, Below
  <1>3. parent[m] = <<>> <=> \A t \in Insertions(links) : t[2] # m  BY <1>1 DEF ParentInv
  <1>4. ASSUME NEW n \in Nodes, links[n][m] > 0
        PROVE  \E t \in Insertions(links) : t[2] = m
    <2>1. <<n, m, 1>> \in Insertions(links)  BY <1>1, <1>4, InsertionsAre
    <2>2. QED  BY <2>1
  <1>5. ASSUME NEW t \in Insertions(links), t[2] = m  PROVE t[1] \in Subscribers(m)
    BY <1>1, <1>5, InsertionsAre DEF Subscribers
  <1>6. QED  BY <1>3, <1>4, <1>5 DEF Subscribers

\* They are what set_to_root inserts.
LEMMA CoverDagDone == ASSUME CoverAll, DagDone  PROVE CoverAll'
  <1>1. GraphTypeOK /\ PendingInv /\ CoverInv /\ RootInv /\ ParentInv  BY DEF CoverAll
  <1>2. gpc = "dag" /\ pending = {} /\ gpc' = "root" /\ pending' = {<<Root, n, 1>> : n \in Orphans}
        /\ UNCHANGED <<links, run_time, child, next, parent, stack, inv_laxity>>
    BY DEF DagDone, file, pointers
  <1>3. Orphans = Below(Root)  BY <1>2, OrphansAre
  <1>4. pending' = OrphanArcs  BY <1>2, <1>3 DEF OrphanArcs
  <1>5. /\ Insertions(links)' = Insertions(links) /\ OrphanArcs' = OrphanArcs
        /\ Below(Root)' = Below(Root) /\ \A n : Children(n)' = Children(n)
    BY <1>2, WalkNow DEF Insertions, OrphanArcs, Below, Subscribers
  <1>6. GraphTypeOK'  BY <1>1, <1>2 DEF GraphTypeOK, GraphPC
  <1>7. PendingInv'  BY <1>1, <1>2, <1>4, <1>5 DEF PendingInv
  <1>8. CoverInv'  BY <1>1, <1>2, <1>5 DEF CoverInv
  <1>9. RootInv'
    <2>1. \A m \in Below(Root) : <<Root, m, 1>> \in pending'  BY <1>4 DEF OrphanArcs
    <2>2. QED  BY <1>5, <2>1 DEF RootInv
  <1>10. QED  BY <1>2, <1>6, <1>7, <1>8, <1>9 DEF CoverAll, ParentInv

\* Steps that leave the graph alone.
LEMMA CoverSame ==
    ASSUME CoverAll, GraphTypeOK', UNCHANGED <<links, pointers, pending>>,
           gpc' # "dag" \/ gpc' = gpc,
           gpc' = "root" => gpc = "root",
           gpc' = "hang" => gpc \in {"dag", "root", "hang"},
           gpc' \in {"laxity", "built", "overflow"} =>
               (gpc = "root" /\ pending = {}) \/ gpc \in {"laxity", "built", "overflow"}
    PROVE  CoverAll'
  <1>1. GraphTypeOK /\ PendingInv /\ CoverInv /\ RootInv /\ ParentInv  BY DEF CoverAll
  <1>2. /\ Insertions(links)' = Insertions(links) /\ OrphanArcs' = OrphanArcs
        /\ Below(Root)' = Below(Root) /\ \A n : Children(n)' = Children(n)
    BY WalkNow DEF Insertions, OrphanArcs, Below, Subscribers, pointers
  <1>3. PendingInv'  BY <1>1, <1>2 DEF PendingInv, pointers
  <1>4. CoverInv'  BY <1>1, <1>2 DEF CoverInv
  <1>5. RootInv'  BY <1>1, <1>2 DEF RootInv
  <1>6. ParentInv'  BY <1>1, <1>2 DEF ParentInv, pointers
  <1>7. QED  BY <1>3, <1>4, <1>5, <1>6 DEF CoverAll

\* Every step of the constructor and of compute_laxity.
LEMMA CoverNext == ASSUME CoverAll, [GraphNext]_graphVars  PROVE CoverAll'
  <1>t. GraphTypeOK /\ PendingInv  BY DEF CoverAll
  <1>1. CASE CreateDag
    <2>1. PICK t : t = FirstOf(pending)  OBVIOUS
    <2>2. QED  BY <1>1, <2>1, InsertStep DEF CreateDag
  <1>2. CASE SetToRoot
    <2>1. PICK t : t = FirstOf(pending)  OBVIOUS
    <2>2. QED  BY <1>2, <2>1, InsertStep DEF SetToRoot
  <1>3. CASE DagDone  BY <1>3, CoverDagDone
  <1>4. CASE InsertHangs
    <2>1. GraphTypeOK'  BY <1>t, <1>4 DEF InsertHangs, GraphTypeOK, GraphPC, file, pointers
    <2>2. QED  BY <1>4, <2>1, CoverSame DEF InsertHangs, file
  <1>5. CASE StartLaxity
    <2>1. <<<<Root, 0, 1>>>> \in Seq((Nodes \cup {Root}) \X Nat \X Nat)  OBVIOUS
    <2>2. GraphTypeOK'  BY <1>t, <1>5, <2>1 DEF StartLaxity, GraphTypeOK, GraphPC, file, pointers
    <2>3. QED  BY <1>5, <2>2, CoverSame DEF StartLaxity, file
  <1>6. CASE ComputeLaxity
    <2>1. /\ stack' \in Seq(Frame) /\ inv_laxity' \in [Nodes \cup {Root} -> Int]
          /\ UNCHANGED <<file, pointers, pending, gpc>>
      BY <1>t, <1>6, LaxityCalls
    <2>2. GraphTypeOK'  BY <1>t, <2>1 DEF GraphTypeOK, Frame, file, pointers
    <2>3. QED  BY <1>6, <2>1, <2>2, CoverSame DEF ComputeLaxity, file
  <1>7. CASE StackOverflow
    <2>1. GraphTypeOK'  BY <1>t, <1>7 DEF StackOverflow, GraphTypeOK, GraphPC, file, pointers
    <2>2. QED  BY <1>7, <2>1, CoverSame DEF StackOverflow, file
  <1>8. CASE LaxityDone
    <2>1. GraphTypeOK'  BY <1>t, <1>8 DEF LaxityDone, GraphTypeOK, GraphPC, file, pointers
    <2>2. QED  BY <1>8, <2>1, CoverSame DEF LaxityDone, file
  <1>9. CASE UNCHANGED graphVars
    <2>1. GraphTypeOK'  BY <1>t, <1>9 DEF graphVars, GraphTypeOK, file, pointers
    <2>2. QED  BY <1>9, <2>1, CoverSame, <1>t DEF graphVars, file, PendingInv, GraphTypeOK, GraphPC
  <1>10. QED
    BY <1>1, <1>2, <1>3, <1>4, <1>5, <1>6, <1>7, <1>8, <1>9 DEF GraphNext

-----------------------------------------------------------------------------
(* Chainable files: no list of children loops or holds somebody else.      *)

\* All insertions, and those still to come; the root's come last.
Arcs == Insertions(links) \cup OrphanArcs
Todo == IF gpc = "dag" THEN pending \cup OrphanArcs ELSE pending

\* A list begins with a node that was inserted into it ...
HeadInv ==
    \A p \in Nodes \cup {Root} :
        child[p] # None => child[p] \in Below(p) /\ <<p, child[p], 1>> \notin Todo

\* ... and goes on with a later node, inserted into every list that has the former.
TailInv ==
    \A x \in Nodes : next[x] # None =>
        /\ next[x] > x
        /\ \A p \in Nodes \cup {Root} :
              x \in Below(p) => next[x] \in Below(p) /\ <<p, next[x], 1>> \notin Todo

\* The children of a node are inserted in the order of the file.
OrderInv ==
    \A t \in Todo, s \in Arcs \ Todo :
        s[1] = t[1] => s[2] < t[2] \/ (s[2] = t[2] /\ s[3] < t[3])

ChainInv == gpc # "hang" /\ HeadInv /\ TailInv /\ OrderInv

\* There are finitely many nodes.
LEMMA FiniteNodes == IsFiniteSet(Nodes) /\ Cardinality(Nodes) = N /\ N \in Nat
  BY GraphAssumption, FS_Interval DEF Nodes

\* In a chainable file a node in two lists is alone in both.
LEMMA AloneInTwo ==
    ASSUME Chainable, NEW p \in Nodes \cup {Root}, NEW q \in Nodes \cup {Root}, p # q,
           NEW m \in Below(p), m \in Below(q)
    PROVE  Below(p) = {m}
  <1>1. Root \notin Nodes  BY NodeNames
  <1>2. p # Root /\ q # Root /\ m \in Nodes
    BY <1>1 DEF Below, Publishers, Subscribers
  <1>3. p \in Subscribers(m) /\ q \in Subscribers(m)
    BY <1>2 DEF Below, Publishers, Subscribers
  <1>4. Cardinality(Subscribers(m)) > 1
    <2>1. IsFiniteSet(Subscribers(m))
      <3>1. Subscribers(m) \subseteq Nodes  BY DEF Subscribers
      <3>2. QED  BY <3>1, FiniteNodes, FS_Subset
    <2>2. Cardinality({p}) = 1 /\ IsFiniteSet({p})  BY FS_Singleton
    <2>3. Cardinality(Subscribers(m)) \in Nat  BY <2>1, FS_CardinalityType
    <2>4. /\ Cardinality({p}) <= Cardinality(Subscribers(m))
          /\ Cardinality({p}) = Cardinality(Subscribers(m)) => {p} = Subscribers(m)
      BY <1>3, <2>1, FS_Subset
    <2>5. QED  BY <1>3, <2>2, <2>3, <2>4
  <1>5. QED  BY <1>2, <1>3, <1>4 DEF Chainable, Below

\* The elements of the insertions in a chainable file.
LEMMA ArcsAre ==
    ASSUME GraphTypeOK, Chainable
    PROVE  /\ \A p \in Nodes \cup {Root} : \A m \in Below(p) : m \in Nodes /\ <<p, m, 1>> \in Arcs
           /\ \A t \in Arcs : /\ t = <<t[1], t[2], 1>> /\ t[3] = 1
                              /\ t[1] \in Nodes \cup {Root} /\ t[2] \in Below(t[1])
                              /\ t[2] \in Nodes
  <1>1. Root \notin Nodes  BY NodeNames
  <1>2. ASSUME NEW p \in Nodes \cup {Root}, NEW m \in Below(p)
        PROVE  m \in Nodes /\ <<p, m, 1>> \in Arcs
    <2>1. CASE p = Root  BY <2>1 DEF Below, Arcs, OrphanArcs
    <2>2. CASE p # Root
      <3>1. m \in Nodes /\ p \in Nodes /\ links[p][m] > 0  BY <2>2 DEF Below, Publishers
      <3>2. QED  BY <3>1, InsertionsAre DEF Arcs
    <2>3. QED  BY <2>1, <2>2
  <1>3. ASSUME NEW t \in Insertions(links)
        PROVE  /\ t = <<t[1], t[2], 1>> /\ t[3] = 1
               /\ t[1] \in Nodes \cup {Root} /\ t[2] \in Below(t[1]) /\ t[2] \in Nodes
    <2>1. /\ t[1] \in Nodes /\ t[2] \in Nodes /\ t[3] \in 1..MaxLinks
          /\ t = <<t[1], t[2], t[3]>> /\ t[3] <= links[t[1]][t[2]] /\ links[t[1]][t[2]] > 0
          /\ links[t[1]][t[2]] \in 0..MaxLinks
      BY InsertionsAre
    <2>2. links[t[1]][t[2]] <= 1  BY <2>1 DEF Chainable
    <2>3. MaxLinks \in Nat  BY GraphAssumption
    <2>4. t[3] = 1  BY <2>1, <2>2, <2>3
    <2>5. t[2] \in Below(t[1])  BY <1>1, <2>1 DEF Below, Publishers
    <2>6. QED  BY <2>1, <2>4, <2>5
  <1>4. ASSUME NEW t \in OrphanArcs
        PROVE  /\ t = <<t[1], t[2], 1>> /\ t[3] = 1
               /\ t[1] \in Nodes \cup {Root} /\ t[2] \in Below(t[1]) /\ t[2] \in Nodes
    <2>1. PICK m \in Below(Root) : t = <<Root, m, 1>>  BY DEF OrphanArcs
    <2>2. m \in Nodes  BY <1>2
    <2>3. QED  BY <2>1, <2>2
  <1>5. QED  BY <1>2, <1>3, <1>4 DEF Arcs

\* The children of a node were inserted for it.
LEMMA ChildrenInserted ==
    ASSUME child \in Pointers, next \in Pointers, HeadInv, TailInv, NEW p \in Nodes \cup {Root}
    PROVE  \A y \in Children(p) : y \in Below(p) /\ <<p, y, 1>> \notin Todo
  <1> DEFINE S == {y \in Below(p) : <<p, y, 1>> \notin Todo}
  <1>1. child[p] # None => child[p] \in S  BY DEF HeadInv
  <1>2. \A x \in S \cap Nodes : next[x] # None => next[x] \in S  BY DEF TailInv
  <1>3. Children(p) \subseteq S
    <2> HIDE DEF S
    <2>1. QED  BY <1>1, <1>2, ChildrenClosed
  <1>4. QED  BY <1>3

\* A list in which every node is followed by a later one has an end.
LEMMA TailExists ==
    ASSUME next \in Pointers, TailInv, NEW n \in Nodes
    PROVE  Tails(n) # {}
  <1>1. N \in Nat /\ Nodes = 0..N - 1  BY GraphAssumption DEF Nodes
  <1>2. /\ n \in Walk(n) /\ Walk(n) \subseteq Nodes
        /\ \A x \in Walk(n) : next[x] # None => next[x] \in Walk(n)
    BY WalkNow, WalkIsLeast
  <1>3. Walk(n) \in SUBSET Nat /\ \A x \in Walk(n) : x <= N  BY <1>1, <1>2
  <1>4. PICK x \in Walk(n) : \A y \in Walk(n) : y <= x
    BY <1>1, <1>2, <1>3, Greatest
  <1>5. next[x] = None
    <2>1. SUFFICES ASSUME next[x] # None  PROVE FALSE
      OBVIOUS
    <2>2. next[x] \in Walk(n) /\ next[x] > x  BY <1>2, <2>1 DEF TailInv
    <2>3. next[x] <= x /\ next[x] \in Nat /\ x \in Nat  BY <1>3, <1>4, <2>2
    <2>4. QED  BY <2>2, <2>3
  <1>6. QED  BY <1>5 DEF Tails

\* The next insertion keeps the lists in order.
LEMMA ChainInsert ==
    ASSUME CoverAll, Chainable, ChainInv, gpc \in {"dag", "root"}, pending # {},
           NEW t, t = FirstOf(pending), InsertChildNode(t[1], t[2]), pending' = pending \ {t},
           UNCHANGED <<file, gpc, stack, inv_laxity>>
    PROVE  ChainInv'
  <1>1. GraphTypeOK /\ PendingInv  BY DEF CoverAll
  <1>2. child \in Pointers /\ next \in Pointers  BY <1>1 DEF GraphTypeOK, Pointers
  <1>3. /\ t \in pending /\ \A u \in pending \ {t} : Before(t, u)
        /\ t[1] \in Nodes \cup {Root} /\ t[2] \in Nodes
        /\ gpc = "dag" => t \in Insertions(links)
        /\ gpc = "root" => t \in OrphanArcs /\ t = <<Root, t[2], 1>>
    BY FirstPending
  <1>n. None \notin Nodes /\ Root \notin Nodes /\ Nodes \subseteq Nat  BY NodeNames
  <1>4. PICK p \in Nodes \cup {Root}, c \in Nodes : t = <<p, c, 1>> /\ c \in Below(p)
    <2>1. t \in Arcs  BY <1>3 DEF Arcs
    <2>2. QED  BY <1>1, <1>3, <2>1, ArcsAre
  <1>5. t[1] = p /\ t[2] = c /\ t[3] = 1  BY <1>4
  <1>6. t \in Todo /\ t \in Arcs  BY <1>3 DEF Todo, Arcs
  <1>7. /\ gpc' = gpc /\ Arcs' = Arcs /\ OrphanArcs' = OrphanArcs
        /\ \A q : Below(q)' = Below(q)
    BY DEF file, Arcs, Insertions, OrphanArcs, Below, Publishers, Subscribers
  <1>8. Todo' = Todo \ {t}
    <2>1. CASE gpc = "dag"
      <3>1. t \notin OrphanArcs  BY <1>1, <1>3, <2>1, InsertionsAre
      <3>2. QED  BY <1>7, <2>1, <3>1 DEF Todo
    <2>2. CASE gpc = "root"  BY <1>7, <2>2 DEF Todo
    <2>3. QED  BY <2>1, <2>2
  <1>9. OrderInv'
    <2>1. SUFFICES ASSUME NEW u \in Todo \ {t}, NEW s \in Arcs, s \notin Todo \/ s = t, s[1] = u[1]
                   PROVE  s[2] < u[2] \/ (s[2] = u[2] /\ s[3] < u[3])
      BY <1>7, <1>8 DEF OrderInv
    <2>2. CASE s \notin Todo  BY <2>1, <2>2 DEF ChainInv, OrderInv
    <2>3. CASE s = t
      <3>1. u \in pending
        <4>1. CASE gpc = "dag"
          <5>1. p \in Nodes  BY <1>1, <1>3, <1>5, <4>1, InsertionsAre
          <5>2. u \notin OrphanArcs  BY <1>n, <1>5, <2>1, <2>3, <5>1 DEF OrphanArcs
          <5>3. QED  BY <2>1, <4>1, <5>2 DEF Todo
        <4>2. CASE gpc = "root"  BY <2>1, <4>2 DEF Todo
        <4>3. QED  BY <4>1, <4>2
      <3>2. Before(t, u)  BY <1>3, <2>1, <3>1
      <3>3. t[1] = u[1] /\ t[1] \in Int  BY <1>n, <1>4, <1>5, <2>1, <2>3 DEF Root
      <3>4. QED  BY <2>3, <3>2, <3>3 DEF Before
    <2>4. QED  BY <2>1, <2>2, <2>3
  <1>10. CASE child[p] = None
    <2>1. child' = [child EXCEPT ![p] = c] /\ next' = next
      BY <1>5, <1>10 DEF InsertChildNode
    <2>2. child'[p] = c /\ \A q \in Nodes \cup {Root} : q # p => child'[q] = child[q]
      BY <1>2, <2>1 DEF Pointers
    <2>3. HeadInv'
      <3>1. SUFFICES ASSUME NEW q \in Nodes \cup {Root}, child'[q] # None
                     PROVE  child'[q] \in Below(q) /\ <<q, child'[q], 1>> \notin Todo \ {t}
        BY <1>7, <1>8 DEF HeadInv
      <3>2. CASE q = p  BY <1>4, <2>2, <3>2
      <3>3. CASE q # p  BY <2>2, <3>1, <3>3 DEF ChainInv, HeadInv
      <3>4. QED  BY <3>2, <3>3
    <2>4. TailInv'  BY <1>7, <1>8, <2>1 DEF ChainInv, TailInv
    <2>5. QED  BY <1>7, <1>9, <2>3, <2>4 DEF ChainInv
  <1>11. CASE child[p] # None
    <2>1. PICK m \in Tails(child[p]) : next' = [next EXCEPT ![m] = c]
      BY <1>5, <1>11 DEF InsertChildNode, InsertAfter
    <2>2. child' = child /\ child[p] \in Nodes
      BY <1>2, <1>5, <1>11 DEF InsertChildNode, Pointers
    <2>3. m \in Children(p) /\ m \in Nodes
      <3>1. m \in Children(p)  BY <1>11, <2>1 DEF Tails, Children
      <3>2. QED  BY <1>2, <3>1, ChildrenClosed
    <2>4. m \in Below(p) /\ <<p, m, 1>> \notin Todo
      BY <1>2, <2>3, ChildrenInserted DEF ChainInv
    <2>5. m < c
      <3>1. <<p, m, 1>> \in Arcs  BY <1>1, <2>4, ArcsAre
      <3>2. <<p, m, 1>>[1] = t[1] /\ <<p, m, 1>>[2] = m /\ <<p, m, 1>>[3] = 1  BY <1>5
      <3>3. m < c \/ (m = c /\ 1 < 1)  BY <1>5, <1>6, <2>4, <3>1, <3>2 DEF ChainInv, OrderInv
      <3>4. QED  BY <3>3
    <2>6. next'[m] = c /\ \A x \in Nodes : x # m => next'[x] = next[x]
      BY <1>2, <2>1, <2>3 DEF Pointers
    <2>7. HeadInv'  BY <1>7, <1>8, <2>2 DEF ChainInv, HeadInv
    <2>8. TailInv'
      <3>1. SUFFICES ASSUME NEW x \in Nodes, next'[x] # None
                     PROVE  /\ next'[x] > x
                            /\ \A q \in Nodes \cup {Root} : x \in Below(q) =>
                                  next'[x] \in Below(q) /\ <<q, next'[x], 1>> \notin Todo \ {t}
        BY <1>7, <1>8 DEF TailInv
      <3>2. CASE x = m
        <4>1. ASSUME NEW q \in Nodes \cup {Root}, m \in Below(q)  PROVE q = p
          <5>1. SUFFICES ASSUME q # p  PROVE FALSE
            OBVIOUS
          <5>2. Below(p) = {m}  BY <2>4, <4>1, <5>1, AloneInTwo
          <5>3. c = m  BY <1>4, <5>2
          <5>4. QED  BY <1>n, <2>5, <5>3
        <4>2. next'[x] > x  BY <1>n, <2>3, <2>5, <2>6, <3>2
        <4>3. QED  BY <1>4, <2>6, <3>2, <4>1, <4>2
      <3>3. CASE x # m  BY <2>6, <3>1, <3>3 DEF ChainInv, TailInv
      <3>4. QED  BY <3>2, <3>3
    <2>9. QED  BY <1>7, <1>9, <2>7, <2>8 DEF ChainInv
  <1>12. QED  BY <1>10, <1>11

\* At the start there are no lists.
LEMMA ChainInit == ASSUME GraphInit  PROVE ChainInv
  <1>1. \A p \in Nodes \cup {Root} : child[p] = None /\ next[p] = None  BY DEF GraphInit
  <1>2. Todo = Arcs /\ gpc = "dag"  BY DEF GraphInit, Todo, Arcs
  <1>3. HeadInv /\ TailInv  BY <1>1 DEF HeadInv, TailInv
  <1>4. OrderInv  BY <1>2 DEF OrderInv
  <1>5. QED  BY <1>2, <1>3, <1>4 DEF ChainInv

\* Steps that insert nothing.
LEMMA ChainSame ==
    ASSUME ChainInv, UNCHANGED <<links, child, next>>, Todo' = Todo, gpc' # "hang"
    PROVE  ChainInv'
  <1>1. Arcs' = Arcs /\ \A q : Below(q)' = Below(q)
    BY DEF Arcs, Insertions, OrphanArcs, Below, Publishers, Subscribers
  <1>2. HeadInv'  BY <1>1 DEF ChainInv, HeadInv
  <1>3. TailInv'  BY <1>1 DEF ChainInv, TailInv
  <1>4. OrderInv'  BY <1>1 DEF ChainInv, OrderInv
  <1>5. QED  BY <1>2, <1>3, <1>4 DEF ChainInv

\* A chainable file never hangs the constructor.
LEMMA ChainNext ==
    ASSUME CoverAll, Chainable, ChainInv, [GraphNext]_graphVars
    PROVE  ChainInv'
  <1>1. CASE CreateDag
    <2>1. PICK t : t = FirstOf(pending)  OBVIOUS
    <2>2. QED  BY <1>1, <2>1, ChainInsert DEF CreateDag
  <1>2. CASE SetToRoot
    <2>1. PICK t : t = FirstOf(pending)  OBVIOUS
    <2>2. QED  BY <1>2, <2>1, ChainInsert DEF SetToRoot
  <1>3. CASE DagDone
    <2>1. gpc = "dag" /\ pending = {} /\ gpc' = "root" /\ UNCHANGED <<links, child, next>>
          /\ pending' = {<<Root, n, 1>> : n \in Orphans}
      BY <1>3 DEF DagDone, file, pointers
    <2>2. Orphans = Below(Root)  BY <2>1, OrphansAre
    <2>3. Todo' = Todo  BY <2>1, <2>2 DEF Todo, OrphanArcs
    <2>4. QED  BY <2>1, <2>3, ChainSame
  <1>4. CASE InsertHangs
    <2>1. /\ gpc \in {"dag", "root"} /\ pending # {}
          /\ child[FirstOf(pending)[1]] # None /\ Tails(child[FirstOf(pending)[1]]) = {}
      BY <1>4 DEF InsertHangs, InsertAfter
    <2>2. FirstOf(pending)[1] \in Nodes \cup {Root}  BY <2>1, FirstPending
    <2>3. child \in Pointers /\ next \in Pointers  BY DEF CoverAll, GraphTypeOK, Pointers
    <2>4. child[FirstOf(pending)[1]] \in Nodes  BY <2>1, <2>2, <2>3 DEF Pointers
    <2>5. QED  BY <2>1, <2>3, <2>4, TailExists DEF ChainInv
  <1>5. CASE StartLaxity \/ ComputeLaxity \/ StackOverflow \/ LaxityDone \/ UNCHANGED graphVars
    <2>1. /\ UNCHANGED <<links, child, next, pending>> /\ gpc' # "hang"
          /\ (gpc = "dag" <=> gpc' = "dag")
      BY <1>5 DEF ChainInv, StartLaxity, ComputeLaxity, StackOverflow, LaxityDone, graphVars,
                  file, pointers
    <2>2. OrphanArcs' = OrphanArcs  BY <2>1 DEF OrphanArcs, Below, Subscribers
    <2>3. Todo' = Todo  BY <2>1, <2>2 DEF Todo
    <2>4. QED  BY <2>1, <2>3, ChainSame
  <1>6. QED  BY <1>1, <1>2, <1>3, <1>4, <1>5 DEF GraphNext

\* The file does not change.
LEMMA SameFile ==
    ASSUME [GraphNext]_graphVars
    PROVE  links' = links /\ run_time' = run_time /\ (Chainable' <=> Chainable)
  <1>1. links' = links /\ run_time' = run_time
    BY DEF GraphNext, CreateDag, DagDone, SetToRoot, InsertHangs, StartLaxity, ComputeLaxity,
           StackOverflow, LaxityDone, graphVars, file
  <1>2. QED  BY <1>1 DEF Chainable, Subscribers, Publishers

GraphInv == CoverAll /\ (Chainable => ChainInv)

\* What the constructor establishes.
LEMMA GraphInvNext ==
    /\ GraphInit => GraphInv
    /\ GraphInv /\ [GraphNext]_graphVars => GraphInv'
  <1>1. GraphInit => GraphInv  BY CoverInit, ChainInit DEF GraphInv
  <1>2. GraphInv /\ [GraphNext]_graphVars => GraphInv'
    BY CoverNext, ChainNext, SameFile DEF GraphInv
  <1>3. QED  BY <1>1, <1>2

\* The properties of the lists.
LEMMA ListsCover == ASSUME GraphInv  PROVE ChildrenCover
  <1>1. GraphTypeOK /\ CoverInv  BY DEF GraphInv, CoverAll
  <1>2. child \in Pointers /\ next \in Pointers  BY <1>1 DEF GraphTypeOK, Pointers
  <1>3. ASSUME NEW n \in Nodes, NEW m \in Nodes, links[n][m] > 0,
               \A k \in 1..MaxLinks : <<n, m, k>> \notin pending
        PROVE  m \in Children(n)
    <2>1. <<n, m, 1>> \in Insertions(links)  BY <1>1, <1>3, InsertionsAre
    <2>2. 1 \in 1..MaxLinks
      <3>1. links[n][m] \in 0..MaxLinks /\ MaxLinks \in Nat
        BY <1>1, InsertionsAre, GraphAssumption
      <3>2. QED  BY <1>3, <3>1
    <2>3. <<n, m, 1>> \in Insertions(links) \ pending  BY <1>3, <2>1, <2>2
    <2>4. QED  BY <1>1, <2>3 DEF CoverInv
  <1>4. ASSUME Chainable, NEW n \in Nodes  PROVE Children(n) \subseteq Publishers(n)
    <2>1. Root \notin Nodes  BY NodeNames
    <2>2. \A y \in Children(n) : y \in Below(n)
      BY <1>2, <1>4, ChildrenInserted DEF GraphInv, ChainInv
    <2>3. QED  BY <2>1, <2>2 DEF Below
  <1>5. QED  BY <1>1, <1>3, <1>4 DEF ChildrenCover

\* Whatever the file, a publisher that was inserted is among the children of its
\* subscriber, and of a chainable file nobody else is: the loop over next pointers
\* in insert_child_node never loses a list or appends to a stranger's.
THEOREM ListsHoldPublishers == GraphSpec => []ChildrenCover
  <1>1. GraphInv => ChildrenCover  BY ListsCover
  <1>2. QED  BY <1>1, GraphInvNext, PTL DEF GraphSpec

-----------------------------------------------------------------------------
(* compute_laxity: the pending calls.                                      *)

\* What a concatenation holds.
LEMMA HeldConcat ==
    ASSUME NEW S, NEW s \in Seq(S), NEW t \in Seq(S)
    PROVE  s \o t \in Seq(S) /\ Held(s \o t) = Held(s) \cup Held(t)
  <1>1. PICK u \in Seq(S) : u = s \o t /\ IsConcat(u, s, t)
    BY ConcatParts
  <1>2. PICK m \in Nat, n \in Nat :
           /\ m = Len(s) /\ n = Len(t) /\ DOMAIN s = 1..m /\ DOMAIN t = 1..n
    BY LenProperties
  <1>3. /\ Len(u) = m + n /\ DOMAIN u = 1..m + n
        /\ \A i \in 1..m : u[i] = s[i]
        /\ \A i \in 1..n : u[m + i] = t[i]
    BY <1>1, <1>2, LenProperties DEF IsConcat
  <1>4. Held(u) \subseteq Held(s) \cup Held(t)
    <2>1. SUFFICES ASSUME NEW i \in 1..m + n  PROVE u[i] \in Held(s) \cup Held(t)
      BY <1>3 DEF Held
    <2>2. CASE i <= m
      <3>1. i \in DOMAIN s /\ u[i] = s[i]  BY <1>2, <1>3, <2>2
      <3>2. QED  BY <3>1 DEF Held
    <2>3. CASE i > m
      <3>1. i - m \in 1..n /\ m + (i - m) = i  BY <2>3
      <3>2. i - m \in DOMAIN t /\ u[i] = t[i - m]  BY <1>2, <1>3, <3>1
      <3>3. QED  BY <3>2 DEF Held
    <2>4. QED  BY <2>2, <2>3
  <1>5. Held(s) \subseteq Held(u)
    <2>1. \A i \in 1..m : i \in 1..m + n  OBVIOUS
    <2>2. QED  BY <1>2, <1>3, <2>1 DEF Held
  <1>6. Held(t) \subseteq Held(u)
    <2>1. SUFFICES ASSUME NEW i \in 1..n  PROVE t[i] \in Held(u)  BY <1>2 DEF Held
    <2>2. m + i \in 1..m + n  OBVIOUS
    <2>3. m + i \in DOMAIN u /\ u[m + i] = t[i]  BY <1>3, <2>2
    <2>4. QED  BY <2>3 DEF Held
  <1>7. QED  BY <1>1, <1>4, <1>5, <1>6

\* The first element and the others.
LEMMA HeldHead ==
    ASSUME NEW S, NEW s \in Seq(S), s # <<>>
    PROVE  Held(s) = {Head(s)} \cup Held(Tail(s)) /\ Tail(s) \in Seq(S)
  <1>1. /\ Head(s) = s[1] /\ Tail(s) \in Seq(S) /\ Len(Tail(s)) = Len(s) - 1
        /\ \A i \in 1..Len(Tail(s)) : Tail(s)[i] = s[i + 1]
    BY HeadTailProperties
  <1>2. PICK n \in Nat : n = Len(s) /\ DOMAIN s = 1..n  BY LenProperties
  <1>3. n # 0  BY <1>2, EmptySeq
  <1>4. DOMAIN Tail(s) = 1..n - 1  BY <1>1, <1>2, LenProperties
  <1>5. Held(s) \subseteq {Head(s)} \cup Held(Tail(s))
    <2>1. SUFFICES ASSUME NEW i \in 1..n, i # 1  PROVE s[i] \in Held(Tail(s))
      BY <1>1, <1>2 DEF Held
    <2>2. i - 1 \in 1..n - 1 /\ (i - 1) + 1 = i  BY <2>1
    <2>3. i - 1 \in DOMAIN Tail(s) /\ Tail(s)[i - 1] = s[i]  BY <1>1, <1>2, <1>4, <2>2
    <2>4. QED  BY <2>3 DEF Held
  <1>6. Head(s) \in Held(s)  BY <1>1, <1>2, <1>3 DEF Held
  <1>7. Held(Tail(s)) \subseteq Held(s)
    <2>1. SUFFICES ASSUME NEW i \in 1..n - 1  PROVE Tail(s)[i] \in Held(s)  BY <1>4 DEF Held
    <2>2. i + 1 \in DOMAIN s /\ Tail(s)[i] = s[i + 1]  BY <1>1, <1>2, <1>4
    <2>3. QED  BY <2>2 DEF Held
  <1>8. QED  BY <1>1, <1>5, <1>6, <1>7

Frames == Held(stack)
Call(n, sum, depth) == IF n = None THEN {} ELSE {<<n, sum, depth>>}

\* What one call leaves to be done.
LEMMA LaxityStep ==
    ASSUME GraphTypeOK, ComputeLaxity
    PROVE  \E n \in Nodes \cup {Root}, sum \in Nat, depth \in Nat, rest \in SUBSET Frame :
              /\ Frames = {<<n, sum, depth>>} \cup rest
              /\ depth <= StackMax
              /\ n = Root =>
                    /\ inv_laxity' = inv_laxity
                    /\ Frames' = Call(child[n], sum, depth + 1)
                                 \cup Call(next[n], sum, depth + 1) \cup rest
              /\ n \in Nodes =>
                    /\ run_time[n] \in Nat
                    /\ inv_laxity' = IF run_time[n] + sum > inv_laxity[n]
                                     THEN [inv_laxity EXCEPT ![n] = sum + run_time[n]]
                                     ELSE inv_laxity
                    /\ Frames' = Call(child[n], sum + run_time[n], depth + 1)
                                 \cup Call(next[n], sum, depth + 1) \cup rest
              /\ UNCHANGED <<links, run_time, child, next, pending, gpc>>
  <1>1. PICK n \in Nodes \cup {Root}, sum \in Nat, depth \in Nat, rest \in Seq(Frame) :
              /\ stack # <<>> /\ Head(stack) = <<n, sum, depth>> /\ rest = Tail(stack)
              /\ depth <= StackMax
              /\ SumForChildren(n, sum) \in Nat
              /\ n = Root => SumForChildren(n, sum) = sum /\ inv_laxity' = inv_laxity
              /\ n \in Nodes =>
                    /\ SumForChildren(n, sum) = sum + run_time[n] /\ run_time[n] \in Nat
                    /\ inv_laxity' = IF run_time[n] + sum > inv_laxity[n]
                                     THEN [inv_laxity EXCEPT ![n] = sum + run_time[n]]
                                     ELSE inv_laxity
              /\ CallOn(child[n], SumForChildren(n, sum), depth + 1) \in Seq(Frame)
              /\ CallOn(next[n], sum, depth + 1) \in Seq(Frame)
              /\ stack' = CallOn(child[n], SumForChildren(n, sum), depth + 1)
                          \o CallOn(next[n], sum, depth + 1) \o rest
    BY LaxityCalls
  <1>2. stack \in Seq(Frame)  BY DEF GraphTypeOK, Frame
  <1>3. Frames = {<<n, sum, depth>>} \cup Held(rest)  BY <1>1, <1>2, HeldHead DEF Frames
  <1>4. Held(rest) \in SUBSET Frame
    <2>1. \A i \in 1..Len(rest) : rest[i] \in Frame  BY ElementOfSeq
    <2>2. DOMAIN rest = 1..Len(rest)  BY LenProperties
    <2>3. QED  BY <2>1, <2>2 DEF Held
  <1>5. ASSUME NEW m, NEW s  PROVE Held(CallOn(m, s, depth + 1)) = Call(m, s, depth + 1)
    <2>1. CASE m = None
      <3>1. CallOn(m, s, depth + 1) = <<>> /\ DOMAIN <<>> = {}  BY <2>1, EmptySeq DEF CallOn
      <3>2. QED  BY <2>1, <3>1 DEF Call, Held
    <2>2. CASE m # None
      <3>1. PICK x : x = <<m, s, depth + 1>>  OBVIOUS
      <3>2. CallOn(m, s, depth + 1) = <<x>> /\ DOMAIN <<x>> = {1} /\ <<x>>[1] = x
        BY <2>2, <3>1 DEF CallOn
      <3>3. QED  BY <2>2, <3>1, <3>2 DEF Call, Held
    <2>3. QED  BY <2>1, <2>2
  <1>6. PICK a \in Seq(Frame) : a = CallOn(child[n], SumForChildren(n, sum), depth + 1)
    BY <1>1
  <1>7. PICK b \in Seq(Frame) : b = CallOn(next[n], sum, depth + 1)
    BY <1>1
  <1>8. PICK d \in Seq(Frame) : d = a \o b /\ Held(d) = Held(a) \cup Held(b)  BY HeldConcat
  <1>9. Held(d \o rest) = Held(d) \cup Held(rest)  BY HeldConcat
  <1>10. Frames' = Call(child[n], SumForChildren(n, sum), depth + 1)
                   \cup Call(next[n], sum, depth + 1) \cup Held(rest)
    BY <1>1, <1>5, <1>6, <1>7, <1>8, <1>9 DEF Frames
  <1>11. UNCHANGED <<links, run_time, child, next, pending, gpc>>
    BY LaxityCalls DEF file, pointers
  <1>12. QED  BY <1>1, <1>3, <1>4, <1>10, <1>11

-----------------------------------------------------------------------------
(* compute_laxity: what it has found out so far.                           *)

\* Node m has counted that the path below it takes s, or a pending call will tell it.
Due(m, s) ==
    \/ inv_laxity[m] >= s + run_time[m]
    \/ \E f \in Frames : f[1] \in Nodes /\ f[2] >= s /\ m \in Walk(f[1])

\* The sum s for x comes from the end of the graph, or from a node x is a child of.
Justified(x, s) == s = 0 \/ \E n \in Nodes : x \in Children(n) /\ s <= inv_laxity[n]

ValueInv == \A m \in Nodes : inv_laxity[m] = -1 \/ inv_laxity[m] >= run_time[m]

IdleInv ==
    /\ gpc \notin {"laxity", "built", "overflow"} =>
          Frames = {} /\ \A m \in Nodes : inv_laxity[m] = -1
    /\ gpc = "built" => Frames = {}

DueInv ==
    gpc \in {"laxity", "built"} =>
        /\ \A n \in Nodes : inv_laxity[n] >= 0 =>
              \A m \in Children(n) : Due(m, inv_laxity[n])
        /\ (\E f \in Frames : f[1] = Root) \/ \A m \in Children(Root) : Due(m, 0)

JustInv ==
    gpc \in {"laxity", "built"} =>
        /\ \A f \in Frames : Justified(f[1], f[2])
        /\ \A m \in Nodes : inv_laxity[m] >= 0 => Justified(m, inv_laxity[m] - run_time[m])

LaxityInv == ValueInv /\ IdleInv /\ DueInv /\ JustInv

\* The walk from n is n and the walk from the next node.
LEMMA WalkSplits ==
    ASSUME next \in Pointers, NEW n \in Nodes, NEW m \in Walk(n)
    PROVE  m \in Nodes /\ (m = n \/ (next[n] # None /\ m \in Walk(next[n])))
  <1>1. m \in Nodes  BY WalkNow, WalkIsLeast
  <1>2. CASE next[n] = None
    <2>1. \A x \in {n} \cap Nodes : next[x] # None => next[x] \in {n}  BY <1>2
    <2>2. WalkOf(next, n) \subseteq {n}  BY <2>1, WalkIsLeast
    <2>3. QED  BY <1>1, <2>2, WalkNow
  <1>3. CASE next[n] # None
    <2> DEFINE S == {n} \cup Walk(next[n])
    <2>1. next[n] \in Nodes  BY <1>3 DEF Pointers
    <2>2. /\ next[n] \in Walk(next[n])
          /\ \A x \in Walk(next[n]) : next[x] # None => next[x] \in Walk(next[n])
      BY <2>1, WalkNow, WalkIsLeast
    <2>3. n \in S /\ \A x \in S \cap Nodes : next[x] # None => next[x] \in S  BY <2>2
    <2> HIDE DEF S
    <2>4. WalkOf(next, n) \subseteq S  BY <2>3, WalkIsLeast
    <2>5. QED  BY <1>1, <1>3, <2>4, WalkNow DEF S
  <1>4. QED  BY <1>2, <1>3

\* One call keeps all this.
LEMMA LaxityKept ==
    ASSUME GraphTypeOK, next[Root] = None, gpc = "laxity", LaxityInv, ComputeLaxity
    PROVE  LaxityInv'
  <1>1. PICK n \in Nodes \cup {Root}, sum \in Nat, depth \in Nat, rest \in SUBSET Frame :
              /\ Frames = {<<n, sum, depth>>} \cup rest
              /\ depth <= StackMax
              /\ n = Root =>
                    /\ inv_laxity' = inv_laxity
                    /\ Frames' = Call(child[n], sum, depth + 1)
                                 \cup Call(next[n], sum, depth + 1) \cup rest
              /\ n \in Nodes =>
                    /\ run_time[n] \in Nat
                    /\ inv_laxity' = IF run_time[n] + sum > inv_laxity[n]
                                     THEN [inv_laxity EXCEPT ![n] = sum + run_time[n]]
                                     ELSE inv_laxity
                    /\ Frames' = Call(child[n], sum + run_time[n], depth + 1)
                                 \cup Call(next[n], sum, depth + 1) \cup rest
              /\ UNCHANGED <<links, run_time, child, next, pending, gpc>>
    BY LaxityStep
  <1>2. child \in Pointers /\ next \in Pointers /\ run_time \in [Nodes -> Nat]
        /\ inv_laxity \in [Nodes \cup {Root} -> Int]
    BY GraphAssumption DEF GraphTypeOK, Pointers
  <1>n. None \notin Nodes /\ Root \notin Nodes /\ None # Root  BY NodeNames
  <1>3. /\ gpc' = "laxity" /\ run_time' = run_time
        /\ \A x : Walk(x)' = Walk(x) /\ Children(x)' = Children(x)
    BY <1>1, WalkNow
  <1>4. /\ \A m \in Nodes : /\ inv_laxity[m] \in Int /\ inv_laxity'[m] \in Int
                            /\ inv_laxity'[m] >= inv_laxity[m]
        /\ \A m \in Nodes : inv_laxity'[m] # inv_laxity[m] =>
                               m = n /\ inv_laxity'[m] = sum + run_time[n]
        /\ n \in Nodes => inv_laxity'[n] >= sum + run_time[n] /\ run_time[n] \in Nat
    <2>1. CASE n = Root  BY <1>1, <1>2, <1>n, <2>1
    <2>2. CASE n \in Nodes /\ run_time[n] + sum > inv_laxity[n]
      <3>1. inv_laxity' = [inv_laxity EXCEPT ![n] = sum + run_time[n]]  BY <1>1, <2>2
      <3>2. run_time[n] \in Nat /\ inv_laxity[n] \in Int  BY <1>2, <2>2
      <3>3. /\ inv_laxity'[n] = sum + run_time[n]
            /\ \A m \in Nodes : m # n => inv_laxity'[m] = inv_laxity[m]
        BY <1>2, <2>2, <3>1
      <3>4. QED  BY <1>2, <2>2, <3>2, <3>3
    <2>3. CASE n \in Nodes /\ ~(run_time[n] + sum > inv_laxity[n])
      <3>1. inv_laxity' = inv_laxity  BY <1>1, <2>3
      <3>2. run_time[n] \in Nat /\ inv_laxity[n] \in Int  BY <1>2, <2>3
      <3>3. QED  BY <1>2, <2>3, <3>1, <3>2
    <2>4. QED  BY <2>1, <2>2, <2>3
  <1>5. /\ \A f \in rest : f \in Frames'
        /\ next[n] # None => n \in Nodes /\ <<next[n], sum, depth + 1>> \in Frames'
        /\ n = Root /\ child[n] # None => <<child[n], sum, depth + 1>> \in Frames'
        /\ n \in Nodes /\ child[n] # None => <<child[n], sum + run_time[n], depth + 1>> \in Frames'
        /\ <<n, sum, depth>> \in Frames
    BY <1>1, <1>n DEF Call
  <1>6. ASSUME NEW m \in Nodes, NEW s \in Nat, Due(m, s)  PROVE Due(m, s)'
    <2>0. run_time[m] \in Nat  BY <1>2
    <2>1. CASE inv_laxity[m] >= s + run_time[m]
      <3>1. inv_laxity'[m] >= s + run_time[m]  BY <1>4, <2>0, <2>1
      <3>2. QED  BY <1>3, <3>1 DEF Due
    <2>2. CASE \E f \in Frames : f[1] \in Nodes /\ f[2] >= s /\ m \in Walk(f[1])
      <3>1. PICK f \in Frames : f[1] \in Nodes /\ f[2] >= s /\ m \in Walk(f[1])  BY <2>2
      <3>2. CASE f \in rest  BY <1>3, <1>5, <3>1, <3>2 DEF Due
      <3>3. CASE f = <<n, sum, depth>>
        <4>1. n \in Nodes /\ sum >= s /\ m \in Walk(n)  BY <3>1, <3>3
        <4>2. CASE m = n
          <5>1. inv_laxity'[m] >= s + run_time[m]  BY <1>4, <2>0, <4>1, <4>2
          <5>2. QED  BY <1>3, <5>1 DEF Due
        <4>3. CASE next[n] # None /\ m \in Walk(next[n])
          <5>1. PICK g \in Frames' : g = <<next[n], sum, depth + 1>>  BY <1>5, <4>3
          <5>2. g[1] = next[n] /\ g[2] = sum /\ next[n] \in Nodes
              BY <1>2, <4>1, <4>3, <5>1 DEF Pointers
          <5>3. g[1] \in Nodes /\ g[2] >= s /\ m \in Walk(g[1])'  BY <1>3, <4>1, <4>3, <5>2
          <5>4. QED  BY <5>3 DEF Due
        <4>4. QED  BY <1>2, <4>1, <4>2, <4>3, WalkSplits
      <3>4. QED  BY <1>1, <3>1, <3>2, <3>3
    <2>3. QED  BY <1>6, <2>1, <2>2 DEF Due
  <1>7. ASSUME NEW x, NEW s \in Int, Justified(x, s)  PROVE Justified(x, s)'
    BY <1>3, <1>4, <1>7 DEF Justified
  <1>8. ValueInv'
    <2>1. SUFFICES ASSUME NEW m \in Nodes
        PROVE inv_laxity'[m] = -1 \/ inv_laxity'[m] >= run_time[m]
      BY <1>3 DEF ValueInv
    <2>2. run_time[m] \in Nat  BY <1>2
    <2>3. QED  BY <1>4, <2>2 DEF LaxityInv, ValueInv
  <1>9. IdleInv'  BY <1>3 DEF IdleInv
  <1>10. DueInv'
    <2>1. ASSUME NEW k \in Nodes, NEW s \in Nat, inv_laxity'[k] = s, NEW m \in Children(k)
          PROVE  Due(m, s)'
      <3>0. m \in Nodes  BY <1>2, ChildrenClosed
      <3>1. CASE inv_laxity'[k] = inv_laxity[k]
        <4>1. inv_laxity[k] = s /\ inv_laxity[k] >= 0  BY <2>1, <3>1
        <4>2. Due(m, s)  BY <2>1, <4>1 DEF LaxityInv, DueInv
        <4>3. QED  BY <1>6, <3>0, <4>2
      <3>2. CASE inv_laxity'[k] # inv_laxity[k]
        <4>1. k = n /\ n \in Nodes /\ inv_laxity'[k] = sum + run_time[n] /\ run_time[n] \in Nat
          BY <1>4, <3>2
        <4>2. child[n] # None /\ child[n] \in Nodes /\ m \in Walk(child[n])
          BY <1>2, <2>1, <4>1 DEF Children, Pointers
        <4>3. PICK g \in Frames' : g = <<child[n], sum + run_time[n], depth + 1>>
          BY <1>5, <4>1, <4>2
        <4>4. g[1] = child[n] /\ g[2] = sum + run_time[n]  BY <4>3
        <4>5. g[1] \in Nodes /\ g[2] >= s /\ m \in Walk(g[1])'
          BY <1>3, <2>1, <4>1, <4>2, <4>4
        <4>6. QED  BY <4>5 DEF Due
      <3>3. QED  BY <3>1, <3>2
    <2>2. (\E f \in Frames' : f[1] = Root) \/ \A m \in Children(Root) : Due(m, 0)'
      <3>1. CASE \A m \in Children(Root) : Due(m, 0)
        <4>1. Children(Root) \subseteq Nodes  BY <1>2, ChildrenClosed
        <4>2. QED  BY <1>6, <3>1, <4>1
      <3>2. CASE \E f \in Frames : f[1] = Root
        <4>1. PICK f \in Frames : f[1] = Root  BY <3>2
        <4>2. CASE f \in rest  BY <1>5, <4>1, <4>2
        <4>3. CASE f = <<n, sum, depth>>
          <5>1. n = Root  BY <4>1, <4>3
          <5>2. ASSUME NEW m \in Children(Root)  PROVE Due(m, 0)'
            <6>1. child[Root] # None /\ child[Root] \in Nodes /\ m \in Walk(child[Root])
              BY <1>2 DEF Children, Pointers
            <6>2. PICK g \in Frames' : g = <<child[Root], sum, depth + 1>>  BY <1>5, <5>1, <6>1
            <6>3. g[1] = child[Root] /\ g[2] = sum  BY <6>2
            <6>4. g[1] \in Nodes /\ g[2] >= 0 /\ m \in Walk(g[1])'  BY <1>3, <6>1, <6>3
            <6>5. QED  BY <6>4 DEF Due
          <5>3. QED  BY <5>2
        <4>4. QED  BY <1>1, <4>1, <4>2, <4>3
      <3>3. QED  BY <3>1, <3>2 DEF LaxityInv, DueInv
    <2>3. ASSUME NEW k \in Nodes, inv_laxity'[k] >= 0, NEW m \in Children(k)
          PROVE  \/ inv_laxity'[m] >= inv_laxity'[k] + run_time'[m]
                 \/ \E f \in Frames' : f[1] \in Nodes /\ f[2] >= inv_laxity'[k] /\ m \in Walk(f[1])'
      <3>1. PICK s \in Nat : s = inv_laxity'[k]  BY <1>4, <2>3
      <3>2. QED  BY <2>1, <3>1 DEF Due
    <2>4. QED  BY <1>3, <2>2, <2>3 DEF DueInv, Due
  <1>11. JustInv'
    <2>0. Justified(n, sum)
      <3>1. PICK f \in Frames : f = <<n, sum, depth>>  BY <1>5
      <3>2. f[1] = n /\ f[2] = sum  BY <3>1
      <3>3. QED  BY <3>2 DEF LaxityInv, JustInv
    <2>1. ASSUME NEW f \in Frames'  PROVE Justified(f[1], f[2])'
      <3>1. CASE f \in rest
        <4>1. Justified(f[1], f[2])  BY <1>1, <3>1 DEF LaxityInv, JustInv
        <4>2. f[2] \in Int  BY <1>1, <3>1 DEF Frame
        <4>3. QED  BY <1>7, <4>1, <4>2
      <3>2. CASE n = Root /\ child[n] # None /\ f = <<child[n], sum, depth + 1>>
        <4>1. \A k \in Nodes : Root \notin Children(k)  BY <1>2, <1>n, ChildrenClosed
        <4>2. sum = 0  BY <2>0, <3>2, <4>1 DEF Justified
        <4>3. f[2] = 0  BY <3>2, <4>2
        <4>4. QED  BY <4>3 DEF Justified
      <3>3. CASE n \in Nodes /\ child[n] # None /\ f = <<child[n], sum + run_time[n], depth + 1>>
        <4>1. f[1] = child[n] /\ f[2] = sum + run_time[n]  BY <3>3
        <4>2. child[n] \in Children(n)  BY <1>2, <3>3, ChildrenClosed
        <4>3. n \in Nodes /\ f[1] \in Children(n)' /\ f[2] <= inv_laxity'[n]
          BY <1>3, <1>4, <3>3, <4>1, <4>2
        <4>4. QED  BY <4>3 DEF Justified
      <3>4. CASE n \in Nodes /\ next[n] # None /\ f = <<next[n], sum, depth + 1>>
        <4>1. f[1] = next[n] /\ f[2] = sum  BY <3>4
        <4>2. Justified(f[1], sum)
          <5>1. \A k \in Nodes : n \in Children(k) => next[n] \in Children(k)
            BY <1>2, <3>4, ChildrenClosed
          <5>2. QED  BY <2>0, <4>1, <5>1 DEF Justified
        <4>3. QED  BY <1>7, <4>1, <4>2
      <3>5. QED  BY <1>1, <1>n, <2>1, <3>1, <3>2, <3>3, <3>4 DEF Call
    <2>2. ASSUME NEW m \in Nodes, inv_laxity'[m] >= 0, NEW v \in Int,
                 v = inv_laxity'[m] - run_time[m]
          PROVE  Justified(m, v)'
      <3>0. run_time[m] \in Nat  BY <1>2
      <3>1. CASE inv_laxity'[m] = inv_laxity[m]
        <4>1. Justified(m, v)  BY <2>2, <3>1 DEF LaxityInv, JustInv
        <4>2. QED  BY <1>7, <4>1
      <3>2. CASE inv_laxity'[m] # inv_laxity[m]
        <4>1. m = n /\ n \in Nodes /\ v = sum  BY <1>4, <2>2, <3>0, <3>2
        <4>2. QED  BY <1>7, <2>0, <4>1
      <3>3. QED  BY <3>1, <3>2
    <2>3. ASSUME NEW m \in Nodes, inv_laxity'[m] >= 0
          PROVE  \/ inv_laxity'[m] - run_time'[m] = 0
                 \/ \E k \in Nodes : /\ m \in Children(k)'
                                     /\ inv_laxity'[m] - run_time'[m] <= inv_laxity'[k]
      <3>1. run_time[m] \in Nat  BY <1>2
      <3>2. PICK v \in Int : v = inv_laxity'[m] - run_time'[m]  BY <1>3, <1>4, <3>1
      <3>3. Justified(m, v)'  BY <1>3, <2>2, <2>3, <3>2
      <3>4. QED  BY <3>2, <3>3 DEF Justified
    <2>4. QED  BY <2>1, <2>3 DEF JustInv, Justified
  <1>12. QED  BY <1>8, <1>9, <1>10, <1>11 DEF LaxityInv

\* At the start no node has a laxity.
LEMMA LaxityInit == ASSUME GraphInit  PROVE LaxityInv
  <1>1. Frames = {}  BY EmptySeq DEF GraphInit, Frames, Held
  <1>2. gpc = "dag" /\ \A m \in Nodes : inv_laxity[m] = -1  BY DEF GraphInit
  <1>3. QED  BY <1>1, <1>2 DEF LaxityInv, ValueInv, IdleInv, DueInv, JustInv

\* Every step of the constructor and of compute_laxity.
LEMMA LaxityNext == ASSUME CoverAll, LaxityInv, [GraphNext]_graphVars  PROVE LaxityInv'
  <1>t. GraphTypeOK /\ next[Root] = None  BY DEF CoverAll, PendingInv
  <1>r. run_time' = run_time  BY SameFile
  <1>v. ASSUME inv_laxity' = inv_laxity  PROVE ValueInv'
    BY <1>r, <1>v DEF LaxityInv, ValueInv
  <1>1. CASE CreateDag \/ DagDone \/ SetToRoot \/ InsertHangs
    <2>1. /\ gpc \in {"dag", "root"} /\ gpc' \in {"dag", "root", "hang"}
          /\ stack' = stack /\ inv_laxity' = inv_laxity
      BY <1>1 DEF CreateDag, DagDone, SetToRoot, InsertHangs
    <2>2. Frames' = Frames  BY <2>1 DEF Frames
    <2>3. IdleInv'  BY <2>1, <2>2 DEF LaxityInv, IdleInv
    <2>4. QED  BY <1>v, <2>1, <2>3 DEF LaxityInv, DueInv, JustInv
  <1>2. CASE StartLaxity
    <2>1. /\ gpc = "root" /\ gpc' = "laxity" /\ inv_laxity' = inv_laxity
          /\ stack' = <<<<Root, 0, 1>>>>
      BY <1>2 DEF StartLaxity
    <2>2. PICK f : f = <<Root, 0, 1>>  OBVIOUS
    <2>3. Frames' = {f} /\ f[1] = Root /\ f[2] = 0
      <3>1. stack' = <<f>> /\ DOMAIN <<f>> = {1} /\ <<f>>[1] = f  BY <2>1, <2>2
      <3>2. QED  BY <2>2, <3>1 DEF Frames, Held
    <2>4. \A m \in Nodes : inv_laxity'[m] = -1  BY <2>1 DEF LaxityInv, IdleInv
    <2>5. DueInv' /\ JustInv'  BY <2>3, <2>4 DEF DueInv, JustInv, Justified
    <2>6. QED  BY <1>v, <2>1, <2>5 DEF LaxityInv, IdleInv
  <1>3. CASE ComputeLaxity  BY <1>t, <1>3, LaxityKept DEF ComputeLaxity
  <1>4. CASE StackOverflow
    <2>1. gpc' = "overflow" /\ inv_laxity' = inv_laxity  BY <1>4 DEF StackOverflow
    <2>2. QED  BY <1>v, <2>1 DEF LaxityInv, IdleInv, DueInv, JustInv
  <1>5. CASE LaxityDone \/ UNCHANGED graphVars
    <2>1. /\ UNCHANGED <<child, next, stack, inv_laxity>>
          /\ gpc' = gpc \/ (gpc = "laxity" /\ gpc' = "built" /\ stack = <<>>)
      BY <1>5 DEF LaxityDone, graphVars, pointers
    <2>2. Frames' = Frames  BY <2>1 DEF Frames
    <2>3. stack = <<>> => Frames = {}  BY EmptySeq DEF Frames, Held
    <2>4. IdleInv'  BY <2>1, <2>2, <2>3 DEF LaxityInv, IdleInv
    <2>5. \A x : Walk(x)' = Walk(x) /\ Children(x)' = Children(x)  BY <2>1, WalkNow
    <2>6. /\ \A m, s : Due(m, s)' <=> Due(m, s)
          /\ \A x, s : Justified(x, s)' <=> Justified(x, s)
      BY <1>r, <2>1, <2>2, <2>5 DEF Due, Justified
    <2>7. DueInv'  BY <1>r, <2>1, <2>2, <2>5 DEF LaxityInv, DueInv, Due
    <2>8. JustInv'  BY <1>r, <2>1, <2>2, <2>5 DEF LaxityInv, JustInv, Justified
    <2>9. QED  BY <1>v, <2>1, <2>4, <2>7, <2>8 DEF LaxityInv
  <1>6. QED  BY <1>1, <1>2, <1>3, <1>4, <1>5 DEF GraphNext

\* In an acyclic file compute_laxity comes to every node, and to a publisher with
\* whatever its subscribers have.
LEMMA AllVisited ==
    ASSUME CoverAll, LaxityInv, gpc = "built", Acyclic(links)
    PROVE  \A m \in Nodes :
              /\ inv_laxity[m] \in Nat /\ run_time[m] \in Nat /\ inv_laxity[m] >= run_time[m]
              /\ \A n \in Subscribers(m) :
                    inv_laxity[n] \in Nat /\ inv_laxity[m] >= inv_laxity[n] + run_time[m]
  <1>1. /\ Frames = {} /\ pending = {} /\ GraphTypeOK /\ CoverInv /\ RootInv
        /\ \A m \in Nodes : inv_laxity[m] = -1 \/ inv_laxity[m] >= run_time[m]
    BY DEF CoverAll, PendingInv, LaxityInv, IdleInv, ValueInv
  <1>2. \A m \in Nodes : run_time[m] \in Nat /\ inv_laxity[m] \in Int
    BY <1>1, GraphAssumption DEF GraphTypeOK
  <1>3. ASSUME NEW m \in Nodes, NEW n \in Subscribers(m), inv_laxity[n] >= 0
        PROVE  inv_laxity[m] >= inv_laxity[n] + run_time[m]
    <2>1. n \in Nodes /\ links[n][m] > 0  BY DEF Subscribers
    <2>2. PICK t \in Insertions(links) : t = <<n, m, 1>>  BY <1>1, <2>1, InsertionsAre
    <2>3. t[1] = n /\ t[2] = m /\ t \in Insertions(links) \ pending  BY <1>1, <2>2
    <2>4. m \in Children(n)  BY <1>1, <2>3 DEF CoverInv
    <2>5. Due(m, inv_laxity[n])  BY <1>3, <2>1, <2>4 DEF LaxityInv, DueInv
    <2>6. QED  BY <1>1, <2>5 DEF Due
  <1>4. ASSUME NEW m \in Nodes, Subscribers(m) = {}  PROVE inv_laxity[m] >= run_time[m]
    <2>1. m \in Below(Root)  BY <1>4 DEF Below
    <2>2. m \in Children(Root)  BY <1>1, <2>1 DEF RootInv
    <2>3. Due(m, 0)  BY <1>1, <2>2 DEF LaxityInv, DueInv
    <2>4. QED  BY <1>1, <1>2, <2>3 DEF Due
  <1>5. \A m \in Nodes : inv_laxity[m] >= 0
    <2> DEFINE U == {m \in Nodes : ~(inv_laxity[m] >= 0)}
    <2>1. SUFFICES ASSUME U # {}  PROVE FALSE
      OBVIOUS
    <2>2. PICK m \in U : \A n \in U : links[n][m] = 0  BY <2>1 DEF Acyclic
    <2>3. Subscribers(m) # {}  BY <1>2, <1>4, <2>2
    <2>4. PICK n \in Subscribers(m) : TRUE  BY <2>3
    <2>5. n \in Nodes /\ links[n][m] > 0  BY DEF Subscribers
    <2>6. n \notin U  BY <2>2, <2>5
    <2>7. inv_laxity[n] >= 0  BY <2>5, <2>6
    <2>8. inv_laxity[m] >= inv_laxity[n] + run_time[m]  BY <1>3, <2>2, <2>7
    <2>9. QED  BY <1>2, <2>2, <2>5, <2>7, <2>8
  <1>6. \A m \in Nodes : \A n \in Subscribers(m) : n \in Nodes  BY DEF Subscribers
  <1>7. \A m \in Nodes : inv_laxity[m] \in Nat /\ inv_laxity[m] # -1  BY <1>2, <1>5
  <1>8. QED  BY <1>1, <1>2, <1>3, <1>5, <1>6, <1>7

\* What compute_laxity computes.
LEMMA LaxityIs == ASSUME GraphInv, LaxityInv  PROVE LaxityIsLongestPath
  <1>1. SUFFICES ASSUME gpc = "built", Chainable, Acyclic(links), NEW m \in Nodes
                 PROVE  LET below == {inv_laxity[n] : n \in Subscribers(m)} \cup {0}
                        IN  inv_laxity[m] =
                              run_time[m] + (CHOOSE b \in below : \A c \in below : c <= b)
    BY DEF LaxityIsLongestPath
  <1> DEFINE below == {inv_laxity[n] : n \in Subscribers(m)} \cup {0}
  <1>2. CoverAll  BY DEF GraphInv
  <1>3. /\ inv_laxity[m] \in Nat /\ run_time[m] \in Nat /\ inv_laxity[m] >= run_time[m]
        /\ \A n \in Subscribers(m) :
              inv_laxity[n] \in Nat /\ inv_laxity[m] >= inv_laxity[n] + run_time[m]
    BY <1>1, <1>2, AllVisited
  <1>4. PICK b \in Nat : b = inv_laxity[m] - run_time[m]  BY <1>3
  <1>5. \A c \in below : c \in Nat /\ c <= b  BY <1>3, <1>4
  <1>6. b \in below
    <2>1. Justified(m, b)  BY <1>1, <1>3, <1>4 DEF LaxityInv, JustInv
    <2>2. CASE b = 0  BY <2>2
    <2>3. CASE \E n \in Nodes : m \in Children(n) /\ b <= inv_laxity[n]
      <3>1. PICK n \in Nodes : m \in Children(n) /\ b <= inv_laxity[n]  BY <2>3
      <3>2. n \in Subscribers(m)
        <4>1. Children(n) \subseteq Publishers(n)  BY <1>1, ListsCover DEF ChildrenCover
        <4>2. QED  BY <3>1, <4>1 DEF Publishers, Subscribers
      <3>3. inv_laxity[n] \in below  BY <3>2
      <3>4. inv_laxity[n] = b  BY <1>5, <3>1, <3>3
      <3>5. QED  BY <3>3, <3>4
    <2>4. QED  BY <2>1, <2>2, <2>3 DEF Justified
  <1> HIDE DEF below
  <1>7. \A x \in below : (\A c \in below : c <= x) => x = b  BY <1>5, <1>6
  <1>8. (CHOOSE x \in below : \A c \in below : c <= x) = b  BY <1>5, <1>6, <1>7
  <1>9. inv_laxity[m] = run_time[m] + b  BY <1>3, <1>4
  <1>10. inv_laxity[m] = run_time[m] + (CHOOSE x \in below : \A c \in below : c <= x)
    BY <1>8, <1>9
  <1>11. QED  BY <1>10 DEF below

\* compute_laxity, which follows child and next pointers and not the topics, gives
\* every node of a chainable and acyclic file the longest run time from it down to a
\* node nobody subscribes to: the order in which SchedAnalyzer takes the nodes.
THEOREM LaxityIsPath == GraphSpec => []LaxityIsLongestPath
  <1>1. GraphInit => GraphInv /\ LaxityInv  BY GraphInvNext, LaxityInit
  <1>2. GraphInv /\ LaxityInv /\ [GraphNext]_graphVars => (GraphInv /\ LaxityInv)'
    BY GraphInvNext, LaxityNext DEF GraphInv
  <1>3. GraphInv /\ LaxityInv => LaxityIsLongestPath  BY LaxityIs
  <1>4. QED  BY <1>1, <1>2, <1>3, PTL DEF GraphSpec

-----------------------------------------------------------------------------
(* compute_laxity comes back: child and next pointers make no cycle.       *)

Follows(x, y) == y # None /\ (child[x] = y \/ next[x] = y)
ClosedSet(S) == \A x \in S : \A y \in Nodes : Follows(x, y) => y \in S

\* The nodes that are reached from x through child and next pointers.
Reach(x) == {y \in Nodes : \A S \in SUBSET Nodes : x \in S /\ ClosedSet(S) => y \in S}

\* Reach is the least closed set.
LEMMA ReachIs ==
    ASSUME NEW x \in Nodes
    PROVE  /\ x \in Reach(x) /\ Reach(x) \in SUBSET Nodes /\ ClosedSet(Reach(x))
           /\ \A S \in SUBSET Nodes : x \in S /\ ClosedSet(S) => Reach(x) \subseteq S
           /\ \A y \in Reach(x) : Reach(y) \subseteq Reach(x)
  <1>1. x \in Reach(x) /\ Reach(x) \in SUBSET Nodes  BY DEF Reach
  <1>2. \A S \in SUBSET Nodes : x \in S /\ ClosedSet(S) => Reach(x) \subseteq S  BY DEF Reach
  <1>3. ClosedSet(Reach(x))
    <2>1. SUFFICES ASSUME NEW y \in Reach(x), NEW z \in Nodes, Follows(y, z),
                          NEW S \in SUBSET Nodes, x \in S, ClosedSet(S)
                   PROVE  z \in S
      BY DEF ClosedSet, Reach
    <2>2. y \in S  BY <1>2, <2>1
    <2>3. QED  BY <2>1, <2>2 DEF ClosedSet
  <1>4. ASSUME NEW y \in Reach(x)  PROVE Reach(y) \subseteq Reach(x)
    <2>1. SUFFICES ASSUME NEW z \in Reach(y)  PROVE z \in Reach(x)
      OBVIOUS
    <2>2. QED  BY <1>1, <1>3 DEF Reach
  <1>5. QED  BY <1>1, <1>2, <1>3, <1>4

\* The nodes on cycles through x.
Knot(x) == {y \in Nodes : y \in Reach(x) /\ x \in Reach(y)}

\* Every node of a knot follows one of the knot.
LEMMA KnotFollows ==
    ASSUME NEW x \in Nodes, NEW z \in Nodes, Follows(x, z), x \in Reach(z), NEW y \in Knot(x)
    PROVE  \E v \in Knot(x) : Follows(v, y)
  <1>1. SUFFICES ASSUME \A v \in Knot(x) : ~Follows(v, y)  PROVE FALSE
    OBVIOUS
  <1>2. y \in Nodes /\ y \in Reach(x) /\ x \in Reach(y)  BY DEF Knot
  <1>3. x \in Knot(x) /\ z \in Reach(x)  BY ReachIs DEF Knot, ClosedSet
  <1>4. ASSUME NEW v \in Reach(x), Follows(v, y)  PROVE v \in Knot(x)
    <2>1. v \in Nodes /\ y \in Reach(v)  BY <1>2, <1>4, ReachIs DEF ClosedSet
    <2>2. x \in Reach(v)  BY <1>2, <2>1, ReachIs
    <2>3. QED  BY <2>1, <2>2 DEF Knot
  <1>5. CASE y # x
    <2> DEFINE S == Reach(x) \ {y}
    <2>1. S \in SUBSET Nodes /\ x \in S  BY <1>5, ReachIs
    <2>2. ClosedSet(S)
      <3>1. SUFFICES ASSUME NEW v \in S, NEW w \in Nodes, Follows(v, w)  PROVE w \in S
        BY DEF ClosedSet
      <3>2. w \in Reach(x)  BY <3>1, ReachIs DEF ClosedSet
      <3>3. w # y  BY <1>1, <1>4, <3>1
      <3>4. QED  BY <3>2, <3>3
    <2>3. Reach(x) \subseteq S  BY <2>1, <2>2, ReachIs
    <2>4. QED  BY <1>2, <2>3
  <1>6. CASE y = x
    <2> DEFINE S == Reach(z) \ {x}
    <2>1. z # x  BY <1>1, <1>3, <1>6
    <2>2. S \in SUBSET Nodes /\ z \in S  BY <2>1, ReachIs
    <2>3. ClosedSet(S)
      <3>1. SUFFICES ASSUME NEW v \in S, NEW w \in Nodes, Follows(v, w)  PROVE w \in S
        BY DEF ClosedSet
      <3>2. w \in Reach(z)  BY <3>1, ReachIs DEF ClosedSet
      <3>3. v \in Reach(x)  BY <1>3, ReachIs
      <3>4. w # x  BY <1>1, <1>4, <1>6, <3>1, <3>3
      <3>5. QED  BY <3>2, <3>4
    <2>4. Reach(z) \subseteq S  BY <2>2, <2>3, ReachIs
    <2>5. QED  BY <2>4
  <1>7. QED  BY <1>5, <1>6

\* In a chainable, acyclic file no node is reached again from one that follows it.
LEMMA NoReturn ==
    ASSUME GraphInv, Chainable, Acyclic(links), NEW x \in Nodes, NEW z \in Nodes, Follows(x, z)
    PROVE  x \notin Reach(z)
  <1>1. SUFFICES ASSUME x \in Reach(z)  PROVE FALSE
    OBVIOUS
  <1>2. x \in Knot(x) /\ Knot(x) \in SUBSET Nodes  BY ReachIs DEF Knot
  <1>3. PICK y \in Knot(x) : \A n \in Knot(x) : links[n][y] = 0
    BY <1>2 DEF Acyclic
  <1>t. /\ child \in Pointers /\ next \in Pointers /\ TailInv
        /\ links \in [Nodes -> [Nodes -> 0..MaxLinks]]
    BY DEF GraphInv, ChainInv, CoverAll, GraphTypeOK, Pointers
  <1>n. Nodes \subseteq Nat /\ None \notin Nodes  BY NodeNames
  <1> DEFINE D == {v \in Knot(x) : y \in Walk(v)}
  <1>4. y \in D  BY <1>2, <1>t, WalkNow, WalkIsLeast
  <1>5. D \in SUBSET Nat /\ D # {}  BY <1>2, <1>4, <1>n
  <1>6. PICK v \in D : \A w \in D : v <= w
    <2> HIDE DEF D
    <2>1. QED  BY <1>5, LeastNumber
  <1>7. PICK u \in Knot(x) : Follows(u, v)  BY <1>1, KnotFollows
  <1>8. u \in Nodes /\ v \in Nodes /\ y \in Nodes /\ y \in Walk(v)  BY <1>2, <1>6, <1>7
  <1>9. next[u] # v
    <2>1. SUFFICES ASSUME next[u] = v  PROVE FALSE
      OBVIOUS
    <2>2. v > u  BY <1>n, <1>t, <1>8, <2>1 DEF TailInv
    <2>3. y \in Walk(u)
      <3>1. u \in Walk(u) /\ \A w \in Walk(u) : next[w] # None => next[w] \in Walk(u)
        BY <1>8, <1>t, WalkNow, WalkIsLeast
      <3>2. v \in Walk(u)  BY <1>n, <1>8, <2>1, <3>1
      <3>3. \A w \in Walk(u) \cap Nodes : next[w] # None => next[w] \in Walk(u)  BY <3>1
      <3>4. Walk(v) \subseteq Walk(u)
        <4>1. PICK S : S = Walk(u)  OBVIOUS
        <4>2. v \in S /\ \A w \in S \cap Nodes : next[w] # None => next[w] \in S
          BY <3>2, <3>3, <4>1
        <4>3. WalkOf(next, v) \subseteq S  BY <1>8, <1>t, <4>2, WalkIsLeast
        <4>4. QED  BY <4>1, <4>3, WalkNow
      <3>5. QED  BY <1>8, <3>4
    <2>4. u \in D  BY <1>7, <2>3
    <2>5. v <= u  BY <1>6, <2>4
    <2>6. QED  BY <1>n, <1>8, <2>2, <2>5
  <1>10. child[u] = v  BY <1>7, <1>9 DEF Follows
  <1>11. y \in Children(u)  BY <1>n, <1>8, <1>10 DEF Children
  <1>12. y \in Publishers(u)  BY <1>8, <1>11, ListsCover DEF ChildrenCover
  <1>13. links[u][y] > 0  BY <1>12 DEF Publishers
  <1>14. links[u][y] = 0  BY <1>3, <1>7
  <1>15. QED  BY <1>13, <1>14

\* The calls that a call makes reach fewer nodes.
LEMMA ReachShrinks ==
    ASSUME GraphInv, Chainable, Acyclic(links), NEW x \in Nodes, NEW z \in Nodes, Follows(x, z)
    PROVE  /\ Cardinality(Reach(x)) \in Nat /\ Cardinality(Reach(z)) \in Nat
           /\ Cardinality(Reach(z)) < Cardinality(Reach(x))
  <1>1. IsFiniteSet(Reach(x)) /\ IsFiniteSet(Reach(z))
    <2>1. Reach(x) \subseteq Nodes /\ Reach(z) \subseteq Nodes  BY ReachIs
    <2>2. QED  BY <2>1, FiniteNodes, FS_Subset
  <1>2. Cardinality(Reach(x)) \in Nat /\ Cardinality(Reach(z)) \in Nat
    BY <1>1, FS_CardinalityType
  <1>3. x \in Reach(x) /\ z \in Reach(x) /\ Reach(z) \subseteq Reach(x)
    BY ReachIs DEF ClosedSet
  <1>4. x \notin Reach(z)  BY NoReturn
  <1>5. Cardinality(Reach(z)) <= Cardinality(Reach(x))
        /\ (Cardinality(Reach(z)) = Cardinality(Reach(x)) => Reach(z) = Reach(x))
    BY <1>1, <1>3, FS_Subset
  <1>6. QED  BY <1>2, <1>3, <1>4, <1>5

\* A call that is deep in the stack has few nodes left to reach.
Shallow(f) ==
    /\ f[1] = Root => f[3] = 1
    /\ f[1] \in Nodes => f[3] + Cardinality(Reach(f[1])) <= N + 2

DepthInv ==
    Chainable /\ Acyclic(links) =>
        gpc # "overflow" /\ (gpc = "laxity" => \A f \in Frames : Shallow(f))

\* A call keeps its callees shallow.
LEMMA DepthKept ==
    ASSUME GraphInv, DepthInv, Chainable, Acyclic(links), ComputeLaxity
    PROVE  \A f \in Frames' : Shallow(f)'
  <1>0. GraphTypeOK /\ next[Root] = None  BY DEF GraphInv, CoverAll, PendingInv
  <1>1. PICK n \in Nodes \cup {Root}, sum \in Nat, depth \in Nat, rest \in SUBSET Frame :
              /\ Frames = {<<n, sum, depth>>} \cup rest
              /\ depth <= StackMax
              /\ n = Root =>
                    /\ inv_laxity' = inv_laxity
                    /\ Frames' = Call(child[n], sum, depth + 1)
                                 \cup Call(next[n], sum, depth + 1) \cup rest
              /\ n \in Nodes =>
                    /\ run_time[n] \in Nat
                    /\ inv_laxity' = IF run_time[n] + sum > inv_laxity[n]
                                     THEN [inv_laxity EXCEPT ![n] = sum + run_time[n]]
                                     ELSE inv_laxity
                    /\ Frames' = Call(child[n], sum + run_time[n], depth + 1)
                                 \cup Call(next[n], sum, depth + 1) \cup rest
              /\ UNCHANGED <<links, run_time, child, next, pending, gpc>>
    BY <1>0, LaxityStep
  <1>2. child \in Pointers /\ next \in Pointers  BY <1>0 DEF GraphTypeOK, Pointers
  <1>n. None \notin Nodes /\ Root \notin Nodes /\ None # Root  BY NodeNames
  <1>3. \A x : Reach(x)' = Reach(x)  BY <1>1 DEF Reach, ClosedSet, Follows
  <1>4. \A f \in Frames : Shallow(f)  BY DEF DepthInv, ComputeLaxity
  <1>5. N \in Nat  BY GraphAssumption
  <1>6. SUFFICES ASSUME NEW f \in Frames'  PROVE Shallow(f)
    BY <1>3 DEF Shallow
  <1>7. CASE f \in rest  BY <1>1, <1>4, <1>7
  <1>8. CASE f \notin rest
    <2>1. PICK z \in Nodes : Follows(n, z) /\ f[1] = z /\ f[3] = depth + 1
      BY <1>0, <1>1, <1>2, <1>6, <1>8 DEF Call, Follows, Pointers
    <2>2. PICK g \in Frames : g = <<n, sum, depth>>  BY <1>1
    <2>3. g[1] = n /\ g[3] = depth /\ Shallow(g)  BY <1>4, <2>2
    <2>4. z # Root  BY <1>n
    <2>5. CASE n = Root
      <3>1. depth = 1  BY <2>3, <2>5 DEF Shallow
      <3>2. Cardinality(Reach(z)) <= N /\ Cardinality(Reach(z)) \in Nat
        <4>1. Reach(z) \subseteq Nodes  BY ReachIs
        <4>2. IsFiniteSet(Reach(z)) /\ Cardinality(Reach(z)) <= Cardinality(Nodes)
          BY <4>1, FiniteNodes, FS_Subset
        <4>3. QED  BY <4>2, FiniteNodes, FS_CardinalityType
      <3>3. (depth + 1) + Cardinality(Reach(z)) <= N + 2  BY <1>5, <3>1, <3>2
      <3>4. QED  BY <2>1, <2>4, <3>3 DEF Shallow
    <2>6. CASE n \in Nodes
      <3>1. depth + Cardinality(Reach(n)) <= N + 2  BY <2>3, <2>6 DEF Shallow
      <3>2. /\ Cardinality(Reach(n)) \in Nat /\ Cardinality(Reach(z)) \in Nat
            /\ Cardinality(Reach(z)) < Cardinality(Reach(n))
        BY <2>1, <2>6, ReachShrinks
      <3>3. (depth + 1) + Cardinality(Reach(z)) <= N + 2  BY <1>5, <3>1, <3>2
      <3>4. QED  BY <2>1, <2>4, <3>3 DEF Shallow
    <2>7. QED  BY <2>5, <2>6
  <1>9. QED  BY <1>7, <1>8

\* A shallow call is within the stack.
LEMMA ShallowFits ==
    ASSUME NEW f \in Frame, Shallow(f)
    PROVE  f[3] <= StackMax
  <1>1. N \in Nat /\ StackMax \in Nat /\ StackMax > N  BY GraphAssumption
  <1>2. f[3] \in Nat /\ f[1] \in Nodes \cup {Root}  BY DEF Frame
  <1>3. CASE f[1] = Root  BY <1>1, <1>3 DEF Shallow
  <1>4. CASE f[1] \in Nodes
    <2>1. f[1] \in Reach(f[1]) /\ Reach(f[1]) \subseteq Nodes  BY <1>4, ReachIs
    <2>2. IsFiniteSet(Reach(f[1]))  BY <2>1, FiniteNodes, FS_Subset
    <2>3. Cardinality(Reach(f[1])) \in Nat /\ Cardinality(Reach(f[1])) # 0
      BY <2>1, <2>2, FS_CardinalityType, FS_EmptySet
    <2>4. f[3] + Cardinality(Reach(f[1])) <= N + 2  BY <1>4 DEF Shallow
    <2>5. QED  BY <1>1, <1>2, <2>3, <2>4
  <1>5. QED  BY <1>2, <1>3, <1>4

\* Every step of the constructor and of compute_laxity.
LEMMA DepthNext == ASSUME GraphInv, DepthInv, [GraphNext]_graphVars  PROVE DepthInv'
  <1>0. links' = links /\ (Chainable' <=> Chainable)  BY SameFile
  <1>1. SUFFICES ASSUME Chainable, Acyclic(links)
                 PROVE  gpc' # "overflow" /\ (gpc' = "laxity" => \A f \in Frames' : Shallow(f)')
    BY <1>0 DEF DepthInv
  <1>2. gpc # "overflow"  BY <1>1 DEF DepthInv
  <1>3. CASE CreateDag \/ DagDone \/ SetToRoot \/ InsertHangs \/ LaxityDone
    BY <1>3 DEF CreateDag, DagDone, SetToRoot, InsertHangs, LaxityDone
  <1>4. CASE StartLaxity
    <2>1. gpc' = "laxity" /\ stack' = <<<<Root, 0, 1>>>>  BY <1>4 DEF StartLaxity
    <2>2. PICK g : g = <<Root, 0, 1>>  OBVIOUS
    <2>3. stack' = <<g>> /\ DOMAIN <<g>> = {1} /\ <<g>>[1] = g  BY <2>1, <2>2
    <2>4. Frames' = {g} /\ g[1] = Root /\ g[3] = 1  BY <2>2, <2>3 DEF Frames, Held
    <2>5. Root \notin Nodes  BY NodeNames
    <2>6. QED  BY <2>1, <2>4, <2>5 DEF Shallow
  <1>5. CASE ComputeLaxity  BY <1>1, <1>5, DepthKept DEF ComputeLaxity
  <1>6. CASE StackOverflow
    <2>1. gpc = "laxity" /\ stack # <<>> /\ Head(stack)[3] > StackMax  BY <1>6 DEF StackOverflow
    <2>2. stack \in Seq(Frame)  BY DEF GraphInv, CoverAll, GraphTypeOK, Frame
    <2>3. Head(stack) \in Frames /\ Head(stack) \in Frame
      BY <2>1, <2>2, HeldHead, HeadTailProperties DEF Frames
    <2>4. Shallow(Head(stack))  BY <1>1, <2>1, <2>3 DEF DepthInv
    <2>5. Head(stack)[3] <= StackMax /\ Head(stack)[3] \in Nat
      <3>1. PICK f \in Frame : f = Head(stack)  BY <2>3
      <3>2. f[3] <= StackMax /\ f[3] \in Nat  BY <2>4, <3>1, ShallowFits DEF Frame
      <3>3. QED  BY <3>1, <3>2
    <2>6. QED  BY <2>1, <2>5, GraphAssumption
  <1>7. CASE UNCHANGED graphVars
    <2>1. UNCHANGED <<child, next, gpc, stack>>  BY <1>7 DEF graphVars, pointers
    <2>2. Frames' = Frames /\ \A x : Reach(x)' = Reach(x)
      BY <2>1 DEF Frames, Reach, ClosedSet, Follows
    <2>3. QED  BY <1>1, <2>1, <2>2 DEF DepthInv, Shallow
  <1>8. QED  BY <1>3, <1>4, <1>5, <1>6, <1>7 DEF GraphNext

\* The constructor and compute_laxity come back: in a chainable file every list of
\* children has an end, and if the file is acyclic too the recursion of _compute_laxity
\* is no deeper than the file has nodes.
THEOREM AnalysisComesBack == GraphSpec => []ComesBack
  <1>1. GraphInit => GraphInv /\ DepthInv
    <2>1. GraphInit => gpc = "dag"  BY DEF GraphInit
    <2>2. QED  BY <2>1, GraphInvNext DEF DepthInv
  <1>2. GraphInv /\ DepthInv /\ [GraphNext]_graphVars => (GraphInv /\ DepthInv)'
    BY GraphInvNext, DepthNext
  <1>3. GraphInv /\ DepthInv => ComesBack  BY DEF GraphInv, ChainInv, DepthInv, ComesBack
  <1>4. QED  BY <1>1, <1>2, <1>3, PTL DEF GraphSpec

-----------------------------------------------------------------------------
(* A node waits for its publishers.                                        *)

\* What Precedence says of n and m, where the laxities tell who comes first.
Ahead(n, m) ==
    /\ links[n][m] > 0 /\ Cardinality(Children(n)) < ChildSize
    /\ Acyclic(links) /\ run_time[m] # 0

\* Node m has parts, and they end by the time t.
Ended(m, t) ==
    /\ On(m) # {}
    /\ \A c \in Cores : \A s \in NonEmpty(tasks[c]) : s.node = m => s.end <= t

\* Nodes are taken in the order of their laxities, when these are computed.
QueueInv ==
    /\ pc # "graph" =>
          gpc = "built" /\ \A q \in queue, x \in Nodes \ queue : inv_laxity[q] <= inv_laxity[x]
    /\ pc \in {"try", "place"} =>
          \A x \in Nodes \ queue : inv_laxity[node] <= inv_laxity[x]

\* The publishers of the current node have ended before it may start, and the time
\* the search goes on at is later.
CurrentInv ==
    /\ pc = "try" /\ used # {} /\ next_min # None => min_start_time < next_min
    /\ pc \in {"try", "place"} =>
          \A m \in Nodes : Ahead(node, m) => Ended(m, min_start_time)

PartsInv ==
    \A n, m \in Nodes : Ahead(n, m) =>
        \A c \in Cores : \A s \in NonEmpty(tasks[c]) : s.node = n => Ended(m, s.start)

PrecInv == QueueInv /\ CurrentInv /\ PartsInv

\* Between the steps of run() the graph's code makes its own.
LEMMA GraphSteps == ASSUME [Next]_vars  PROVE [GraphNext]_graphVars
  BY DEF Next, vars, NodeQueue, PickNode, NoCoreLeft, TryFirst, TryNext, TryEnd, Place, Finish

\* get_min_start_time is after every child that is placed.
LEMMA MinStartAfter ==
    ASSUME TaskInv, NEW n, NEW c \in Cores, NEW s \in NonEmpty(tasks[c]), s.node \in ChildList(n)
    PROVE  s.end <= GetMinStartTime(n)
  <1>1. PICK b \in Nat : \A d \in Cores : EscTime(d) \in Nat /\ EscTime(d) <= b  BY EscBound
  <1>2. PICK S : S = {0} \cup {r.end : r \in {r \in Placed : r.node \in ChildList(n)}}  OBVIOUS
  <1>3. ASSUME NEW x \in S, x # 0  PROVE x \in Nat /\ x <= b
    <2>1. PICK r \in Placed : x = r.end  BY <1>2, <1>3
    <2>2. PICK d \in Cores : r \in SlotType /\ r.end <= EscTime(d)  BY PlacedEnds
    <2>3. r.end \in Nat  BY <2>2 DEF SlotType
    <2>4. QED  BY <1>1, <2>1, <2>2, <2>3
  <1>4. S \in SUBSET Nat /\ S # {} /\ \A x \in S : x <= b
    <2>1. \A x \in S : x \in Nat /\ x <= b  BY <1>1, <1>3
    <2>2. 0 \in S  BY <1>2
    <2>3. QED  BY ONLY <2>1, <2>2
  <1>5. \A x \in S : x <= MaxOf(S)  BY <1>1, <1>4, Greatest
  <1>6. s \in Placed
    <2>1. PICK l \in DOMAIN tasks[c] : s = tasks[c][l]  BY DEF NonEmpty, Held
    <2>2. QED  BY <2>1 DEF Placed, SlotsOf
  <1>7. s.end \in S  BY <1>2, <1>6
  <1>8. QED  BY <1>2, <1>5, <1>7 DEF GetMinStartTime

\* Steps that leave the lists and the graph alone.
LEMMA SameAhead ==
    ASSUME tasks' = tasks, UNCHANGED graphVars
    PROVE  /\ \A n, m : Ahead(n, m)' <=> Ahead(n, m)
           /\ \A m, t : Ended(m, t)' <=> Ended(m, t)
           /\ PartsInv => PartsInv'
           /\ inv_laxity' = inv_laxity /\ gpc' = gpc
  <1>1. UNCHANGED <<links, run_time, child, next, inv_laxity, gpc>>
    BY DEF graphVars, file, pointers
  <1>2. \A n : Children(n)' = Children(n) /\ On(n)' = On(n)
    BY <1>1, SameParts, WalkNow
  <1>3. \A n, m : Ahead(n, m)' <=> Ahead(n, m)  BY <1>1, <1>2 DEF Ahead
  <1>4. \A m, t : Ended(m, t)' <=> Ended(m, t)  BY <1>2 DEF Ended, NonEmpty
  <1>5. PartsInv => PartsInv'
    <2>1. SUFFICES ASSUME PartsInv, NEW n \in Nodes, NEW m \in Nodes, Ahead(n, m),
                          NEW c \in Cores, NEW s \in NonEmpty(tasks[c]), s.node = n
                   PROVE  Ended(m, s.start)'
      BY <1>3 DEF PartsInv, NonEmpty
    <2>2. Ended(m, s.start)  BY <2>1 DEF PartsInv
    <2>3. PICK t : t = s.start  OBVIOUS
    <2>4. QED  BY <1>4, <2>2, <2>3
  <1>6. QED  BY <1>1, <1>3, <1>4, <1>5

\* At the start no node has parts.
LEMMA PrecInit == ASSUME Init  PROVE PrecInv
  <1>1. pc = "graph" /\ \A c \in Cores : tasks[c] = <<>>  BY DEF Init
  <1>2. \A c \in Cores : NonEmpty(tasks[c]) = {}  BY <1>1, EmptyTiles DEF NonEmpty
  <1>3. QED  BY <1>1, <1>2 DEF PrecInv, QueueInv, CurrentInv, PartsInv

\* While the graph is built no node has parts, and afterwards it stays.
LEMMA PrecGraph ==
    ASSUME TaskInv, WhereInv, PrecInv, GraphNext, UNCHANGED schedVars
    PROVE  PrecInv'
  <1>1. UNCHANGED <<tasks, queue, pc>>  BY DEF schedVars
  <1>2. gpc # "built"
    BY DEF GraphNext, CreateDag, DagDone, SetToRoot, InsertHangs, StartLaxity, ComputeLaxity,
           StackOverflow, LaxityDone
  <1>3. pc = "graph"  BY <1>2 DEF PrecInv, QueueInv
  <1>4. ASSUME NEW n \in Nodes, NEW c \in Cores, NEW s \in NonEmpty(tasks[c])  PROVE s.node # n
    <2>1. On(n) = {}  BY <1>3 DEF WhereInv
    <2>2. ~HasNode(tasks[c], n)  BY <2>1 DEF On
    <2>3. tasks[c] \in Seq(SlotType)  BY DEF TaskInv
    <2>4. QED  BY <2>2, <2>3, HasNodeHeld
  <1>5. \A n \in Nodes, c \in Cores : \A s \in NonEmpty(tasks[c])' : s.node # n
    BY <1>1, <1>4 DEF NonEmpty
  <1>6. PartsInv'  BY <1>1, <1>5 DEF PartsInv
  <1>7. QED  BY <1>1, <1>3, <1>6 DEF PrecInv, QueueInv, CurrentInv

\* The node that is taken comes after its publishers.
LEMMA PrecPickNode ==
    ASSUME TimeInv, GangInv, CoverAll, LaxityInv, PrecInv, NEW n \in Nodes, PickNode(n)
    PROVE  PrecInv'
  <1>1. /\ UNCHANGED <<graphVars, tasks>> /\ pc = "pick" /\ n \in queue
        /\ queue' = queue \ {n} /\ node' = n /\ min_start_time' = GetMinStartTime(n)
        /\ used' = {} /\ pc' \in {"try", "place"}
        /\ \A m \in queue : ~LaxityOrder(m, n)
    BY DEF PickNode
  <1>2. gpc = "built"  BY <1>1 DEF PrecInv, QueueInv
  <1>3. GraphTypeOK /\ CoverInv /\ pending = {} /\ TaskInv /\ queue \subseteq Nodes
    BY <1>2 DEF CoverAll, PendingInv, TimeInv, SchedType
  <1>4. \A m \in Nodes : inv_laxity[m] \in Int  BY <1>3 DEF GraphTypeOK
  <1>5. \A m \in queue : inv_laxity[m] <= inv_laxity[n]
    <2>1. SUFFICES ASSUME NEW m \in queue, ~(inv_laxity[m] <= inv_laxity[n])  PROVE FALSE
      OBVIOUS
    <2>2. inv_laxity[m] > inv_laxity[n] /\ inv_laxity[m] # inv_laxity[n]  BY <1>3, <1>4, <2>1
    <2>3. LaxityOrder(m, n)  BY <2>2 DEF LaxityOrder
    <2>4. QED  BY <1>1, <2>3
  <1>6. \A q \in queue, x \in Nodes \ queue : inv_laxity[q] <= inv_laxity[x]
    BY <1>1 DEF PrecInv, QueueInv
  <1>7. QueueInv'
    <2>1. \A q \in queue \ {n}, x \in Nodes \ (queue \ {n}) : inv_laxity[q] <= inv_laxity[x]
      BY <1>5, <1>6
    <2>2. \A x \in Nodes \ (queue \ {n}) : inv_laxity[n] <= inv_laxity[x]
      BY <1>1, <1>4, <1>6
    <2>3. QED  BY <1>1, <1>2, <2>1, <2>2, SameAhead DEF QueueInv
  <1>8. ASSUME NEW m \in Nodes, Ahead(n, m)  PROVE Ended(m, GetMinStartTime(n))
    <2>1. /\ links[n][m] > 0 /\ Cardinality(Children(n)) < ChildSize
          /\ Acyclic(links) /\ run_time[m] # 0
      BY <1>8 DEF Ahead
    <2>2. n \in Subscribers(m)  BY <2>1 DEF Subscribers
    <2>3. /\ inv_laxity[m] \in Nat /\ inv_laxity[n] \in Nat /\ run_time[m] \in Nat
          /\ inv_laxity[m] >= inv_laxity[n] + run_time[m]
      BY <1>2, <2>1, <2>2, AllVisited
    <2>4. m \notin queue  BY <1>5, <2>1, <2>3
    <2>5. Complete(m)  BY <1>1, <2>4 DEF Complete
    <2>6. On(m) # {}
      <3>1. Cardinality(On(m)) = core[m]  BY <2>5 DEF GangInv, DoneInv
      <3>2. core[m] # 0  BY DEF TimeInv, SchedType
      <3>3. QED  BY <3>1, <3>2, FS_EmptySet
    <2>7. m \in ChildList(n)
      <3>1. PICK t \in Insertions(links) : t = <<n, m, 1>>  BY <1>3, <2>1, InsertionsAre
      <3>2. t[1] = n /\ t[2] = m /\ t \in Insertions(links) \ pending  BY <1>3, <3>1
      <3>3. m \in Children(n)  BY <1>3, <3>2 DEF CoverInv
      <3>4. QED  BY <2>1, <3>3 DEF ChildList
    <2>8. QED  BY <1>3, <2>6, <2>7, MinStartAfter DEF Ended
  <1>9. CurrentInv'
    <2>1. PICK t : t = GetMinStartTime(n)  OBVIOUS
    <2>2. \A m \in Nodes : Ahead(n, m)' => Ended(m, t)'  BY <1>1, <1>8, <2>1, SameAhead
    <2>3. ASSUME NEW m \in Nodes, Ahead(node, m)'  PROVE Ended(m, min_start_time)'
      <3>1. Ahead(n, m)'  BY <1>1, <2>3 DEF Ahead
      <3>2. Ended(m, t)'  BY <2>2, <3>1
      <3>3. QED  BY <1>1, <2>1, <3>2 DEF Ended
    <2>4. QED  BY <1>1, <2>3 DEF CurrentInv
  <1>10. PartsInv'  BY <1>1, SameAhead DEF PrecInv
  <1>11. QED  BY <1>7, <1>9, <1>10 DEF PrecInv

\* Steps of run() that neither take nor place a node.
LEMMA PrecSame ==
    ASSUME PrecInv, UNCHANGED <<graphVars, tasks, queue, node>>,
           pc # "graph", pc' # "graph",
           pc' \in {"try", "place"} => pc \in {"try", "place"} /\ min_start_time <= min_start_time',
           min_start_time \in Nat, min_start_time' \in Nat, TaskInv,
           pc' = "try" /\ used' # {} /\ next_min' # None => min_start_time' < next_min'
    PROVE  PrecInv'
  <1>1. QueueInv'  BY SameAhead DEF PrecInv, QueueInv
  <1>2. ASSUME pc' \in {"try", "place"}, NEW m \in Nodes, Ahead(node, m)'
        PROVE  Ended(m, min_start_time)'
    <2>1. Ahead(node, m)
      <3>1. PICK n : n = node  OBVIOUS
      <3>2. Ahead(n, m)'  BY <1>2, <3>1 DEF Ahead
      <3>3. QED  BY <3>1, <3>2, SameAhead
    <2>2. Ended(m, min_start_time)  BY <1>2, <2>1 DEF PrecInv, CurrentInv
    <2>3. PICK t : t = min_start_time'  OBVIOUS
    <2>4. Ended(m, t)
      <3>1. SUFFICES ASSUME NEW c \in Cores, NEW s \in NonEmpty(tasks[c]), s.node = m
                     PROVE  s.end <= t
        BY <2>2 DEF Ended
      <3>2. s.end <= min_start_time  BY <2>2, <3>1 DEF Ended
      <3>3. s.end \in Nat
        <4>1. tasks[c] \in Seq(SlotType)  BY DEF TaskInv
        <4>2. \A l \in 1..Len(tasks[c]) : tasks[c][l] \in SlotType  BY <4>1, ElementOfSeq
        <4>3. DOMAIN tasks[c] = 1..Len(tasks[c])  BY <4>1, LenProperties
        <4>4. QED  BY <4>2, <4>3 DEF NonEmpty, Held, SlotType
      <3>4. QED  BY <1>2, <2>3, <3>2, <3>3
    <2>5. Ended(m, t)'  BY <2>4, SameAhead
    <2>6. QED  BY <2>3, <2>5 DEF Ended
  <1>3. CurrentInv'  BY <1>2 DEF CurrentInv
  <1>4. PartsInv'  BY SameAhead DEF PrecInv
  <1>5. QED  BY <1>1, <1>3, <1>4 DEF PrecInv

\* The trial and the end of run().
LEMMA PrecTrial ==
    ASSUME TimeInv, TimeInv', PrecInv,
           UNCHANGED vars \/ NoCoreLeft \/ TryFirst \/ TryNext \/ TryEnd \/ Finish,
           pc # "graph"
    PROVE  PrecInv'
  <1>1. TaskInv /\ min_start_time \in Nat /\ min_start_time' \in Nat
    BY DEF TimeInv, SchedType
  <1>2. CASE UNCHANGED vars
    <2>1. UNCHANGED <<graphVars, tasks, queue, node, pc, min_start_time, used, next_min>>
      BY <1>2 DEF vars, schedVars, search
    <2>2. QED  BY <1>1, <2>1, PrecSame DEF PrecInv, CurrentInv
  <1>3. CASE NoCoreLeft
    <2>1. UNCHANGED <<graphVars, tasks, queue, node>> /\ pc' = "crash"
      BY <1>3 DEF NoCoreLeft, search
    <2>2. QED  BY <1>1, <2>1, PrecSame
  <1>4. CASE TryFirst
    <2>1. /\ UNCHANGED <<graphVars, tasks, queue, node, pc, min_start_time>> /\ next_min' = None
          /\ pc = "try"
      BY <1>4 DEF TryFirst
    <2>2. QED  BY <1>1, <2>1, PrecSame
  <1>5. CASE TryNext
    <2>1. PICK p : /\ IsSelected(p, start, run_time[node], Cores \ used)
                   /\ next_min' = NextMin(p.start)
      BY <1>5, TryNextSelects
    <2>2. /\ UNCHANGED <<graphVars, tasks, queue, node, pc, min_start_time>> /\ pc = "try"
          /\ used # {}
      BY <1>5 DEF TryNext
    <2>3. next_min' # None => min_start_time' < next_min'
      BY <2>1, <2>2 DEF NextMin, PrecInv, CurrentInv
    <2>4. QED  BY <1>1, <2>2, <2>3, PrecSame
  <1>6. CASE TryEnd
    <2>1. /\ UNCHANGED <<graphVars, tasks, queue, node>> /\ pc = "try" /\ used' = {}
          /\ Cardinality(used) = core[node]
          /\ \/ success /\ pc' = "place" /\ min_start_time' = min_start_time
             \/ ~success /\ pc' = "try" /\ min_start_time' = next_min
      BY <1>6 DEF TryEnd, AllTogether
    <2>2. used # {}
      <3>1. core[node] # 0  BY <2>1 DEF TimeInv, SchedType
      <3>2. QED  BY <2>1, <3>1, FS_EmptySet
    <2>3. ~success => next_min # None
      BY <2>1, <2>2 DEF TimeInv, SchedType, RoundInv
    <2>4. min_start_time <= min_start_time'
      BY <1>1, <2>1, <2>2, <2>3 DEF PrecInv, CurrentInv
    <2>5. QED  BY <1>1, <2>1, <2>4, PrecSame
  <1>7. CASE Finish
    <2>1. UNCHANGED <<graphVars, tasks, queue, node>> /\ pc' = "done"
      BY <1>7 DEF Finish, search
    <2>2. QED  BY <1>1, <2>1, PrecSame
  <1>8. QED  BY <1>2, <1>3, <1>4, <1>5, <1>6, <1>7

\* A part is put behind the parts of its publishers, and none of its subscribers
\* has one yet.
LEMMA PrecPlace ==
    ASSUME TimeInv, GangInv, CoverAll, LaxityInv, PrecInv, pc # "graph", Place
    PROVE  PrecInv'
  <1>1. PICK p : /\ IsSelected(p, min_start_time, run_time[node], Cores \ used) /\ IsPlaced(p)
                 /\ used' = used \cup {p.core} /\ p.core \in Cores \ used /\ p.start \in Nat
                 /\ pc' = (IF Cardinality(used) + 1 = core[node] THEN "pick" ELSE "place")
                 /\ UNCHANGED <<run_time, core, queue, node, min_start_time, start, success,
                                next_min, makespan>>
                 /\ pc = "place" /\ node \in Nodes
    BY PlaceSelects
  <1>2. UNCHANGED graphVars  BY DEF Place
  <1>3. UNCHANGED <<links, run_time, child, next, inv_laxity, gpc>>
    BY <1>2 DEF graphVars, file, pointers
  <1>4. TaskInv /\ min_start_time \in Nat /\ gpc = "built" /\ min_start_time <= p.start
    BY <1>1 DEF TimeInv, SchedType, PrecInv, QueueInv, IsSelected
  <1>5. /\ \A n \in Nodes : n # node => On(n)' = On(n)
        /\ \A c \in Cores : c \in On(node)' <=> c \in On(node) \cup {p.core}
    BY <1>1, <1>3, <1>4, PlacedParts
  <1>6. ASSUME NEW c \in Cores, NEW s \in NonEmpty(tasks[c])'
        PROVE  s \in NonEmpty(tasks[c]) \/ (s.node = node /\ s.start = p.start)
    <2>1. CASE c = p.core
      <3>1. NonEmpty(tasks[c])' = NonEmpty(tasks[c]) \cup {Part(p)}
        BY <1>1, <2>1 DEF IsPlaced, IsPut, NonEmpty
      <3>2. CASE s = Part(p)  BY <3>2 DEF Part, Slot
      <3>3. QED  BY <3>1, <3>2
    <2>2. CASE c # p.core
      <3>1. tasks'[c] = tasks[c]  BY <1>1, <2>2 DEF IsPlaced
      <3>2. QED  BY <3>1 DEF NonEmpty
    <2>3. QED  BY <2>1, <2>2
  <1>7. ASSUME NEW m \in Nodes, m # node, NEW t, Ended(m, t)  PROVE Ended(m, t)'
    <2>1. On(m)' # {}  BY <1>5, <1>7 DEF Ended
    <2>2. ASSUME NEW c \in Cores, NEW s \in NonEmpty(tasks[c])', s.node = m  PROVE s.end <= t
      BY <1>6, <1>7, <2>2 DEF Ended
    <2>3. QED  BY <2>1, <2>2 DEF Ended
  <1>8. \A n, m : Ahead(n, m)' <=> Ahead(n, m)  BY <1>3, WalkNow DEF Ahead
  <1>9. ASSUME NEW n \in Nodes, NEW m \in Nodes, Ahead(n, m)
        PROVE  /\ n # m /\ inv_laxity[m] \in Nat /\ inv_laxity[n] \in Nat
               /\ inv_laxity[n] < inv_laxity[m]
    <2>1. links[n][m] > 0 /\ Acyclic(links) /\ run_time[m] # 0  BY <1>9 DEF Ahead
    <2>2. n \in Subscribers(m)  BY <2>1 DEF Subscribers
    <2>3. /\ inv_laxity[m] \in Nat /\ inv_laxity[n] \in Nat /\ run_time[m] \in Nat
          /\ inv_laxity[m] >= inv_laxity[n] + run_time[m]
      BY <1>4, <2>1, <2>2, AllVisited
    <2>4. QED  BY <2>1, <2>3
  <1>10. QueueInv'  BY <1>1, <1>3 DEF PrecInv, QueueInv
  <1>11. ASSUME NEW m \in Nodes, Ahead(node, m)
         PROVE  m # node /\ Ended(m, min_start_time)
    BY <1>1, <1>9, <1>11 DEF PrecInv, CurrentInv
  <1>12. CurrentInv'
    <2>1. SUFFICES ASSUME NEW m \in Nodes, Ahead(node, m)'  PROVE Ended(m, min_start_time)'
      BY <1>1 DEF CurrentInv
    <2>2. PICK n : n = node  OBVIOUS
    <2>3. Ahead(n, m)'  BY <1>1, <2>1, <2>2 DEF Ahead
    <2>4. m # node /\ Ended(m, min_start_time)  BY <1>8, <1>11, <2>2, <2>3
    <2>5. PICK t : t = min_start_time  OBVIOUS
    <2>6. Ended(m, t)'  BY <1>7, <2>4, <2>5
    <2>7. QED  BY <1>1, <2>5, <2>6 DEF Ended
  <1>13. PartsInv'
    <2>1. SUFFICES ASSUME NEW n \in Nodes, NEW m \in Nodes, Ahead(n, m),
                          NEW c \in Cores, NEW s \in NonEmpty(tasks[c])', s.node = n
                   PROVE  Ended(m, s.start)'
      BY <1>8 DEF PartsInv
    <2>2. PICK t : t = s.start  OBVIOUS
    <2>3. CASE s \in NonEmpty(tasks[c])
      <3>1. Ended(m, t)  BY <2>1, <2>2, <2>3 DEF PrecInv, PartsInv
      <3>2. m # node
        <4>1. SUFFICES ASSUME m = node  PROVE FALSE
          OBVIOUS
        <4>2. inv_laxity[n] < inv_laxity[node] /\ inv_laxity[n] \in Nat /\ inv_laxity[node] \in Nat
          BY <1>9, <2>1, <4>1
        <4>3. HasNode(tasks[c], n)
          <5>1. tasks[c] \in Seq(SlotType)  BY <1>4 DEF TaskInv
          <5>2. QED  BY <2>1, <2>3, <5>1, HasNodeHeld
        <4>4. n \notin queue  BY <4>3 DEF GangInv, WhereInv, On
        <4>5. inv_laxity[node] <= inv_laxity[n]  BY <1>1, <4>4 DEF PrecInv, QueueInv
        <4>6. QED  BY <4>2, <4>5
      <3>3. Ended(m, t)'  BY <1>7, <3>1, <3>2
      <3>4. QED  BY <2>2, <3>3
    <2>4. CASE s.node = node /\ s.start = p.start
      <3>1. n = node  BY <2>1, <2>4
      <3>2. m # node /\ Ended(m, min_start_time)  BY <1>11, <2>1, <3>1
      <3>3. Ended(m, t)
        <4>1. SUFFICES ASSUME NEW d \in Cores, NEW r \in NonEmpty(tasks[d]), r.node = m
                       PROVE  r.end <= t
          BY <3>2 DEF Ended
        <4>2. r.end <= min_start_time  BY <3>2, <4>1 DEF Ended
        <4>3. r.end \in Nat
          <5>1. tasks[d] \in Seq(SlotType)  BY <1>4 DEF TaskInv
          <5>2. \A l \in 1..Len(tasks[d]) : tasks[d][l] \in SlotType  BY <5>1, ElementOfSeq
          <5>3. DOMAIN tasks[d] = 1..Len(tasks[d])  BY <5>1, LenProperties
          <5>4. QED  BY <5>2, <5>3 DEF NonEmpty, Held, SlotType
        <4>4. QED  BY <1>1, <1>4, <2>2, <2>4, <4>2, <4>3
      <3>4. Ended(m, t)'  BY <1>7, <3>2, <3>3
      <3>5. QED  BY <2>2, <3>4
    <2>5. QED  BY <1>6, <2>3, <2>4
  <1>14. QED  BY <1>10, <1>12, <1>13 DEF PrecInv

\* Every step of run().
LEMMA PrecNext ==
    ASSUME TimeInv, GangInv, CoverAll, LaxityInv, PrecInv, [Next]_vars
    PROVE  PrecInv'
  <1>1. TaskInv /\ WhereInv /\ TimeInv'  BY TimeNext DEF TimeInv, GangInv
  <1>2. CASE GraphNext /\ UNCHANGED schedVars  BY <1>1, <1>2, PrecGraph
  <1>3. CASE NodeQueue
    <2>1. UNCHANGED <<graphVars, tasks>> /\ queue' = Nodes /\ pc' = "pick" /\ gpc = "built"
      BY <1>3 DEF NodeQueue
    <2>2. QED  BY <2>1, SameAhead DEF PrecInv, QueueInv, CurrentInv
  <1>4. CASE \E n \in Nodes : PickNode(n)  BY <1>4, PrecPickNode
  <1>5. CASE Place  BY <1>5, PrecPlace DEF Place
  <1>6. CASE NoCoreLeft \/ TryFirst \/ TryNext \/ TryEnd \/ Finish
    <2>1. pc # "graph"  BY <1>6 DEF NoCoreLeft, TryFirst, TryNext, TryEnd, Finish
    <2>2. QED  BY <1>1, <1>6, <2>1, PrecTrial
  <1>7. CASE UNCHANGED vars
    <2>1. CASE pc # "graph"  BY <1>1, <1>7, <2>1, PrecTrial
    <2>2. CASE pc = "graph"
      <3>1. UNCHANGED <<graphVars, tasks, pc>>  BY <1>7 DEF vars, schedVars
      <3>2. QED  BY <2>2, <3>1, SameAhead DEF PrecInv, QueueInv, CurrentInv
    <2>3. QED  BY <2>1, <2>2
  <1>8. QED  BY <1>2, <1>3, <1>4, <1>5, <1>6, <1>7 DEF Next

\* A node starts after its publishers, all of them placed: the laxities, computed along
\* the children's lists, put publishers first in node_queue_, and neither the search
\* for several cores nor a vacancy brings a part before min_start_time.
THEOREM PublishersFirst == Spec => []Precedence
  <1>1. ASSUME TimeInv, PrecInv  PROVE Precedence
    <2>1. SUFFICES ASSUME NEW n \in Nodes, NEW m \in Nodes, Ahead(n, m), NEW p \in Parts(n)
                   PROVE  Parts(m) # {} /\ \A q \in Parts(m) : SlotAt(q).end <= SlotAt(p).start
      BY DEF Precedence, Ahead
    <2>2. TaskInv  BY <1>1 DEF TimeInv
    <2>3. ASSUME NEW k \in Nodes, NEW q \in Parts(k)
          PROVE  \E c \in Cores : SlotAt(q) \in NonEmpty(tasks[c]) /\ SlotAt(q).node = k
      <3>1. PICK c \in Cores : q \in {c} \X DOMAIN tasks[c]  BY DEF Parts
      <3>2. PICK l \in DOMAIN tasks[c] : q = <<c, l>>  BY <3>1
      <3>3. SlotAt(q) = tasks[c][l] /\ SlotAt(q).node = k  BY <3>2 DEF SlotAt, Parts
      <3>4. k # None  BY NodeNames
      <3>5. QED  BY <3>3, <3>4 DEF NonEmpty, Held
    <2>4. PICK c \in Cores : SlotAt(p) \in NonEmpty(tasks[c]) /\ SlotAt(p).node = n
      BY <2>3
    <2>5. Ended(m, SlotAt(p).start)  BY <1>1, <2>1, <2>4 DEF PrecInv, PartsInv
    <2>6. Parts(m) # {}
      <3>1. PICK d \in Cores : HasNode(tasks[d], m)  BY <2>5 DEF Ended, On
      <3>2. PICK l \in 1..Len(tasks[d]) : tasks[d][l].node = m  BY <3>1 DEF HasNode
      <3>3. DOMAIN tasks[d] = 1..Len(tasks[d])  BY <2>2, LenProperties DEF TaskInv
      <3>4. PICK q : q = <<d, l>>  OBVIOUS
      <3>5. q \in {d} \X DOMAIN tasks[d] /\ SlotAt(q).node = m
        BY <3>2, <3>3, <3>4 DEF SlotAt
      <3>6. QED  BY <3>5 DEF Parts
    <2>7. ASSUME NEW q \in Parts(m)  PROVE SlotAt(q).end <= SlotAt(p).start
      <3>1. PICK d \in Cores : SlotAt(q) \in NonEmpty(tasks[d]) /\ SlotAt(q).node = m
        BY <2>3
      <3>2. QED  BY <2>5, <3>1 DEF Ended
    <2>8. QED  BY <2>6, <2>7
  <1>2. Init => TimeInv /\ GangInv /\ CoverAll /\ LaxityInv /\ PrecInv
    BY TimeInit, GangInit, CoverInit, LaxityInit, PrecInit DEF Init
  <1>3. TimeInv /\ GangInv /\ CoverAll /\ LaxityInv /\ PrecInv /\ [Next]_vars
        => (TimeInv /\ GangInv /\ CoverAll /\ LaxityInv /\ PrecInv)'
    BY TimeNext, GangNext, CoverNext, LaxityNext, GraphSteps, PrecNext
  <1>4. QED  BY <1>1, <1>2, <1>3, PTL DEF Spec
=============================================================================
