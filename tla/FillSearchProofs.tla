-------------------------- MODULE FillSearchProofs --------------------------
(***************************************************************************)
(* What TLAPS proves of the search for a fill: the comparison of outputs   *)
(* by the loop with swap_remove is the comparison of multisets, for        *)
(* outputs of any number and order; and what the searches find stays what  *)
(* they find, however many blocks follow.                                  *)
(***************************************************************************)
EXTENDS FillSearch, FiniteSetTheorems, SequenceTheorems, WellFoundedInduction, TLAPS

LEMMA Least ==
    ASSUME NEW S \in SUBSET Nat, S # {} PROVE \E m \in S : \A n \in S : m <= n
<1>1. \E x \in S : \A y \in S : ~(<<y, x>> \in OpToRel(<, Nat))
  BY WFMin, NatLessThanWellFounded
<1>2. PICK m \in S : \A n \in S : ~(n < m)
  BY <1>1, Zenon DEF OpToRel
<1> QED  BY <1>2

\* Induction, over the set of the numbers that have the property.
LEMMA SetInduction ==
    ASSUME NEW S \in SUBSET Nat, 0 \in S, \A n \in S : n + 1 \in S PROVE S = Nat
<1> SUFFICES ASSUME Nat \ S # {} PROVE FALSE
  OBVIOUS
<1>1. PICK m \in Nat \ S : \A n \in Nat \ S : m <= n
  BY Least
<1>2. m - 1 \in Nat /\ (m - 1) + 1 = m
  BY <1>1
<1> QED  BY <1>1, <1>2

-----------------------------------------------------------------------------
(* Counting *)

Places(s, a) == {i \in DOMAIN s : s[i].asset = a}

Count(s, a) == Cardinality(Places(s, a))

LEMMA Counts ==
    ASSUME NEW T, NEW s \in Seq(T), NEW a
    PROVE  /\ IsFiniteSet(Places(s, a)) /\ Count(s, a) \in Nat
           /\ Count(s, a) = 0 <=> Places(s, a) = {}
<1>1. DOMAIN s = 1 .. Len(s) /\ Len(s) \in Nat
  OBVIOUS
<1>2. IsFiniteSet(1 .. Len(s))
  BY <1>1, FS_Interval
<1>3. IsFiniteSet(Places(s, a))
  BY <1>1, <1>2, FS_Subset DEF Places
<1> QED  BY <1>3, FS_CardinalityType, FS_EmptySet DEF Count

\* The multiset of a sequence says how often each asset occurs in it.
LEMMA BagCounts ==
    ASSUME NEW T, NEW s \in Seq(T)
    PROVE  /\ \A a : a \in DOMAIN ToBag(AssetsOf(s)) <=> Count(s, a) # 0
           /\ \A a \in DOMAIN ToBag(AssetsOf(s)) : ToBag(AssetsOf(s))[a] = Count(s, a)
<1>1. DOMAIN AssetsOf(s) = DOMAIN s /\ \A i \in DOMAIN s : AssetsOf(s)[i] = s[i].asset
  BY DEF AssetsOf
<1>2. Range(AssetsOf(s)) = {s[i].asset : i \in DOMAIN s}
  BY <1>1 DEF Range
<1>3. \A a : {i \in DOMAIN AssetsOf(s) : AssetsOf(s)[i] = a} = Places(s, a)
  BY <1>1 DEF Places
<1>4. ToBag(AssetsOf(s)) = [a \in {s[i].asset : i \in DOMAIN s} |-> Count(s, a)]
  BY <1>2, <1>3 DEF ToBag, Count
<1>5. \A a : a \in {s[i].asset : i \in DOMAIN s} <=> Places(s, a) # {}
  BY DEF Places
<1> QED  BY <1>4, <1>5, Counts

\* One multiset is in another if no asset occurs more often in it.
LEMMA SupersetCounts ==
    ASSUME NEW T, NEW fills \in Seq(T), NEW outputs \in Seq(T)
    PROVE  FillOutputsAreSuperset(fills, outputs)
             <=> \A a : Count(outputs, a) <= Count(fills, a)
<1> DEFINE of == ToBag(AssetsOf(outputs))
           in == ToBag(AssetsOf(fills))
<1>1. FillOutputsAreSuperset(fills, outputs) <=>
        /\ DOMAIN of \subseteq DOMAIN in
        /\ \A a \in DOMAIN of : of[a] <= in[a]
  BY DEF FillOutputsAreSuperset, \sqsubseteq
<1>2. \A a : Count(outputs, a) \in Nat /\ Count(fills, a) \in Nat
  BY Counts
<1>3. /\ \A a : a \in DOMAIN of <=> Count(outputs, a) # 0
      /\ \A a \in DOMAIN of : of[a] = Count(outputs, a)
  BY BagCounts
<1>4. /\ \A a : a \in DOMAIN in <=> Count(fills, a) # 0
      /\ \A a \in DOMAIN in : in[a] = Count(fills, a)
  BY BagCounts
<1> HIDE DEF of, in
<1>5. ASSUME FillOutputsAreSuperset(fills, outputs), NEW a
      PROVE  Count(outputs, a) <= Count(fills, a)
  BY <1>1, <1>2, <1>3, <1>4, <1>5
<1>6. ASSUME \A a : Count(outputs, a) <= Count(fills, a)
      PROVE  FillOutputsAreSuperset(fills, outputs)
  <2>1. DOMAIN of \subseteq DOMAIN in
    BY <1>2, <1>3, <1>4, <1>6
  <2> QED  BY <1>1, <1>3, <1>4, <1>6, <2>1
<1> QED  BY <1>5, <1>6

-----------------------------------------------------------------------------
(* The loop *)

\* Of the asset at place i there is one less, of the others as many as before.
LEMMA SwapRemoveCounts ==
    ASSUME NEW T, NEW s \in Seq(T), NEW i \in 1 .. Len(s)
    PROVE  /\ SwapRemove(s, i) \in Seq(T)
           /\ \A a : Count(s, a) = Count(SwapRemove(s, i), a)
                                     + IF s[i].asset = a THEN 1 ELSE 0
<1> DEFINE n == Len(s)
           t == SwapRemove(s, i)
<1>1. n \in Nat \ {0} /\ \A k \in 1 .. n : s[k] \in T
  OBVIOUS
<1>2. t = [k \in 1 .. n - 1 |-> IF k = i THEN s[n] ELSE s[k]]
  BY DEF SwapRemove, Last
<1>3. t \in Seq(T) /\ Len(t) = n - 1
  <2>1. t \in [1 .. n - 1 -> T]
    BY <1>1, <1>2
  <2> QED  BY <1>1, <2>1, IsASeq, LenProperties
<1> HIDE DEF t
<1>4. ASSUME NEW a PROVE Count(s, a) = Count(t, a) + IF s[i].asset = a THEN 1 ELSE 0
  <2> DEFINE both == {k \in 1 .. n - 1 : k # i /\ s[k].asset = a}
  <2>1. IsFiniteSet(both) /\ Cardinality(both) \in Nat
    <3>1. IsFiniteSet(1 .. n - 1)
      BY <1>1, FS_Interval
    <3> QED  BY <3>1, FS_Subset, FS_CardinalityType
  <2>2. ASSUME NEW x, x \notin both PROVE Cardinality(both \cup {x}) = Cardinality(both) + 1
    BY <2>1, <2>2, FS_AddElement
  <2>3. i \notin both /\ n \notin both
    BY <1>1
  <2>4. /\ Places(s, a) = {k \in 1 .. n : s[k].asset = a}
        /\ Places(t, a) = {k \in 1 .. n - 1 : (IF k = i THEN s[n] ELSE s[k]).asset = a}
    <3>1. DOMAIN s = 1 .. n
      OBVIOUS
    <3>2. DOMAIN t = 1 .. n - 1 /\ \A k \in 1 .. n - 1 : t[k] = IF k = i THEN s[n] ELSE s[k]
      BY <1>2
    <3> QED  BY <3>1, <3>2 DEF Places
  <2>5. CASE i = n
    <3>1. Places(t, a) = both
      BY <1>1, <2>4, <2>5
    <3>2. Places(s, a) = IF s[i].asset = a THEN both \cup {n} ELSE both
      BY <1>1, <2>4, <2>5
    <3> QED  BY <2>1, <2>2, <2>3, <3>1, <3>2 DEF Count
  <2>6. CASE i # n
    <3> DEFINE others == IF s[n].asset = a THEN both \cup {n} ELSE both
    <3>1. Places(t, a) = IF s[n].asset = a THEN both \cup {i} ELSE both
      BY <1>1, <2>4, <2>6
    <3>2. Places(s, a) = IF s[i].asset = a THEN others \cup {i} ELSE others
      BY <1>1, <2>4, <2>6
    <3>3. IsFiniteSet(others) /\ i \notin others
      BY <2>1, <2>3, <2>6, FS_AddElement
    <3>4. Cardinality(others \cup {i}) = Cardinality(others) + 1
      BY <3>3, FS_AddElement
    <3>5. Cardinality(Places(t, a)) = Cardinality(others)
      BY <2>2, <2>3, <3>1
    <3>6. Cardinality(others) \in Nat
      BY <3>3, FS_CardinalityType
    <3> QED  BY <3>2, <3>4, <3>5, <3>6 DEF Count
  <2> QED  BY <2>5, <2>6
<1> QED  BY <1>3, <1>4 DEF t

\* Serving an output that has a hit takes one output of its asset.
LEMMA ServeCounts ==
    ASSUME NEW T, NEW s \in Seq(T), NEW o
    PROVE  /\ Serve(s, o) \in Seq(T)
           /\ Hits(s, o) # {} =>
                \A a : Count(s, a) = Count(Serve(s, o), a) + IF o.asset = a THEN 1 ELSE 0
<1>1. CASE Hits(s, o) = {}
  BY <1>1 DEF Serve
<1>2. CASE Hits(s, o) # {}
  <2>1. Hits(s, o) \in SUBSET Nat /\ Hits(s, o) \subseteq 1 .. Len(s)
    BY DEF Hits
  <2>2. PICK h \in Hits(s, o) : h = CHOOSE i \in Hits(s, o) : \A k \in Hits(s, o) : i <= k
    BY <1>2, <2>1, Least
  <2>3. Serve(s, o) = SwapRemove(s, h)
    BY <1>2, <2>2 DEF Serve
  <2>4. h \in 1 .. Len(s) /\ s[h].asset = o.asset
    BY <2>1 DEF Hits
  <2> QED  BY <2>3, <2>4, SwapRemoveCounts
<1> QED  BY <1>1, <1>2

\* The recursion of Available is well defined.
LEMMA AvailableDef ==
    ASSUME NEW fills, NEW T, NEW outputs \in Seq(T)
    PROVE  /\ Available(fills, outputs)[0] = fills
           /\ \A n \in 1 .. Len(outputs) :
                 Available(fills, outputs)[n] = Serve(Available(fills, outputs)[n - 1], outputs[n])
<1> DEFINE IsLeft(f, m) == f = [n \in 0 .. m |-> IF n = 0 THEN fills
                                               ELSE Serve(f[n - 1], outputs[n])]
           Defined == {m \in Nat : \E f : IsLeft(f, m)}
<1>1. 0 \in Defined
  <2>1. IsLeft([n \in 0 .. 0 |-> fills], 0)
    OBVIOUS
  <2> QED  BY <2>1
<1>2. ASSUME NEW m \in Defined PROVE m + 1 \in Defined
  <2>1. PICK f : IsLeft(f, m)
    OBVIOUS
  <2> DEFINE g == [n \in 0 .. m + 1 |-> IF n = m + 1 THEN Serve(f[m], outputs[m + 1]) ELSE f[n]]
  <2>2. \A n \in 0 .. m : f[n] = IF n = 0 THEN fills ELSE Serve(f[n - 1], outputs[n])
    BY <2>1
  <2>3. ASSUME NEW n \in 0 .. m + 1
        PROVE  g[n] = IF n = 0 THEN fills ELSE Serve(g[n - 1], outputs[n])
    <3>1. CASE n = m + 1
      BY <3>1
    <3>2. CASE n \in 0 .. m
      BY <2>2, <3>2
    <3> QED  BY <3>1, <3>2
  <2>4. IsLeft(g, m + 1)
    BY <2>3
  <2> QED  BY <2>4
<1>3. Defined = Nat
  <2> HIDE DEF Defined
  <2>1. Defined \in SUBSET Nat
    BY DEF Defined
  <2> QED  BY <1>1, <1>2, <2>1, SetInduction
<1>4. \E f : IsLeft(f, Len(outputs))
  BY <1>3
<1> DEFINE left == CHOOSE f : IsLeft(f, Len(outputs))
<1>5. IsLeft(left, Len(outputs))
  BY <1>4
<1>6. Available(fills, outputs) = left
  BY DEF Available
<1> HIDE DEF left
<1> QED  BY <1>5, <1>6

\* How many of the first n outputs are of the asset.
Served(outputs, n, a) == Cardinality({k \in 1 .. n : outputs[k].asset = a})

LEMMA ServedCounts ==
    ASSUME NEW T, NEW outputs \in Seq(T), NEW a
    PROVE  /\ Served(outputs, 0, a) = 0 /\ Served(outputs, Len(outputs), a) = Count(outputs, a)
           /\ \A n \in 0 .. Len(outputs) : /\ Served(outputs, n, a) \in Nat
                                           /\ Served(outputs, n, a) <= Count(outputs, a)
           /\ \A n \in 0 .. Len(outputs) - 1 :
                 Served(outputs, n + 1, a)
                   = Served(outputs, n, a) + IF outputs[n + 1].asset = a THEN 1 ELSE 0
<1> DEFINE first(n) == {k \in 1 .. n : outputs[k].asset = a}
<1>1. first(0) = {} /\ first(Len(outputs)) = Places(outputs, a)
  BY DEF Places
<1>2. ASSUME NEW n \in 0 .. Len(outputs)
      PROVE  /\ IsFiniteSet(first(n)) /\ Cardinality(first(n)) \in Nat
             /\ Cardinality(first(n)) <= Cardinality(Places(outputs, a))
  <2>1. first(n) \subseteq Places(outputs, a)
    BY DEF Places
  <2> QED  BY <2>1, Counts, FS_Subset, FS_CardinalityType
<1>3. ASSUME NEW n \in 0 .. Len(outputs) - 1
      PROVE  Cardinality(first(n + 1))
               = Cardinality(first(n)) + IF outputs[n + 1].asset = a THEN 1 ELSE 0
  <2>1. first(n + 1) = IF outputs[n + 1].asset = a THEN first(n) \cup {n + 1} ELSE first(n)
    OBVIOUS
  <2>2. n \in 0 .. Len(outputs) /\ n + 1 \notin first(n)
    OBVIOUS
  <2>3. IsFiniteSet(first(n)) /\ Cardinality(first(n)) \in Nat
    BY <1>2, <2>2
  <2>4. Cardinality(first(n) \cup {n + 1}) = Cardinality(first(n)) + 1
    BY <2>2, <2>3, FS_AddElement
  <2> HIDE DEF first
  <2> QED  BY <2>1, <2>3, <2>4
<1> QED  BY <1>1, <1>2, <1>3, FS_EmptySet DEF Served, Count

\* As long as each output found its own, what is available and what was served
\* are together the fill.
LEMMA LoopCounts ==
    ASSUME NEW T, NEW fills \in Seq(T), NEW outputs \in Seq(T), NEW n \in 0 .. Len(outputs),
           \A k \in 1 .. n : Hits(Available(fills, outputs)[k - 1], outputs[k]) # {}
    PROVE  /\ Available(fills, outputs)[n] \in Seq(T)
           /\ \A a : Count(fills, a) = Count(Available(fills, outputs)[n], a)
                                         + Served(outputs, n, a)
<1> DEFINE left == Available(fills, outputs)
           Holds(m) == left[m] \in Seq(T) /\ \A a : Count(fills, a) = Count(left[m], a)
                                                                       + Served(outputs, m, a)
           S == {m \in Nat : m <= n => Holds(m)}
<1>1. left[0] = fills /\ \A m \in 1 .. Len(outputs) : left[m] = Serve(left[m - 1], outputs[m])
  BY AvailableDef
<1> HIDE DEF left
<1>2. Holds(0)
  <2>1. \A a : Count(fills, a) \in Nat /\ Served(outputs, 0, a) = 0
    BY Counts, ServedCounts
  <2> QED  BY <1>1, <2>1
<1>3. ASSUME NEW m \in 0 .. n - 1, Holds(m) PROVE Holds(m + 1)
  <2>1. /\ m + 1 \in 1 .. n /\ m \in 0 .. Len(outputs) - 1
        /\ left[m + 1] = Serve(left[m], outputs[m + 1])
        /\ Hits(left[m], outputs[m + 1]) # {}
    <3>1. m + 1 \in 1 .. n /\ m + 1 \in 1 .. Len(outputs) /\ (m + 1) - 1 = m
      OBVIOUS
    <3> QED  BY <1>1, <3>1 DEF left
  <2>2. /\ left[m] \in Seq(T) /\ left[m + 1] \in Seq(T)
        /\ \A a : Count(left[m], a)
                    = Count(left[m + 1], a) + IF outputs[m + 1].asset = a THEN 1 ELSE 0
    <3>1. left[m] \in Seq(T)
      BY <1>3
    <3> DEFINE o == outputs[m + 1]
    <3>2. left[m + 1] = Serve(left[m], o) /\ Hits(left[m], o) # {}
      BY <2>1
    <3> HIDE DEF Holds, o
    <3>3. /\ Serve(left[m], o) \in Seq(T)
          /\ \A a : Count(left[m], a)
                      = Count(Serve(left[m], o), a) + IF o.asset = a THEN 1 ELSE 0
      BY <3>1, <3>2, ServeCounts
    <3> QED  BY <3>1, <3>2, <3>3 DEF o
  <2>3. ASSUME NEW a
        PROVE  Count(fills, a) = Count(left[m + 1], a) + Served(outputs, m + 1, a)
    <3>1. Count(left[m], a)
            = Count(left[m + 1], a) + IF outputs[m + 1].asset = a THEN 1 ELSE 0
      BY <2>2
    <3>2. Served(outputs, m + 1, a)
            = Served(outputs, m, a) + IF outputs[m + 1].asset = a THEN 1 ELSE 0
      BY <2>1, ServedCounts
    <3>3. Count(left[m + 1], a) \in Nat
      BY <2>2, Counts
    <3>4. Served(outputs, m, a) \in Nat
      <4>1. m \in 0 .. Len(outputs)
        BY <2>1
      <4> QED  BY <4>1, ServedCounts
    <3>5. Count(fills, a) = Count(left[m], a) + Served(outputs, m, a)
      BY <1>3
    <3> QED  BY <3>1, <3>2, <3>3, <3>4, <3>5
  <2> QED  BY <2>2, <2>3
<1>4. S = Nat
  <2> HIDE DEF Holds
  <2>1. 0 \in S
    BY <1>2
  <2>2. ASSUME NEW m \in S PROVE m + 1 \in S
    BY <1>3
  <2> HIDE DEF S
  <2>3. S \in SUBSET Nat
    BY DEF S
  <2> QED  BY <2>1, <2>2, <2>3, SetInduction
<1>5. Holds(n)
  <2> HIDE DEF Holds
  <2> QED  BY <1>4
<1> QED  BY <1>5 DEF left

\* The loop finds an output of its own for every output of the order exactly if
\* the fill's outputs are a superset of them as multisets: taking the first hit
\* and moving the last element into its place loses no match.
THEOREM LoopIsSuperset ==
    ASSUME NEW T, NEW fills \in Seq(T), NEW outputs \in Seq(T)
    PROVE  Covers(fills, outputs) <=> FillOutputsAreSuperset(fills, outputs)
<1> DEFINE left == Available(fills, outputs)
           HasHit(k) == Hits(left[k - 1], outputs[k]) # {}
<1>0. DOMAIN outputs = 1 .. Len(outputs) /\ Len(outputs) \in Nat
  OBVIOUS
<1>1. Covers(fills, outputs) <=> \A k \in 1 .. Len(outputs) : HasHit(k)
  BY <1>0 DEF Covers
<1>2. ASSUME NEW n \in 0 .. Len(outputs), \A k \in 1 .. n : HasHit(k), NEW a
      PROVE  /\ left[n] \in Seq(T) /\ Count(left[n], a) \in Nat
             /\ Count(fills, a) = Count(left[n], a) + Served(outputs, n, a)
  <2>1. left[n] \in Seq(T) /\ Count(fills, a) = Count(left[n], a) + Served(outputs, n, a)
    BY <1>2, LoopCounts
  <2> QED  BY <2>1, Counts
<1> HIDE DEF left, HasHit
<1>3. ASSUME Covers(fills, outputs), NEW a PROVE Count(outputs, a) <= Count(fills, a)
  <2> DEFINE n == Len(outputs)
  <2>1. n \in 0 .. Len(outputs) /\ \A k \in 1 .. n : HasHit(k)
    BY <1>0, <1>1, <1>3
  <2>2. /\ Count(left[n], a) \in Nat
        /\ Count(fills, a) = Count(left[n], a) + Served(outputs, n, a)
    BY <1>2, <2>1
  <2>3. Served(outputs, n, a) = Count(outputs, a) /\ Count(outputs, a) \in Nat
    BY ServedCounts, Counts
  <2> QED  BY <2>2, <2>3
<1>4. ASSUME \A a : Count(outputs, a) <= Count(fills, a), ~Covers(fills, outputs) PROVE FALSE
  <2> DEFINE misses == {k \in 1 .. Len(outputs) : ~HasHit(k)}
  <2>1. misses \in SUBSET Nat /\ misses # {}
    BY <1>0, <1>1, <1>4
  <2>2. PICK m \in misses : \A k \in misses : m <= k
    <3> HIDE DEF misses
    <3> QED  BY <2>1, Least
  <2> DEFINE n == m - 1
             a == outputs[m].asset
  <2>3. m \in 1 .. Len(outputs) /\ ~HasHit(m)
    OBVIOUS
  <2>4. n \in 0 .. Len(outputs) /\ n \in 0 .. Len(outputs) - 1 /\ n + 1 = m
        /\ m \in 0 .. Len(outputs)
    BY <1>0, <2>3
  <2>5. \A k \in 1 .. n : HasHit(k)
    BY <1>0, <2>2, <2>3
  <2>6. /\ left[n] \in Seq(T)
        /\ Count(fills, a) = Count(left[n], a) + Served(outputs, n, a)
    BY <1>2, <2>4, <2>5
  <2>7. Places(left[n], a) = {}
    BY <2>3 DEF Places, Hits, HasHit
  <2>8. Count(left[n], a) = 0
    BY <2>6, <2>7, Counts
  <2>9. Served(outputs, m, a) = Served(outputs, n, a) + 1
    <3>1. \A b : Served(outputs, n + 1, b)
                   = Served(outputs, n, b) + IF outputs[n + 1].asset = b THEN 1 ELSE 0
      BY <2>4, ServedCounts
    <3> QED  BY <2>4, <3>1
  <2>10. /\ Served(outputs, m, a) <= Count(outputs, a)
         /\ Served(outputs, n, a) \in Nat /\ Served(outputs, m, a) \in Nat
    BY <2>4, ServedCounts
  <2>11. Count(outputs, a) <= Count(fills, a) /\ Count(outputs, a) \in Nat
    BY <1>4, Counts
  <2> QED  BY <2>6, <2>8, <2>9, <2>10, <2>11
<1> QED  BY <1>3, <1>4, SupersetCounts

-----------------------------------------------------------------------------
(* The chains *)

OrderLogs == [block : Nat, tx : Txs, deadline : BOOLEAN, readable : BOOLEAN]

FilledLogs ==
    [chain : Chains, block : Nat, tx : Txs, outputs : Seq(Output), readable : BOOLEAN]

\* The two events of a transaction have the same place and block; a transaction
\* is mined once.
ChainOK ==
    /\ tip \in 0 .. MaxBlock /\ nonceUsed \in BOOLEAN
    /\ orderLogs \in Seq(OrderLogs) /\ filledLogs \in Seq(FilledLogs)
    /\ Len(filledLogs) = Len(orderLogs)
    /\ \A i \in 1 .. Len(orderLogs) :
          /\ orderLogs[i].block <= tip
          /\ orderLogs[i].tx = Own => orderLogs[i].deadline
          /\ filledLogs[i].tx = orderLogs[i].tx
          /\ filledLogs[i].block = BlockOn(filledLogs[i].chain, orderLogs[i].block)
          /\ filledLogs[i].outputs \in FillsOf[filledLogs[i].tx]
    /\ \A i, j \in 1 .. Len(orderLogs) : orderLogs[i].tx = orderLogs[j].tx => i = j

LEMMA ChainInitOK == ChainInit => ChainOK
<1> SUFFICES ASSUME ChainInit PROVE ChainOK
  OBVIOUS
<1>1. /\ orderLogs \in Seq(OrderLogs) /\ filledLogs \in Seq(FilledLogs)
      /\ Len(orderLogs) = 0 /\ Len(filledLogs) = 0
  BY DEF ChainInit
<1>2. MaxBlock \in Nat
  BY FillSearchAssumption
<1>3. tip \in 0 .. MaxBlock
  BY <1>2 DEF ChainInit
<1>4. nonceUsed \in BOOLEAN
  BY DEF ChainInit
<1> QED  BY <1>1, <1>3, <1>4 DEF ChainOK

\* A block is a sequence of transactions that were not mined before.
LEMMA BlockShape ==
    ASSUME NEW block \in NextBlocks
    PROVE  /\ Len(block) \in Nat /\ DOMAIN block = 1 .. Len(block)
           /\ \A i \in 1 .. Len(block) : /\ ~Mined(block[i].tx)
                                         /\ \E tx \in Txs : block[i] \in Inclusions(tx)
           /\ \A i, j \in 1 .. Len(block) : block[i].tx = block[j].tx => i = j
<1> DEFINE open == {tx \in Txs : ~Mined(tx) /\ (tx = Own => ~nonceUsed)}
           incs == UNION {Inclusions(tx) : tx \in open}
<1>1. ASSUME NEW a \in incs PROVE ~Mined(a.tx) /\ \E tx \in Txs : a \in Inclusions(tx)
  <2>1. PICK tx \in open : a \in Inclusions(tx)
    OBVIOUS
  <2>2. a.tx = tx
    BY <2>1 DEF Inclusions
  <2> QED  BY <2>1, <2>2
<1>2. \/ block = <<>>
      \/ \E a \in incs : block = <<a>>
      \/ \E a, b \in incs : a.tx # b.tx /\ block = <<a, b>>
  BY DEF NextBlocks
<1> HIDE DEF incs
<1>3. CASE block = <<>>
  BY <1>3
<1>4. ASSUME NEW a \in incs, block = <<a>>
      PROVE  Len(block) = 1 /\ DOMAIN block = 1 .. 1 /\ block[1] = a
  BY <1>4
<1>5. ASSUME NEW a \in incs, NEW b \in incs, block = <<a, b>>
      PROVE  Len(block) = 2 /\ DOMAIN block = 1 .. 2 /\ block[1] = a /\ block[2] = b
  BY <1>5
<1> QED  BY <1>1, <1>2, <1>3, <1>4, <1>5

LEMMA LogFields ==
    ASSUME NEW inc, NEW k
    PROVE  /\ OrderLog(inc, k).block = k /\ OrderLog(inc, k).tx = inc.tx
           /\ OrderLog(inc, k).deadline = inc.deadline
           /\ FilledLog(inc, k).chain = inc.chain /\ FilledLog(inc, k).tx = inc.tx
           /\ FilledLog(inc, k).block = BlockOn(inc.chain, k)
           /\ FilledLog(inc, k).outputs = inc.outputs
BY Zenon DEF OrderLog, FilledLog

\* The logs after a block: those before it, and then those of its transactions.
LEMMA Appended ==
    ASSUME ChainOK, NEW block \in NextBlocks, Mine(block), NEW n, n = Len(orderLogs)
    PROVE  /\ n \in Nat /\ Len(block) \in Nat
           /\ Len(orderLogs') = n + Len(block) /\ Len(filledLogs') = n + Len(block)
           /\ \A i \in 1 .. n : orderLogs'[i] = orderLogs[i] /\ filledLogs'[i] = filledLogs[i]
           /\ \A i \in n + 1 .. n + Len(block) :
                 /\ i - n \in 1 .. Len(block)
                 /\ orderLogs'[i] = OrderLog(block[i - n], tip + 1)
                 /\ filledLogs'[i] = FilledLog(block[i - n], tip + 1)
           /\ orderLogs' \in Seq(OrderLogs) /\ filledLogs' \in Seq(FilledLogs)
<1> DEFINE orders == [i \in DOMAIN block |-> OrderLog(block[i], tip + 1)]
           fills == [i \in DOMAIN block |-> FilledLog(block[i], tip + 1)]
<1>1. /\ orderLogs \in Seq(OrderLogs) /\ filledLogs \in Seq(FilledLogs)
      /\ Len(filledLogs) = n /\ n \in Nat /\ tip \in Nat
  BY DEF ChainOK
<1>2. /\ Len(block) \in Nat /\ DOMAIN block = 1 .. Len(block)
      /\ \A i \in 1 .. Len(block) : \E tx \in Txs : block[i] \in Inclusions(tx)
  BY BlockShape
<1>3. HostOffset \in Nat /\ \A tx \in Txs : FillsOf[tx] \subseteq Seq(Output)
  BY FillSearchAssumption
<1>4. ASSUME NEW i \in 1 .. Len(block)
      PROVE  /\ OrderLog(block[i], tip + 1) \in OrderLogs
             /\ FilledLog(block[i], tip + 1) \in FilledLogs
  <2>1. PICK tx \in Txs : block[i] \in Inclusions(tx)
    BY <1>2
  <2>2. /\ block[i].tx = tx /\ block[i].deadline \in BOOLEAN /\ block[i].chain \in Chains
        /\ block[i].outputs \in FillsOf[tx]
    BY <2>1 DEF Inclusions
  <2>3. block[i].outputs \in Seq(Output)
    BY <1>3, <2>2
  <2>4. tip + 1 \in Nat /\ BlockOn(block[i].chain, tip + 1) \in Nat
    BY <1>1, <1>3 DEF BlockOn
  <2>5. (block[i].unreadable # "Order") \in BOOLEAN /\ (block[i].unreadable # "Filled") \in BOOLEAN
    OBVIOUS
  <2>6. OrderLog(block[i], tip + 1) \in OrderLogs
    BY <2>1, <2>2, <2>4, <2>5, Zenon DEF OrderLog, OrderLogs
  <2>7. FilledLog(block[i], tip + 1) \in FilledLogs
    BY <2>1, <2>2, <2>3, <2>4, <2>5, Zenon DEF FilledLog, FilledLogs
  <2> QED  BY <2>6, <2>7
<1>5. /\ orders \in Seq(OrderLogs) /\ Len(orders) = Len(block)
      /\ fills \in Seq(FilledLogs) /\ Len(fills) = Len(block)
  BY <1>2, <1>4, IsASeq, LenProperties
<1>6. orderLogs' = orderLogs \o orders /\ filledLogs' = filledLogs \o fills
  BY DEF Mine
<1>7. \A i \in 1 .. Len(block) : /\ orders[i] = OrderLog(block[i], tip + 1)
                                 /\ fills[i] = FilledLog(block[i], tip + 1)
  BY <1>2
<1> HIDE DEF orders, fills
<1>8. /\ orderLogs \o orders \in Seq(OrderLogs)
      /\ Len(orderLogs \o orders) = Len(orderLogs) + Len(orders)
      /\ \A i \in 1 .. Len(orderLogs) + Len(orders) :
            (orderLogs \o orders)[i]
              = IF i <= Len(orderLogs) THEN orderLogs[i] ELSE orders[i - Len(orderLogs)]
  <2>1. orderLogs \in Seq(OrderLogs) /\ orders \in Seq(OrderLogs)
    BY <1>1, <1>5
  <2> QED  BY ONLY <2>1, ConcatProperties
<1>9. /\ filledLogs \o fills \in Seq(FilledLogs)
      /\ Len(filledLogs \o fills) = Len(filledLogs) + Len(fills)
      /\ \A i \in 1 .. Len(filledLogs) + Len(fills) :
            (filledLogs \o fills)[i]
              = IF i <= Len(filledLogs) THEN filledLogs[i] ELSE fills[i - Len(filledLogs)]
  <2>1. filledLogs \in Seq(FilledLogs) /\ fills \in Seq(FilledLogs)
    BY <1>1, <1>5
  <2> QED  BY ONLY <2>1, ConcatProperties
<1>10. /\ orderLogs' \in Seq(OrderLogs) /\ Len(orderLogs') = n + Len(block)
       /\ \A i \in 1 .. n + Len(block) :
             orderLogs'[i] = IF i <= n THEN orderLogs[i] ELSE orders[i - n]
  BY ONLY <1>5, <1>6, <1>8, n = Len(orderLogs)
<1>11. /\ filledLogs' \in Seq(FilledLogs) /\ Len(filledLogs') = n + Len(block)
       /\ \A i \in 1 .. n + Len(block) :
             filledLogs'[i] = IF i <= n THEN filledLogs[i] ELSE fills[i - n]
  BY ONLY <1>1, <1>5, <1>6, <1>9
<1>12. ASSUME NEW i \in 1 .. n
       PROVE  orderLogs'[i] = orderLogs[i] /\ filledLogs'[i] = filledLogs[i]
  <2>1. i \in 1 .. n + Len(block) /\ i <= n
    BY ONLY <1>1, <1>2, i \in 1 .. n
  <2> QED  BY ONLY <1>10, <1>11, <2>1
<1>13. ASSUME NEW i \in n + 1 .. n + Len(block)
       PROVE  /\ i - n \in 1 .. Len(block)
              /\ orderLogs'[i] = OrderLog(block[i - n], tip + 1)
              /\ filledLogs'[i] = FilledLog(block[i - n], tip + 1)
  <2>1. i \in 1 .. n + Len(block) /\ ~(i <= n) /\ i - n \in 1 .. Len(block)
    BY ONLY <1>1, <1>2, i \in n + 1 .. n + Len(block)
  <2> QED  BY ONLY <1>7, <1>10, <1>11, <2>1
<1> QED  BY ONLY <1>1, <1>2, <1>10, <1>11, <1>12, <1>13

LEMMA MineOK ==
    ASSUME ChainOK, NEW block \in NextBlocks, Mine(block) PROVE ChainOK'
<1> DEFINE n == Len(orderLogs)
           m == Len(block)
<1>1. /\ n \in Nat /\ m \in Nat
      /\ Len(orderLogs') = n + m /\ Len(filledLogs') = n + m
      /\ \A i \in 1 .. n : orderLogs'[i] = orderLogs[i] /\ filledLogs'[i] = filledLogs[i]
      /\ \A i \in n + 1 .. n + m :
            /\ i - n \in 1 .. m
            /\ orderLogs'[i] = OrderLog(block[i - n], tip + 1)
            /\ filledLogs'[i] = FilledLog(block[i - n], tip + 1)
      /\ orderLogs' \in Seq(OrderLogs) /\ filledLogs' \in Seq(FilledLogs)
  BY Appended
<1>2. /\ tip \in Nat /\ MaxBlock \in Nat /\ tip' = tip + 1 /\ tip' \in 0 .. MaxBlock
      /\ nonceUsed' \in BOOLEAN
  BY FillSearchAssumption DEF ChainOK, Mine
<1>3. ASSUME NEW k \in 1 .. m
      PROVE  /\ block[k].tx \in Txs /\ ~Mined(block[k].tx)
             /\ block[k].tx = Own => block[k].deadline
             /\ block[k].outputs \in FillsOf[block[k].tx]
  <2>1. PICK tx \in Txs : block[k] \in Inclusions(tx)
    BY BlockShape
  <2>2. /\ block[k].tx = tx /\ block[k].outputs \in FillsOf[tx]
        /\ tx = Own => block[k].deadline = TRUE
    BY <2>1 DEF Inclusions
  <2> QED  BY <2>1, <2>2, BlockShape
<1>4. \A i, j \in 1 .. m : block[i].tx = block[j].tx => i = j
  BY BlockShape
<1> HIDE DEF n, m
<1>5. \A i \in 1 .. n + m : i \in 1 .. n \/ i \in n + 1 .. n + m
  BY <1>1
<1>6. ASSUME NEW i \in 1 .. n + m
      PROVE  /\ orderLogs'[i].block <= tip'
             /\ orderLogs'[i].tx = Own => orderLogs'[i].deadline
             /\ filledLogs'[i].tx = orderLogs'[i].tx
             /\ filledLogs'[i].block = BlockOn(filledLogs'[i].chain, orderLogs'[i].block)
             /\ filledLogs'[i].outputs \in FillsOf[filledLogs'[i].tx]
  <2>1. CASE i \in 1 .. n
    <3>1. orderLogs[i].block \in Nat /\ orderLogs[i].block <= tip
      <4>1. orderLogs[i] \in OrderLogs /\ orderLogs[i].block <= tip
        BY <2>1 DEF ChainOK, n
      <4> QED  BY <4>1 DEF OrderLogs
    <3> QED  BY <1>1, <1>2, <2>1, <3>1 DEF ChainOK, n
  <2>2. CASE i \in n + 1 .. n + m
    BY <1>1, <1>2, <1>3, <2>2, LogFields
  <2> QED  BY <1>5, <2>1, <2>2
<1>7. ASSUME NEW i \in 1 .. n + m, NEW j \in 1 .. n + m, orderLogs'[i].tx = orderLogs'[j].tx
      PROVE  i = j
  <2>1. \A k \in 1 .. n : Mined(orderLogs[k].tx)
    BY DEF Mined, ChainOK, n
  <2>2. \A k \in n + 1 .. n + m : orderLogs'[k].tx = block[k - n].tx
    BY <1>1, LogFields
  <2>3. CASE i \in 1 .. n /\ j \in 1 .. n
    BY <1>1, <1>7, <2>3 DEF ChainOK, n
  <2>4. CASE i \in n + 1 .. n + m /\ j \in n + 1 .. n + m
    <3>1. i - n = j - n
      BY <1>1, <1>4, <1>7, <2>2, <2>4
    <3> QED  BY <1>1, <2>4, <3>1
  <2>5. CASE i \in 1 .. n /\ j \in n + 1 .. n + m
    BY <1>1, <1>3, <1>7, <2>1, <2>2, <2>5
  <2>6. CASE i \in n + 1 .. n + m /\ j \in 1 .. n
    BY <1>1, <1>3, <1>7, <2>1, <2>2, <2>6
  <2> QED  BY <1>5, <2>3, <2>4, <2>5, <2>6
<1> QED  BY <1>1, <1>2, <1>6, <1>7 DEF ChainOK

-----------------------------------------------------------------------------
(* The searches *)

\* The places of the events that match, of which First takes the least.
FillHits(chain, block) ==
    {i \in DOMAIN filledLogs :
        /\ filledLogs[i].chain = chain /\ filledLogs[i].block = block
        /\ filledLogs[i].readable /\ Covers(filledLogs[i].outputs, Outputs)}

InitiationHits(last) ==
    {i \in DOMAIN orderLogs : /\ InWindow(orderLogs[i].block, last)
                              /\ orderLogs[i].readable /\ orderLogs[i].deadline}

LEMMA FindFillEventsHits ==
    ASSUME NEW chain, NEW block
    PROVE  FindFillEvents(chain, block)
             = {filledLogs[i] : i \in {h \in FillHits(chain, block) :
                                         \A k \in FillHits(chain, block) : h <= k}}
BY DEF FindFillEvents, First, FillHits

LEMMA FindInitiationHits ==
    ASSUME NEW last
    PROVE  FindOrderInitiation(last)
             = {orderLogs[i] : i \in {h \in InitiationHits(last) :
                                        \A k \in InitiationHits(last) : h <= k}}
BY DEF FindOrderInitiation, First, InitiationHits

LEMMA FoundFill ==
    ASSUME ChainOK, NEW chain, NEW block
    PROVE  /\ \A f \in FindFillEvents(chain, block) :
                 /\ f \in FilledLogs /\ f.chain = chain /\ f.block = block
                 /\ Covers(f.outputs, Outputs)
           /\ FillHits(chain, block) # {} => FindFillEvents(chain, block) # {}
<1>1. filledLogs \in Seq(FilledLogs)
  BY DEF ChainOK
<1>2. FillHits(chain, block) \in SUBSET Nat
  BY <1>1 DEF FillHits
<1>3. ASSUME NEW f \in FindFillEvents(chain, block)
      PROVE  /\ f \in FilledLogs /\ f.chain = chain /\ f.block = block
             /\ Covers(f.outputs, Outputs)
  <2>1. PICK i \in FillHits(chain, block) : f = filledLogs[i]
    BY FindFillEventsHits
  <2>2. /\ i \in DOMAIN filledLogs /\ f.chain = chain /\ f.block = block
        /\ Covers(f.outputs, Outputs)
    BY <2>1 DEF FillHits
  <2> QED  BY <1>1, <2>1, <2>2
<1>4. ASSUME FillHits(chain, block) # {} PROVE FindFillEvents(chain, block) # {}
  <2>1. PICK h \in FillHits(chain, block) : \A k \in FillHits(chain, block) : h <= k
    BY <1>2, <1>4, Least
  <2> QED  BY <2>1, FindFillEventsHits
<1> QED  BY <1>3, <1>4

LEMMA FoundInitiation ==
    ASSUME ChainOK, NEW last \in Nat
    PROVE  /\ \A o \in FindOrderInitiation(last) :
                 o \in OrderLogs /\ o.deadline /\ o.block <= last
           /\ \A i \in InitiationHits(last) :
                 (\A k \in 1 .. i - 1 : k \notin InitiationHits(last))
                    => FindOrderInitiation(last) = {orderLogs[i]}
<1>1. orderLogs \in Seq(OrderLogs)
  BY DEF ChainOK
<1>2. InitiationHits(last) \in SUBSET Nat /\ InitiationHits(last) \subseteq 1 .. Len(orderLogs)
  BY <1>1 DEF InitiationHits
<1>3. ASSUME NEW o \in FindOrderInitiation(last)
      PROVE  o \in OrderLogs /\ o.deadline /\ o.block <= last
  <2>1. PICK i \in InitiationHits(last) : o = orderLogs[i]
    BY FindInitiationHits
  <2>2. i \in DOMAIN orderLogs /\ o.deadline /\ o.block <= last
    BY <2>1 DEF InitiationHits, InWindow
  <2> QED  BY <1>1, <2>1, <2>2
<1>4. ASSUME NEW i \in InitiationHits(last), \A k \in 1 .. i - 1 : k \notin InitiationHits(last)
      PROVE  FindOrderInitiation(last) = {orderLogs[i]}
  <2>1. \A k \in InitiationHits(last) : i <= k
    BY <1>2, <1>4
  <2>2. {h \in InitiationHits(last) : \A k \in InitiationHits(last) : h <= k} = {i}
    BY <1>2, <2>1
  <2> QED  BY <2>2, FindInitiationHits
<1> QED  BY <1>3, <1>4

\* What is mined later changes no answer about the blocks up to the tip.
LEMMA SearchesStable ==
    ASSUME ChainOK, NEW block \in NextBlocks, Mine(block)
    PROVE  /\ \A b \in 0 .. tip :
                 FindFillEvents("rollup", b)' = FindFillEvents("rollup", b)
           /\ \A last \in 0 .. tip :
                 FindOrderInitiation(last)' = FindOrderInitiation(last)
<1> DEFINE n == Len(orderLogs)
           m == Len(block)
<1>1. /\ n \in Nat /\ m \in Nat
      /\ Len(orderLogs') = n + m /\ Len(filledLogs') = n + m
      /\ \A i \in 1 .. n : orderLogs'[i] = orderLogs[i] /\ filledLogs'[i] = filledLogs[i]
      /\ \A i \in n + 1 .. n + m :
            /\ i - n \in 1 .. m
            /\ orderLogs'[i] = OrderLog(block[i - n], tip + 1)
            /\ filledLogs'[i] = FilledLog(block[i - n], tip + 1)
      /\ orderLogs' \in Seq(OrderLogs) /\ filledLogs' \in Seq(FilledLogs)
  BY Appended
<1>2. /\ tip \in Nat /\ DOMAIN orderLogs = 1 .. n /\ DOMAIN filledLogs = 1 .. n
  BY DEF ChainOK
<1> HIDE DEF n, m
<1>3. DOMAIN orderLogs' = 1 .. n + m /\ DOMAIN filledLogs' = 1 .. n + m
  BY <1>1
<1>4. /\ \A i \in 1 .. n + m : i \in 1 .. n \/ i \in n + 1 .. n + m
      /\ \A i \in 1 .. n : i \in 1 .. n + m
  BY <1>1
<1>5. ASSUME NEW i \in n + 1 .. n + m
      PROVE  /\ orderLogs'[i].block = tip + 1
             /\ filledLogs'[i].chain = "rollup" => filledLogs'[i].block = tip + 1
  BY <1>1, LogFields DEF BlockOn
<1>6. ASSUME NEW b \in 0 .. tip
      PROVE  FindFillEvents("rollup", b)' = FindFillEvents("rollup", b)
  <2> DEFINE hits == FillHits("rollup", b)
  <2>1. hits = {i \in 1 .. n :
                  /\ filledLogs[i].chain = "rollup" /\ filledLogs[i].block = b
                  /\ filledLogs[i].readable /\ Covers(filledLogs[i].outputs, Outputs)}
    BY <1>2 DEF FillHits
  <2>2. hits' = {i \in 1 .. n + m :
                   /\ filledLogs'[i].chain = "rollup" /\ filledLogs'[i].block = b
                   /\ filledLogs'[i].readable /\ Covers(filledLogs'[i].outputs, Outputs)}
    BY <1>3 DEF FillHits
  <2>3. \A i \in n + 1 .. n + m : i \notin hits'
    BY <1>2, <1>5, <2>2
  <2>4. hits' = hits
    BY <1>1, <1>4, <2>1, <2>2, <2>3
  <2>5. \A i \in hits : filledLogs'[i] = filledLogs[i]
    BY <1>1, <2>1
  <2>6. FindFillEvents("rollup", b)
          = {filledLogs[i] : i \in {h \in hits : \A k \in hits : h <= k}}
    BY FindFillEventsHits
  <2>7. FindFillEvents("rollup", b)'
          = {filledLogs'[i] : i \in {h \in hits' : \A k \in hits' : h <= k}}
    BY DEF FindFillEvents, First, FillHits
  <2> HIDE DEF hits
  <2> QED  BY <2>4, <2>5, <2>6, <2>7
<1>7. ASSUME NEW last \in 0 .. tip
      PROVE  FindOrderInitiation(last)' = FindOrderInitiation(last)
  <2> DEFINE hits == InitiationHits(last)
  <2>1. hits = {i \in 1 .. n : /\ InWindow(orderLogs[i].block, last)
                               /\ orderLogs[i].readable /\ orderLogs[i].deadline}
    BY <1>2 DEF InitiationHits
  <2>2. hits' = {i \in 1 .. n + m : /\ InWindow(orderLogs'[i].block, last)
                                    /\ orderLogs'[i].readable /\ orderLogs'[i].deadline}
    BY <1>3 DEF InitiationHits
  <2>3. \A i \in n + 1 .. n + m : i \notin hits'
    BY <1>2, <1>5, <2>2 DEF InWindow
  <2>4. hits' = hits
    BY <1>1, <1>4, <2>1, <2>2, <2>3
  <2>5. \A i \in hits : orderLogs'[i] = orderLogs[i]
    BY <1>1, <2>1
  <2>6. FindOrderInitiation(last)
          = {orderLogs[i] : i \in {h \in hits : \A k \in hits : h <= k}}
    BY FindInitiationHits
  <2>7. FindOrderInitiation(last)'
          = {orderLogs'[i] : i \in {h \in hits' : \A k \in hits' : h <= k}}
    BY DEF FindOrderInitiation, First, InitiationHits
  <2> HIDE DEF hits
  <2> QED  BY <2>4, <2>5, <2>6, <2>7
<1> QED  BY <1>6, <1>7
=============================================================================
