------------------------- MODULE FairAllocatorProofs -------------------------
(***************************************************************************)
(* Proofs about the DRAM buffer allocator, for every number of pages,      *)
(* processes and controllers that the assumptions of FairAllocator allow.  *)
(***************************************************************************)
EXTENDS FairAllocator, FiniteSetTheorems, SequenceTheorems, TLAPS

-----------------------------------------------------------------------------
(* Lists without duplicates.                                               *)

\* The blocks Release picks form a duplicate-free list.
LEMMA VictimsAreList ==
    ASSUME NEW S, NEW A \in SUBSET S, NEW n \in Nat, NEW v \in Injection(1 .. n, A)
    PROVE  v \in Seq(S) /\ Len(v) = n /\ IsInjective(v) /\ Range(v) \subseteq A
<1>1. v \in [1 .. n -> A] /\ IsInjective(v)
  BY DEF Injection
<1>2. v \in Seq(S) /\ Len(v) = n
  BY <1>1
<1>3. Range(v) \subseteq A
  BY <1>1 DEF Range
<1> QED BY <1>1, <1>2, <1>3

\* What push_back of a duplicate-free batch of new blocks does to a list.
LEMMA AppendBatch ==
    ASSUME NEW S, NEW s \in Seq(S), NEW v \in Seq(S),
           IsInjective(s), IsInjective(v), Range(s) \cap Range(v) = {}
    PROVE  /\ s \o v \in Seq(S)
           /\ Len(s \o v) = Len(s) + Len(v)
           /\ IsInjective(s \o v)
           /\ Range(s \o v) = Range(s) \cup Range(v)
<1> DEFINE n == Len(v)
<1>1. /\ v \in [1 .. n -> S]
      /\ \A a, b \in 1 .. n : v[a] = v[b] => a = b
  BY LenProperties DEF IsInjective
<1>3. /\ s \o v \in Seq(S)
      /\ Len(s \o v) = Len(s) + n
      /\ \A k \in 1 .. Len(s) + n : (s \o v)[k] = IF k <= Len(s) THEN s[k] ELSE v[k - Len(s)]
  BY ConcatProperties
<1>4. /\ DOMAIN s = 1 .. Len(s) /\ DOMAIN v = 1 .. n /\ DOMAIN (s \o v) = 1 .. Len(s) + n
      /\ Len(s) \in Nat /\ n \in Nat
  BY <1>1, <1>3, LenProperties
<1> HIDE DEF n
<1>6. IsInjective(s \o v)
  <2> SUFFICES ASSUME NEW a \in 1 .. Len(s) + n, NEW b \in 1 .. Len(s) + n,
                      (s \o v)[a] = (s \o v)[b]
               PROVE  a = b
    BY <1>4 DEF IsInjective
  <2>1. CASE a <= Len(s) /\ b <= Len(s)
    BY <2>1, <1>3, <1>4 DEF IsInjective
  <2>2. CASE a > Len(s) /\ b > Len(s)
    BY <2>2, <1>1, <1>3, <1>4
  <2>3. CASE a <= Len(s) /\ b > Len(s)
    <3>1. s[a] \in Range(s) /\ v[b - Len(s)] \in Range(v)
      BY <2>3, <1>1, <1>4 DEF Range
    <3> QED BY <2>3, <3>1, <1>3
  <2>4. CASE a > Len(s) /\ b <= Len(s)
    <3>1. s[b] \in Range(s) /\ v[a - Len(s)] \in Range(v)
      BY <2>4, <1>1, <1>4 DEF Range
    <3> QED BY <2>4, <3>1, <1>3
  <2> QED BY <2>1, <2>2, <2>3, <2>4, <1>4
<1>7. Range(s \o v) = Range(s) \cup Range(v)
  <2>1. ASSUME NEW x \in Range(s \o v) PROVE x \in Range(s) \cup Range(v)
    <3>1. PICK k \in 1 .. Len(s) + n : x = (s \o v)[k]
      BY <2>1, <1>4 DEF Range
    <3>2. CASE k <= Len(s)
      BY <3>1, <3>2, <1>3, <1>4 DEF Range
    <3>3. CASE k > Len(s)
      <4>1. x = v[k - Len(s)] /\ k - Len(s) \in 1 .. n
        BY <3>1, <3>3, <1>3, <1>4
      <4> QED BY <4>1, <1>4 DEF Range
    <3> QED BY <3>2, <3>3, <1>4
  <2>2. ASSUME NEW x \in Range(s) PROVE x \in Range(s \o v)
    <3>1. PICK k \in 1 .. Len(s) : x = s[k]
      BY <2>2, <1>4 DEF Range
    <3>2. x = (s \o v)[k] /\ k \in 1 .. Len(s) + n
      BY <3>1, <1>3, <1>4
    <3> QED BY <3>2, <1>4 DEF Range
  <2>3. ASSUME NEW x \in Range(v) PROVE x \in Range(s \o v)
    <3>1. PICK k \in 1 .. n : x = v[k]
      BY <2>3, <1>4 DEF Range
    <3>2. x = (s \o v)[Len(s) + k] /\ Len(s) + k \in 1 .. Len(s) + n
      BY <3>1, <1>3, <1>4
    <3> QED BY <3>2, <1>4 DEF Range
  <2> QED BY <2>1, <2>2, <2>3
<1> QED BY <1>3, <1>6, <1>7 DEF n

\* What pop_front does to a duplicate-free list.
LEMMA PopFront ==
    ASSUME NEW S, NEW s \in Seq(S), s # <<>>, IsInjective(s)
    PROVE  /\ Tail(s) \in Seq(S)
           /\ Len(Tail(s)) = Len(s) - 1
           /\ IsInjective(Tail(s))
           /\ Head(s) \in Range(s)
           /\ Range(Tail(s)) = Range(s) \ {Head(s)}
<1>1. /\ Tail(s) \in Seq(S)
      /\ Len(Tail(s)) = Len(s) - 1
      /\ \A k \in 1 .. Len(s) - 1 : Tail(s)[k] = s[k + 1]
  BY HeadTailProperties
<1>2. DOMAIN s = 1 .. Len(s) /\ DOMAIN Tail(s) = 1 .. Len(s) - 1 /\ Len(s) \in Nat \ {0}
  BY <1>1, LenProperties, EmptySeq
<1>3. Head(s) = s[1]
  OBVIOUS
<1>4. \A a, b \in 1 .. Len(s) : s[a] = s[b] => a = b
  BY <1>2 DEF IsInjective
<1>5. IsInjective(Tail(s))
  BY <1>1, <1>2, <1>4 DEF IsInjective
<1>6. Head(s) \in Range(s)
  BY <1>2, <1>3 DEF Range
<1>7. ASSUME NEW x \in Range(Tail(s)) PROVE x \in Range(s) \ {Head(s)}
  <2>1. PICK k \in 1 .. Len(s) - 1 : x = Tail(s)[k]
    BY <1>2 DEF Range
  <2>2. x = s[k + 1] /\ k + 1 \in 1 .. Len(s) /\ k + 1 # 1
    BY <2>1, <1>1, <1>2
  <2>3. x # s[1]
    BY <2>2, <1>2, <1>4
  <2> QED BY <2>2, <2>3, <1>2, <1>3 DEF Range
<1>8. ASSUME NEW x \in Range(s) \ {Head(s)} PROVE x \in Range(Tail(s))
  <2>1. PICK k \in 1 .. Len(s) : x = s[k]
    BY <1>2 DEF Range
  <2>2. k - 1 \in 1 .. Len(s) - 1 /\ x = Tail(s)[k - 1]
    BY <2>1, <1>1, <1>2, <1>3
  <2> QED BY <2>2, <1>2 DEF Range
<1> QED BY <1>1, <1>5, <1>6, <1>7, <1>8

\* Two disjoint duplicate-free lists of blocks have together at most
\* total_page_count entries.
LEMMA ListsFit ==
    ASSUME NEW s \in Seq(Blocks), NEW t \in Seq(Blocks),
           IsInjective(s), IsInjective(t), Range(s) \cap Range(t) = {}
    PROVE  Len(s) + Len(t) <= TotalPages
<1>1. Len(s) \in Nat /\ Len(t) \in Nat
  BY LenProperties
<1>3. s \o t \in Seq(Blocks) /\ Len(s \o t) = Len(s) + Len(t) /\ IsInjective(s \o t)
  BY AppendBatch
<1> DEFINE n == Len(s) + Len(t)
<1>4. s \o t \in Injection(1 .. n, Blocks)
  BY <1>3, LenProperties DEF Injection
<1>5. IsFiniteSet(Blocks) /\ Cardinality(Blocks) = TotalPages
  BY FS_Interval, PagesAssumption DEF Blocks
<1>6. Cardinality(1 .. n) = n
  BY FS_Interval, <1>1
<1>7. Cardinality(1 .. n) <= Cardinality(Blocks)
  BY <1>4, <1>5, FS_Injection
<1> QED BY <1>5, <1>6, <1>7

-----------------------------------------------------------------------------
(* Types and the partition, for any number of controllers.                 *)

LoopIndex == \A c \in Controllers : pc[c] \in {"second", "release"} => i[c] < NumProcs

Structure == TypeOK /\ PoolsPartitionBlocks /\ LoopIndex

LEMMA PoolCardinality ==
    ASSUME TypeOK, NEW p \in Procs
    PROVE  /\ IsFiniteSet(clean_pools[p]) /\ Cardinality(clean_pools[p]) \in Nat
           /\ IsFiniteSet(dirty_pools[p]) /\ Cardinality(dirty_pools[p]) \in Nat
<1>1. IsFiniteSet(Blocks)
  BY FS_Interval, PagesAssumption DEF Blocks
<1>2. clean_pools[p] \in SUBSET Blocks /\ dirty_pools[p] \in SUBSET Blocks
  BY DEF TypeOK
<1> QED BY <1>1, <1>2, FS_Subset, FS_CardinalityType

LEMMA InitStructure == Init => Structure
<1> SUFFICES ASSUME Init PROVE Structure
  OBVIOUS
<1> USE PagesAssumption, ProcsAssumption
<1>1. /\ global_clean_pool \in Seq(Blocks)
      /\ Len(global_clean_pool) = TotalPages
      /\ DOMAIN global_clean_pool = 1 .. TotalPages
      /\ \A k \in 1 .. TotalPages : global_clean_pool[k] = k - 1
  BY DEF Init, Blocks
<1>2. IsInjective(global_clean_pool)
  BY <1>1 DEF IsInjective
<1>3. Range(global_clean_pool) = Blocks
  <2>1. ASSUME NEW b \in Blocks PROVE b \in Range(global_clean_pool)
    <3>1. b + 1 \in 1 .. TotalPages /\ global_clean_pool[b + 1] = b
      BY <1>1 DEF Blocks
    <3> QED BY <3>1, <1>1 DEF Range
  <2>2. ASSUME NEW x \in Range(global_clean_pool) PROVE x \in Blocks
    BY <1>1 DEF Range, Blocks
  <2> QED BY <2>1, <2>2
<1>4. IsInjective(global_dirty_pool) /\ Range(global_dirty_pool) = {} /\ Len(global_dirty_pool) = 0
  BY DEF Init, IsInjective, Range
<1>5. TypeOK
  BY <1>1, 0 \in Procs DEF Init, TypeOK, PCs, Procs
<1>6. \A p \in Procs : clean_pools[p] \cup dirty_pools[p] = {} /\ clean_pools[p] \cap dirty_pools[p] = {}
  BY DEF Init
<1>7. busy_pages = TotalPages - Len(global_clean_pool) - Len(global_dirty_pool)
  BY <1>1, <1>4 DEF Init
<1>8. PoolsPartitionBlocks
  BY <1>2, <1>3, <1>4, <1>6, <1>7 DEF PoolsPartitionBlocks
<1>9. LoopIndex
  BY DEF Init, LoopIndex
<1> QED BY <1>5, <1>8, <1>9 DEF Structure

\* The shares equal_evict computes are positive numbers.
LEMMA ReleaseSizesType ==
    ASSUME NEW busy \in Nat, NEW reclaim \in Nat, NEW r \in ReleaseSizes(busy, reclaim)
    PROVE  r \in Nat /\ r >= 1
<1>1. busy * reclaim \in Nat
  OBVIOUS
<1>2. (busy * reclaim) \div TotalPages \in Nat
  BY <1>1, PagesAssumption
<1> QED BY <1>2 DEF ReleaseSizes

LEMMA ReleaseStructure ==
    ASSUME Structure, NEW c \in Controllers, Release(c)
    PROVE  Structure'
<1> DEFINE p == i[c]
           nclean == Smaller(release_size[c], Cardinality(clean_pools[p]))
           ndirty == release_size[c] - nclean
<1>1. TypeOK /\ PoolsPartitionBlocks /\ LoopIndex /\ i[c] < NumProcs
  BY DEF Structure, LoopIndex, Release
<1>2. p \in Procs /\ release_size[c] \in Nat
  BY <1>1, ProcsAssumption DEF TypeOK, Procs
<1>3. nclean \in Nat /\ ndirty \in Nat
  BY <1>1, <1>2, PoolCardinality DEF Smaller
<1>4. clean_pools[p] \in SUBSET Blocks /\ dirty_pools[p] \in SUBSET Blocks
  BY <1>1, <1>2 DEF TypeOK
<1>5. PICK vc \in Injection(1 .. nclean, clean_pools[p]), vd \in Injection(1 .. ndirty, dirty_pools[p]) :
              /\ clean_pools' = [clean_pools EXCEPT ![p] = @ \ Range(vc)]
              /\ dirty_pools' = [dirty_pools EXCEPT ![p] = @ \ Range(vd)]
              /\ global_clean_pool' = global_clean_pool \o vc
              /\ global_dirty_pool' = global_dirty_pool \o vd
  BY DEF Release, Victims
<1> HIDE DEF nclean, ndirty
<1>6. /\ vc \in Seq(Blocks) /\ Len(vc) = nclean /\ IsInjective(vc) /\ Range(vc) \subseteq clean_pools[p]
      /\ vd \in Seq(Blocks) /\ Len(vd) = ndirty /\ IsInjective(vd) /\ Range(vd) \subseteq dirty_pools[p]
  <2>1. vc \in Seq(Blocks) /\ Len(vc) = nclean /\ IsInjective(vc) /\ Range(vc) \subseteq clean_pools[p]
    BY <1>3, <1>4, VictimsAreList
  <2>2. vd \in Seq(Blocks) /\ Len(vd) = ndirty /\ IsInjective(vd) /\ Range(vd) \subseteq dirty_pools[p]
    BY <1>3, <1>4, VictimsAreList
  <2> QED BY <2>1, <2>2
<1>7. /\ clean_pools[p] \cap Range(global_clean_pool) = {}
      /\ dirty_pools[p] \cap Range(global_dirty_pool) = {}
      /\ global_clean_pool \in Seq(Blocks) /\ global_dirty_pool \in Seq(Blocks)
      /\ IsInjective(global_clean_pool) /\ IsInjective(global_dirty_pool)
  BY <1>1, <1>2 DEF PoolsPartitionBlocks, TypeOK
<1>a. Range(global_clean_pool) \cap Range(vc) = {} /\ Range(global_dirty_pool) \cap Range(vd) = {}
  BY <1>6, <1>7
<1>8. /\ global_clean_pool' \in Seq(Blocks)
      /\ Len(global_clean_pool') = Len(global_clean_pool) + nclean
      /\ IsInjective(global_clean_pool')
      /\ Range(global_clean_pool') = Range(global_clean_pool) \cup Range(vc)
  <2>0. /\ global_clean_pool \in Seq(Blocks) /\ vc \in Seq(Blocks)
        /\ IsInjective(global_clean_pool) /\ IsInjective(vc)
        /\ Range(global_clean_pool) \cap Range(vc) = {}
    BY <1>6, <1>7, <1>a
  <2>1. /\ global_clean_pool \o vc \in Seq(Blocks)
        /\ Len(global_clean_pool \o vc) = Len(global_clean_pool) + Len(vc)
        /\ IsInjective(global_clean_pool \o vc)
        /\ Range(global_clean_pool \o vc) = Range(global_clean_pool) \cup Range(vc)
    BY <2>0, AppendBatch
  <2> QED BY <2>1, <1>5, <1>6
<1>9. /\ global_dirty_pool' \in Seq(Blocks)
      /\ Len(global_dirty_pool') = Len(global_dirty_pool) + ndirty
      /\ IsInjective(global_dirty_pool')
      /\ Range(global_dirty_pool') = Range(global_dirty_pool) \cup Range(vd)
  <2>0. /\ global_dirty_pool \in Seq(Blocks) /\ vd \in Seq(Blocks)
        /\ IsInjective(global_dirty_pool) /\ IsInjective(vd)
        /\ Range(global_dirty_pool) \cap Range(vd) = {}
    BY <1>6, <1>7, <1>a
  <2>1. /\ global_dirty_pool \o vd \in Seq(Blocks)
        /\ Len(global_dirty_pool \o vd) = Len(global_dirty_pool) + Len(vd)
        /\ IsInjective(global_dirty_pool \o vd)
        /\ Range(global_dirty_pool \o vd) = Range(global_dirty_pool) \cup Range(vd)
    BY <2>0, AppendBatch
  <2> QED BY <2>1, <1>5, <1>6
<1>10. /\ clean_pools' \in [Procs -> SUBSET Blocks] /\ clean_pools'[p] = clean_pools[p] \ Range(vc)
       /\ dirty_pools' \in [Procs -> SUBSET Blocks] /\ dirty_pools'[p] = dirty_pools[p] \ Range(vd)
       /\ \A q \in Procs \ {p} : clean_pools'[q] = clean_pools[q] /\ dirty_pools'[q] = dirty_pools[q]
  BY <1>1, <1>2, <1>5 DEF TypeOK
<1>11. busy_pages' = TotalPages - Len(global_clean_pool') - Len(global_dirty_pool')
  <2>1. busy_pages' = busy_pages - release_size[c]
    BY DEF Release
  <2>2. nclean + ndirty = release_size[c]
    BY <1>2, <1>3 DEF ndirty
  <2>3. Len(global_clean_pool) \in Nat /\ Len(global_dirty_pool) \in Nat
    BY <1>7, LenProperties
  <2>4. busy_pages = TotalPages - Len(global_clean_pool) - Len(global_dirty_pool)
    BY <1>1 DEF PoolsPartitionBlocks
  <2> QED BY <2>1, <2>2, <2>3, <2>4, <1>2, <1>3, <1>8, <1>9, PagesAssumption
<1>12. PoolsPartitionBlocks'
  <2> DEFINE gc == Range(global_clean_pool)
             gd == Range(global_dirty_pool)
             used(q) == clean_pools[q] \cup dirty_pools[q]
  <2>1. /\ gc \cap gd = {}
        /\ \A q \in Procs : /\ clean_pools[q] \cap dirty_pools[q] = {}
                            /\ used(q) \cap (gc \cup gd) = {}
                            /\ \A r \in Procs \ {q} : used(q) \cap used(r) = {}
        /\ gc \cup gd \cup UNION {used(q) : q \in Procs} = Blocks
    BY <1>1 DEF PoolsPartitionBlocks
  <2>2. gc' \cap gd' = {}
    BY <2>1, <1>2, <1>6, <1>8, <1>9
  <2>3. ASSUME NEW q \in Procs
        PROVE  /\ clean_pools'[q] \cap dirty_pools'[q] = {}
               /\ used(q)' \cap (gc' \cup gd') = {}
               /\ used(q)' \subseteq used(q)
    <3>1. CASE q = p
      BY <3>1, <2>1, <1>2, <1>6, <1>8, <1>9, <1>10
    <3>2. CASE q # p
      <4>1. clean_pools'[q] = clean_pools[q] /\ dirty_pools'[q] = dirty_pools[q]
        BY <3>2, <1>10
      <4>2. used(q) \cap (gc' \cup gd') = {}
        BY <3>2, <2>1, <1>2, <1>6, <1>8, <1>9
      <4> QED BY <4>1, <4>2, <2>1
    <3> QED BY <3>1, <3>2
  <2>4. \A q \in Procs : \A r \in Procs \ {q} : used(q)' \cap used(r)' = {}
    BY <2>1, <2>3
  <2>5. gc' \cup gd' \cup UNION {used(q)' : q \in Procs} = Blocks
    <3>1. ASSUME NEW b \in Blocks PROVE b \in gc' \cup gd' \cup UNION {used(q)' : q \in Procs}
      <4>1. CASE b \in gc \cup gd
        BY <4>1, <1>8, <1>9
      <4>2. CASE \E q \in Procs : b \in used(q)
        <5>1. PICK q \in Procs : b \in used(q)
          BY <4>2
        <5>2. b \in used(q)' \/ b \in Range(vc) \/ b \in Range(vd)
          BY <5>1, <1>10
        <5> QED BY <5>2, <1>8, <1>9
      <4> QED BY <4>1, <4>2, <2>1
    <3>2. gc' \subseteq Blocks /\ gd' \subseteq Blocks /\ \A q \in Procs : used(q)' \subseteq Blocks
      BY <2>1, <1>4, <1>6, <1>8, <1>9, <1>10
    <3> QED BY <3>1, <3>2
  <2> QED BY <2>2, <2>3, <2>4, <2>5, <1>8, <1>9, <1>11 DEF PoolsPartitionBlocks
<1>13. TypeOK'
  <2>1. busy_pages' \in 0 .. TotalPages
    <3>1. Len(global_clean_pool') + Len(global_dirty_pool') <= TotalPages
      BY <1>8, <1>9, <1>12, ListsFit DEF PoolsPartitionBlocks
    <3>2. Len(global_clean_pool') \in Nat /\ Len(global_dirty_pool') \in Nat
      BY <1>8, <1>9, LenProperties
    <3> QED BY <3>1, <3>2, <1>11, PagesAssumption
  <2>2. i' \in [Controllers -> 0 .. NumProcs]
    <3>1. i[c] \in Nat /\ i[c] + 1 \in 0 .. NumProcs
      BY <1>1, ProcsAssumption DEF TypeOK
    <3>2. i' = [i EXCEPT ![c] = i[c] + 1]
      BY DEF Release
    <3> QED BY <3>1, <3>2, <1>1 DEF TypeOK
  <2>3. pc' \in [Controllers -> PCs]
    BY <1>1 DEF TypeOK, Release, GoTo, PCs
  <2> QED BY <2>1, <2>2, <2>3, <1>1, <1>8, <1>9, <1>10 DEF TypeOK, Release
<1>14. LoopIndex'
  BY <1>1 DEF TypeOK, LoopIndex, Release, GoTo
<1> QED BY <1>12, <1>13, <1>14 DEF Structure

LEMMA AllocateStructure ==
    ASSUME Structure, NEW c \in Controllers, allocate_one_page(c)
    PROVE  Structure'
<1> DEFINE p == proc[c]
           gc == Range(global_clean_pool)
           gd == Range(global_dirty_pool)
           used(q) == clean_pools[q] \cup dirty_pools[q]
<1>1. TypeOK /\ PoolsPartitionBlocks /\ LoopIndex /\ p \in Procs
  BY DEF Structure, TypeOK
<1>2. /\ global_clean_pool \in Seq(Blocks) /\ IsInjective(global_clean_pool)
      /\ global_dirty_pool \in Seq(Blocks) /\ IsInjective(global_dirty_pool)
      /\ Len(global_clean_pool) \in Nat /\ Len(global_dirty_pool) \in Nat
  BY <1>1, LenProperties DEF TypeOK, PoolsPartitionBlocks
<1>3. PICK b : /\ clean_pools' = [clean_pools EXCEPT ![p] = @ \cup {b}]
               /\ global_clean_pool' \in Seq(Blocks) /\ IsInjective(global_clean_pool')
               /\ global_dirty_pool' \in Seq(Blocks) /\ IsInjective(global_dirty_pool')
               /\ b \in gc \cup gd
               /\ gc' = gc \ {b} /\ gd' = gd \ {b}
               /\ Len(global_clean_pool') + Len(global_dirty_pool')
                    = Len(global_clean_pool) + Len(global_dirty_pool) - 1
  <2>1. CASE global_clean_pool # <<>>
    <3>1. /\ Tail(global_clean_pool) \in Seq(Blocks)
          /\ Len(Tail(global_clean_pool)) = Len(global_clean_pool) - 1
          /\ IsInjective(Tail(global_clean_pool))
          /\ Head(global_clean_pool) \in gc
          /\ Range(Tail(global_clean_pool)) = gc \ {Head(global_clean_pool)}
      BY <1>2, <2>1, PopFront
    <3>2. Head(global_clean_pool) \notin gd
      BY <3>1, <1>1 DEF PoolsPartitionBlocks
    <3>3. /\ clean_pools' = [clean_pools EXCEPT ![p] = @ \cup {Head(global_clean_pool)}]
          /\ global_clean_pool' = Tail(global_clean_pool)
          /\ global_dirty_pool' = global_dirty_pool
      BY <2>1 DEF allocate_one_page
    <3>4. /\ gc' = gc \ {Head(global_clean_pool)} /\ gd' = gd \ {Head(global_clean_pool)}
          /\ Head(global_clean_pool) \in gc \cup gd
      BY <3>1, <3>2, <3>3
    <3>5. Len(global_clean_pool') + Len(global_dirty_pool')
            = Len(global_clean_pool) + Len(global_dirty_pool) - 1
      BY <3>1, <3>2, <3>3, <1>2
    <3>6. /\ global_clean_pool' \in Seq(Blocks) /\ IsInjective(global_clean_pool')
          /\ global_dirty_pool' \in Seq(Blocks) /\ IsInjective(global_dirty_pool')
      BY <3>1, <3>2, <3>3, <1>2
    <3> QED BY <3>3, <3>4, <3>5, <3>6, Zenon
  <2>2. CASE global_clean_pool = <<>>
    <3>1. /\ global_dirty_pool # <<>>
          /\ clean_pools' = [clean_pools EXCEPT ![p] = @ \cup {Head(global_dirty_pool)}]
          /\ global_dirty_pool' = Tail(global_dirty_pool)
          /\ global_clean_pool' = global_clean_pool
      BY <2>2 DEF allocate_one_page
    <3>2. /\ Tail(global_dirty_pool) \in Seq(Blocks)
          /\ Len(Tail(global_dirty_pool)) = Len(global_dirty_pool) - 1
          /\ IsInjective(Tail(global_dirty_pool))
          /\ Head(global_dirty_pool) \in gd
          /\ Range(Tail(global_dirty_pool)) = gd \ {Head(global_dirty_pool)}
      BY <1>2, <3>1, PopFront
    <3>3. Head(global_dirty_pool) \notin gc
      BY <3>2, <1>1 DEF PoolsPartitionBlocks
    <3>4. /\ gc' = gc \ {Head(global_dirty_pool)} /\ gd' = gd \ {Head(global_dirty_pool)}
          /\ Head(global_dirty_pool) \in gc \cup gd
      BY <3>1, <3>2, <3>3
    <3>5. Len(global_clean_pool') + Len(global_dirty_pool')
            = Len(global_clean_pool) + Len(global_dirty_pool) - 1
      BY <3>1, <3>2, <3>3, <1>2
    <3>6. /\ global_clean_pool' \in Seq(Blocks) /\ IsInjective(global_clean_pool')
          /\ global_dirty_pool' \in Seq(Blocks) /\ IsInjective(global_dirty_pool')
      BY <3>1, <3>2, <3>3, <1>2
    <3> QED BY <3>1, <3>4, <3>5, <3>6, Zenon
  <2> QED BY <2>1, <2>2
<1>4. /\ gc \cap gd = {}
      /\ \A q \in Procs : /\ clean_pools[q] \cap dirty_pools[q] = {}
                          /\ used(q) \cap (gc \cup gd) = {}
                          /\ \A r \in Procs \ {q} : used(q) \cap used(r) = {}
      /\ gc \cup gd \cup UNION {used(q) : q \in Procs} = Blocks
      /\ busy_pages = TotalPages - Len(global_clean_pool) - Len(global_dirty_pool)
  BY <1>1 DEF PoolsPartitionBlocks
<1>5. b \in Blocks /\ gc \subseteq Blocks /\ gd \subseteq Blocks /\ dirty_pools' = dirty_pools
  BY <1>3, <1>4 DEF allocate_one_page
<1>6. /\ clean_pools' \in [Procs -> SUBSET Blocks] /\ clean_pools'[p] = clean_pools[p] \cup {b}
      /\ \A q \in Procs \ {p} : clean_pools'[q] = clean_pools[q]
  BY <1>1, <1>3, <1>5 DEF TypeOK
<1>7. Len(global_clean_pool') \in Nat /\ Len(global_dirty_pool') \in Nat
  BY <1>3, LenProperties
<1>8. busy_pages' = TotalPages - Len(global_clean_pool') - Len(global_dirty_pool')
  <2>1. busy_pages' = busy_pages + 1
    BY DEF allocate_one_page
  <2>2. /\ busy_pages = TotalPages - Len(global_clean_pool) - Len(global_dirty_pool)
        /\ Len(global_clean_pool) \in Nat /\ Len(global_dirty_pool) \in Nat
    BY <1>2, <1>4
  <2>3. Len(global_clean_pool') + Len(global_dirty_pool')
          = Len(global_clean_pool) + Len(global_dirty_pool) - 1
    BY <1>3
  <2> QED BY <2>1, <2>2, <2>3, <1>7, PagesAssumption
<1>9. ASSUME NEW q \in Procs
      PROVE  /\ clean_pools'[q] \cap dirty_pools'[q] = {}
             /\ used(q)' \cap (gc' \cup gd') = {}
             /\ used(q)' \subseteq used(q) \cup (IF q = p THEN {b} ELSE {})
             /\ used(q) \subseteq used(q)'
             /\ used(q)' \subseteq Blocks
  <2>1. b \notin used(q) /\ used(q) \subseteq Blocks
    BY <1>3, <1>4
  <2> QED BY <2>1, <1>1, <1>3, <1>4, <1>5, <1>6
<1>10. \A q \in Procs : \A r \in Procs \ {q} : used(q)' \cap used(r)' = {}
  <2> SUFFICES ASSUME NEW q \in Procs, NEW r \in Procs \ {q}, NEW x, x \in used(q)', x \in used(r)'
               PROVE  FALSE
    OBVIOUS
  <2>1. b \notin used(q) /\ b \notin used(r)
    BY <1>3, <1>4
  <2> QED BY <2>1, <1>4, <1>9
<1>11. gc' \cup gd' \cup UNION {used(q)' : q \in Procs} = Blocks
  <2>1. b \in clean_pools'[p] \cup dirty_pools'[p]
    BY <1>6
  <2>2. ASSUME NEW x \in Blocks PROVE x \in gc' \cup gd' \cup UNION {used(q)' : q \in Procs}
    <3>1. CASE x = b
      BY <3>1, <2>1, <1>1
    <3>2. CASE x # b /\ x \in gc \cup gd
      BY <3>2, <1>3
    <3>3. CASE \E q \in Procs : x \in used(q)
      BY <3>3, <1>9
    <3> QED BY <3>1, <3>2, <3>3, <1>4
  <2>3. gc' \subseteq Blocks /\ gd' \subseteq Blocks
    BY <1>3, <1>5
  <2> QED BY <2>2, <2>3, <1>9
<1>12. PoolsPartitionBlocks'
  BY <1>3, <1>4, <1>8, <1>9, <1>10, <1>11 DEF PoolsPartitionBlocks
<1>13. busy_pages' \in 0 .. TotalPages
  <2>1. Len(global_clean_pool') + Len(global_dirty_pool') <= TotalPages
    BY <1>3, <1>12, ListsFit DEF PoolsPartitionBlocks
  <2> QED BY <2>1, <1>7, <1>8, PagesAssumption
<1>14. TypeOK' /\ LoopIndex'
  BY <1>1, <1>3, <1>5, <1>6, <1>13 DEF TypeOK, LoopIndex, allocate_one_page, locals, GoTo, PCs
<1> QED BY <1>12, <1>14 DEF Structure

LEMMA ConvertStructure ==
    ASSUME Structure, NEW p \in Procs, NEW b \in Blocks, convert_to_dirty(p, b)
    PROVE  Structure'
<1> DEFINE used(q) == clean_pools[q] \cup dirty_pools[q]
<1>1. TypeOK /\ PoolsPartitionBlocks /\ LoopIndex
  BY DEF Structure
<1>2. /\ b \in clean_pools[p]
      /\ clean_pools' = [clean_pools EXCEPT ![p] = @ \ {b}]
      /\ dirty_pools' = [dirty_pools EXCEPT ![p] = @ \cup {b}]
      /\ UNCHANGED <<busy_pages, global_clean_pool, global_dirty_pool, pc, locals>>
  BY DEF convert_to_dirty
<1>3. /\ clean_pools' \in [Procs -> SUBSET Blocks] /\ dirty_pools' \in [Procs -> SUBSET Blocks]
      /\ clean_pools'[p] = clean_pools[p] \ {b} /\ dirty_pools'[p] = dirty_pools[p] \cup {b}
      /\ \A q \in Procs \ {p} : clean_pools'[q] = clean_pools[q] /\ dirty_pools'[q] = dirty_pools[q]
  BY <1>1, <1>2 DEF TypeOK
<1>4. \A q \in Procs : used(q)' = used(q)
  BY <1>2, <1>3
<1>5. \A q \in Procs : clean_pools'[q] \cap dirty_pools'[q] = {}
  BY <1>1, <1>3 DEF PoolsPartitionBlocks
<1>6. {used(q)' : q \in Procs} = {used(q) : q \in Procs}
  BY <1>4
<1>7. PoolsPartitionBlocks'
  BY <1>1, <1>2, <1>4, <1>5, <1>6 DEF PoolsPartitionBlocks
<1>8. TypeOK' /\ LoopIndex'
  BY <1>1, <1>2, <1>3 DEF TypeOK, LoopIndex, locals
<1> QED BY <1>7, <1>8 DEF Structure

LEMMA NextStructure == Structure /\ [Next]_vars => Structure'
<1> SUFFICES ASSUME Structure, [Next]_vars PROVE Structure'
  OBVIOUS
<1>1. TypeOK /\ PoolsPartitionBlocks /\ LoopIndex
  BY DEF Structure
<1>2. ASSUME UNCHANGED pools, TypeOK', LoopIndex' PROVE Structure'
  BY <1>1, <1>2 DEF Structure, PoolsPartitionBlocks, pools
<1>3. ASSUME NEW c \in Controllers, NEW p \in Procs, allocate_page(c, p) PROVE Structure'
  <2>1. TypeOK' /\ LoopIndex'
    BY <1>1, <1>3 DEF TypeOK, LoopIndex, allocate_page, pools, GoTo, PCs
  <2> QED BY <1>2, <1>3, <2>1 DEF allocate_page
<1>4. ASSUME NEW c \in Controllers, evict(c) PROVE Structure'
  <2>1. MinFreePages - Free \in Nat
    BY <1>4, MinFreeAssumption DEF evict, should_reclaim
  <2>2. TypeOK' /\ LoopIndex'
    BY <1>1, <1>4, <2>1, ProcsAssumption DEF TypeOK, LoopIndex, evict, pools, GoTo, PCs
  <2> QED BY <1>2, <1>4, <2>2 DEF evict
<1>5. ASSUME NEW c \in Controllers, read_first_size(c) PROVE Structure'
  <2>1. i[c] \in Procs
    BY <1>1, <1>5, ProcsAssumption DEF TypeOK, Procs, read_first_size
  <2>2. first_size' \in [Controllers -> [dirty : BOOLEAN, size : Nat]]
    <3>1. /\ Cardinality(clean_pools[i[c]]) \in Nat
          /\ Cardinality(dirty_pools[i[c]]) \in Nat
      BY <1>1, <2>1, PoolCardinality
    <3>2. /\ [dirty |-> FALSE, size |-> Cardinality(clean_pools[i[c]])] \in [dirty : BOOLEAN, size : Nat]
          /\ [dirty |-> TRUE, size |-> Cardinality(dirty_pools[i[c]])] \in [dirty : BOOLEAN, size : Nat]
      BY <3>1
    <3>3. PICK rec \in [dirty : BOOLEAN, size : Nat] : first_size' = [first_size EXCEPT ![c] = rec]
      BY <1>5, <3>2, Zenon DEF read_first_size
    <3> QED BY <3>3, <1>1 DEF TypeOK
  <2>3. TypeOK' /\ LoopIndex'
    BY <1>1, <1>5, <2>2 DEF TypeOK, LoopIndex, read_first_size, pools, GoTo, PCs
  <2> QED BY <1>2, <1>5, <2>3 DEF read_first_size
<1>6. ASSUME NEW c \in Controllers, read_second_size(c) PROVE Structure'
  <2> DEFINE second == IF first_size[c].dirty THEN clean_pools[i[c]] ELSE dirty_pools[i[c]]
             busy == first_size[c].size + Cardinality(second)
  <2>1. i[c] \in Procs /\ i[c] < NumProcs /\ i[c] \in Nat /\ i[c] + 1 \in 0 .. NumProcs
    BY <1>1, <1>6, ProcsAssumption DEF TypeOK, Procs, LoopIndex, read_second_size
  <2>2. busy \in Nat /\ reclaim_pages[c] \in Nat
    <3>1. Cardinality(clean_pools[i[c]]) \in Nat /\ Cardinality(dirty_pools[i[c]]) \in Nat
      BY <1>1, <2>1, PoolCardinality
    <3>2. Cardinality(second) \in Nat
      BY <3>1
    <3>3. first_size[c].size \in Nat /\ reclaim_pages[c] \in Nat
      BY <1>1 DEF TypeOK
    <3> HIDE DEF second
    <3> QED BY <3>2, <3>3
  <2>3. CASE busy = 0
    <3>1. /\ i' = [i EXCEPT ![c] = i[c] + 1] /\ GoTo(c, "loop") /\ UNCHANGED release_size
          /\ UNCHANGED <<pools, proc, reclaim_pages, first_size>>
      BY <1>6, <2>2, <2>3 DEF read_second_size
    <3>2. TypeOK' /\ LoopIndex'
      BY <1>1, <2>1, <3>1 DEF TypeOK, LoopIndex, pools, GoTo, PCs
    <3> QED BY <1>2, <3>1, <3>2
  <2>4. CASE busy > 0
    <3>1. PICK r \in ReleaseSizes(busy, reclaim_pages[c]) :
             /\ release_size' = [release_size EXCEPT ![c] = r]
             /\ GoTo(c, "release") /\ UNCHANGED i
             /\ UNCHANGED <<pools, proc, reclaim_pages, first_size>>
      BY <1>6, <2>2, <2>4 DEF read_second_size
    <3>2. r \in Nat
      BY <2>2, ReleaseSizesType
    <3>3. TypeOK' /\ LoopIndex'
      BY <1>1, <2>1, <3>1, <3>2 DEF TypeOK, LoopIndex, pools, GoTo, PCs
    <3> QED BY <1>2, <3>1, <3>3
  <2> QED BY <2>2, <2>3, <2>4
<1>7. ASSUME NEW c \in Controllers, end_evict(c) PROVE Structure'
  <2>1. TypeOK' /\ LoopIndex'
    BY <1>1, <1>7 DEF TypeOK, LoopIndex, end_evict, pools, locals, GoTo, PCs
  <2> QED BY <1>2, <1>7, <2>1 DEF end_evict
<1>8. CASE UNCHANGED vars
  <2>1. TypeOK' /\ LoopIndex'
    BY <1>1, <1>8 DEF TypeOK, LoopIndex, vars, pools, locals
  <2> QED BY <1>2, <1>8, <2>1 DEF vars
<1> QED
  BY <1>3, <1>4, <1>5, <1>6, <1>7, <1>8, ReleaseStructure, AllocateStructure, ConvertStructure
  DEF Next, Controller

\* The pools and lists of FairAllocator are a partition of the blocks and
\* busy_pages counts the blocks in use, whatever the number of controllers
\* and however stores interleave with an eviction.
THEOREM StructureTheorem == Spec => [](TypeOK /\ PoolsPartitionBlocks)
<1>1. Structure => TypeOK /\ PoolsPartitionBlocks
  BY DEF Structure
<1> QED BY <1>1, InitStructure, NextStructure, PTL DEF Spec

-----------------------------------------------------------------------------
(* One controller, any number of cores: the assertions of evict and        *)
(* Release.                                                                *)

Owned(p) == Cardinality(clean_pools[p]) + Cardinality(dirty_pools[p])

\* What an eviction knows at each of its steps.  A page that moves from
\* clean to dirty between the two reads may be counted twice, so all that is
\* known of the first read is that it does not exceed what p owns.
EvictionKnows ==
    \A c \in Controllers :
        /\ pc[c] = "evict" => Free = 1
        /\ pc[c] \in {"loop", "second", "release"} =>
              Free >= 1 /\ reclaim_pages[c] = MinFreePages - 1
        /\ pc[c] = "second" => first_size[c].size <= Owned(i[c])
        /\ pc[c] = "release" => release_size[c] >= 1 /\ release_size[c] <= Owned(i[c])

\* A process that is seen with at most twice its pages keeps its share.
LEMMA ShareFits ==
    ASSUME NEW busy \in Nat, NEW own \in Nat, own >= 1, busy <= 2 * own,
           NEW r \in ReleaseSizes(busy, MinFreePages - 1)
    PROVE  r >= 1 /\ r <= own
<1> DEFINE R == MinFreePages - 1
           q == (busy * R) \div TotalPages
<1>1. R \in Nat /\ 2 * R <= TotalPages - 1 /\ TotalPages \in Nat \ {0}
  BY MinFreeAssumption, PagesAssumption
<1>2. r \in Nat /\ r >= 1
  BY <1>1, ReleaseSizesType
<1>3. r <= q + 1
  BY <1>1 DEF ReleaseSizes
<1> HIDE DEF R
<1>4. busy * R <= (2 * own) * R
  BY <1>1
<1>5. (2 * own) * R = own * (2 * R)
  BY <1>1
<1>6. own * (2 * R) <= own * (TotalPages - 1)
  BY <1>1
<1>7. own * (TotalPages - 1) < own * TotalPages
  BY <1>1
<1>8. busy * R \in Nat /\ own * TotalPages \in Nat /\ busy * R < own * TotalPages
  BY <1>1, <1>4, <1>5, <1>6, <1>7
<1>9. \A x \in Nat : x < own * TotalPages => x \div TotalPages < own
  BY <1>1
<1>10. q < own /\ q \in Nat
  BY <1>1, <1>8, <1>9
<1> QED BY <1>2, <1>3, <1>10

\* convert_to_dirty moves a page within its process.
LEMMA ConvertOwned ==
    ASSUME Structure, NEW p \in Procs, NEW b \in Blocks, convert_to_dirty(p, b), NEW q \in Procs
    PROVE  Owned(q)' = Owned(q)
<1>1. TypeOK /\ PoolsPartitionBlocks
  BY DEF Structure
<1>2. /\ clean_pools'[p] = clean_pools[p] \ {b} /\ dirty_pools'[p] = dirty_pools[p] \cup {b}
      /\ q # p => clean_pools'[q] = clean_pools[q] /\ dirty_pools'[q] = dirty_pools[q]
      /\ b \in clean_pools[p]
  BY <1>1 DEF TypeOK, convert_to_dirty
<1>3. b \notin dirty_pools[p]
  BY <1>1, <1>2 DEF PoolsPartitionBlocks
<1>4. /\ IsFiniteSet(clean_pools[p]) /\ Cardinality(clean_pools[p]) \in Nat
      /\ IsFiniteSet(dirty_pools[p]) /\ Cardinality(dirty_pools[p]) \in Nat
  BY <1>1, PoolCardinality
<1>5. Cardinality(clean_pools[p] \ {b}) = Cardinality(clean_pools[p]) - 1
  BY <1>2, <1>4, FS_RemoveElement
<1>6. Cardinality(dirty_pools[p] \cup {b}) = Cardinality(dirty_pools[p]) + 1
  BY <1>3, <1>4, FS_AddElement
<1>7. CASE q = p
  <2>1. /\ Cardinality(clean_pools'[q]) = Cardinality(clean_pools[q]) - 1
        /\ Cardinality(dirty_pools'[q]) = Cardinality(dirty_pools[q]) + 1
    BY <1>7, <1>2, <1>5, <1>6
  <2> QED BY <2>1, <1>4, <1>7 DEF Owned
<1>8. CASE q # p
  BY <1>8, <1>2 DEF Owned
<1> QED BY <1>7, <1>8

LEMMA NextEvictionKnows ==
    ASSUME NEW m, Controllers = {m}
    PROVE  Structure /\ EvictionKnows /\ [Next]_vars => EvictionKnows'
<1> SUFFICES ASSUME Structure, EvictionKnows, [Next]_vars PROVE EvictionKnows'
  OBVIOUS
<1> USE DEF GoTo
<1>1. TypeOK /\ PoolsPartitionBlocks /\ LoopIndex /\ busy_pages \in Nat /\ Free \in Int
  BY PagesAssumption DEF Structure, TypeOK, Free
<1>2. ASSUME NEW c \in Controllers, NEW p \in Procs, allocate_page(c, p) PROVE EvictionKnows'
  BY <1>1, <1>2 DEF EvictionKnows, allocate_page, TypeOK, should_reclaim, Free, pools
<1>3. ASSUME NEW c \in Controllers, evict(c) PROVE EvictionKnows'
  BY <1>1, <1>3, MinFreeAssumption, PagesAssumption
  DEF EvictionKnows, evict, TypeOK, should_reclaim, Free, pools
<1>4. ASSUME NEW c \in Controllers, read_first_size(c) PROVE EvictionKnows'
  <2>1. i[c] \in Procs
    BY <1>1, <1>4, ProcsAssumption DEF TypeOK, Procs, read_first_size
  <2>2. /\ Cardinality(clean_pools[i[c]]) <= Owned(i[c])
        /\ Cardinality(dirty_pools[i[c]]) <= Owned(i[c])
    BY <1>1, <2>1, PoolCardinality DEF Owned
  <2>3. first_size'[c].size <= Owned(i[c])
    BY <1>1, <1>4, <2>2 DEF TypeOK, read_first_size
  <2>4. Owned(i[c])' = Owned(i[c])
    BY <1>4 DEF Owned, read_first_size, pools
  <2> QED BY <1>1, <1>4, <2>3, <2>4 DEF EvictionKnows, read_first_size, TypeOK, Free, pools
<1>5. ASSUME NEW c \in Controllers, read_second_size(c) PROVE EvictionKnows'
  <2> DEFINE second == IF first_size[c].dirty THEN clean_pools[i[c]] ELSE dirty_pools[i[c]]
             busy == first_size[c].size + Cardinality(second)
             own == Owned(i[c])
  <2>1. i[c] \in Procs /\ pc[c] = "second"
    BY <1>1, <1>5, ProcsAssumption DEF TypeOK, Procs, LoopIndex, read_second_size
  <2>2. Cardinality(second) \in Nat /\ Cardinality(second) <= own /\ own \in Nat
    BY <1>1, <2>1, PoolCardinality DEF Owned
  <2>3. first_size[c].size \in Nat /\ first_size[c].size <= own
    BY <1>1, <2>1 DEF TypeOK, EvictionKnows
  <2>4. busy \in Nat /\ busy <= 2 * own /\ (busy > 0 => own >= 1)
    BY <2>2, <2>3
  <2>5. reclaim_pages[c] = MinFreePages - 1
    BY <2>1 DEF EvictionKnows
  <2>7. CASE busy = 0
    BY <1>1, <1>5, <2>1, <2>4, <2>7 DEF EvictionKnows, read_second_size, TypeOK, Free, pools
  <2>8. CASE busy > 0
    <3>1. PICK r \in ReleaseSizes(busy, reclaim_pages[c]) :
             /\ release_size' = [release_size EXCEPT ![c] = r]
             /\ pc' = [pc EXCEPT ![c] = "release"] /\ UNCHANGED i
             /\ UNCHANGED <<pools, proc, reclaim_pages, first_size>>
      <4>1. ~ (busy = 0)
        BY <2>8
      <4> QED BY <1>5, <4>1 DEF read_second_size
    <3>2. r >= 1 /\ r <= own
      BY <2>2, <2>4, <2>5, <2>8, ShareFits
    <3>3. Owned(i[c])' = Owned(i[c])
      BY <3>1 DEF Owned, pools
    <3> QED BY <1>1, <2>1, <3>1, <3>2, <3>3 DEF EvictionKnows, TypeOK, Free, pools
  <2> QED BY <2>4, <2>7, <2>8
<1>6. ASSUME NEW c \in Controllers, Release(c) PROVE EvictionKnows'
  <2>1. pc[c] = "release" /\ release_size[c] \in Nat /\ release_size[c] >= 1 /\ Free >= 1
    BY <1>1, <1>6 DEF Release, EvictionKnows, TypeOK
  <2>2. Free' >= 1
    BY <1>1, <1>6, <2>1, PagesAssumption DEF Release, Free
  <2> QED BY <1>1, <1>6, <2>1, <2>2 DEF EvictionKnows, Release, TypeOK
<1>7. ASSUME NEW c \in Controllers, end_evict(c) PROVE EvictionKnows'
  BY <1>1, <1>7 DEF EvictionKnows, end_evict, TypeOK
<1>8. ASSUME NEW c \in Controllers, allocate_one_page(c) PROVE EvictionKnows'
  BY <1>1, <1>8 DEF EvictionKnows, allocate_one_page, TypeOK
<1>9. ASSUME NEW p \in Procs, NEW b \in Blocks, convert_to_dirty(p, b) PROVE EvictionKnows'
  <2>1. \A c \in Controllers : pc[c] \in {"second", "release"} => i[c] \in Procs
    BY <1>1, ProcsAssumption DEF TypeOK, LoopIndex, Procs
  <2>2. UNCHANGED <<busy_pages, pc, proc, reclaim_pages, i, first_size, release_size>>
    BY <1>9 DEF convert_to_dirty, locals
  <2>3. \A q \in Procs : Owned(q)' = Owned(q)
    BY <1>9, ConvertOwned
  <2> QED BY <2>1, <2>2, <2>3 DEF EvictionKnows, Free
<1>10. CASE UNCHANGED vars
  BY <1>10 DEF EvictionKnows, vars, pools, locals, Free, Owned
<1> QED
  BY <1>2, <1>3, <1>4, <1>5, <1>6, <1>7, <1>8, <1>9, <1>10 DEF Next, Controller

\* With one memory controller (every shipped configuration) the assertions
\* of evict and of both ends of Release hold in every state, although the
\* sizes an eviction works with are read while other cores store.
THEOREM AssertionsTheorem ==
    ASSUME NEW m, Controllers = {m}
    PROVE  Spec => []EvictionAssertionsHold
<1>1. Init => EvictionKnows
  BY DEF Init, EvictionKnows
<1>2. Structure /\ EvictionKnows => EvictionAssertionsHold
  BY PagesAssumption
  DEF EvictionKnows, EvictionAssertionsHold, EvictStillNeeded, ReleaseIsCovered, ReleaseLeavesReclaim, should_reclaim,
      Owned, Structure, TypeOK, Free
<1> QED BY <1>1, <1>2, InitStructure, NextStructure, NextEvictionKnows, PTL DEF Spec

-----------------------------------------------------------------------------
(* One controller and one core: the buffer is never exhausted.             *)

\* While an eviction has released nothing, the processes it has visited own
\* nothing; the size it has read of a pool is the size the pool still has.
Reserve ==
    ~ otherCores => \A c \in Controllers :
        /\ pc[c] = "idle" => Free >= 1
        /\ pc[c] = "alloc" => Free >= 2
        /\ pc[c] \in {"loop", "second", "release"} =>
              Free >= 2 \/ \A p \in Procs : p < i[c] => clean_pools[p] = {} /\ dirty_pools[p] = {}
        /\ pc[c] = "second" =>
              first_size[c].size = Cardinality(IF first_size[c].dirty THEN dirty_pools[i[c]]
                                                                      ELSE clean_pools[i[c]])

\* The last page is never the only one: if no process owns a block, all the
\* blocks, at least two, are in the global lists.
LEMMA SomeProcessOwns ==
    ASSUME Structure, Free = 1, \A p \in Procs : clean_pools[p] = {} /\ dirty_pools[p] = {}
    PROVE  FALSE
<1> DEFINE gc == global_clean_pool
           gd == global_dirty_pool
<1>1. gc \in Seq(Blocks) /\ gd \in Seq(Blocks)
  BY DEF Structure, TypeOK
<1>2. /\ Len(gc) \in Nat /\ Len(gd) \in Nat /\ DOMAIN gc = 1 .. Len(gc) /\ DOMAIN gd = 1 .. Len(gd)
  BY <1>1, LenProperties
<1>3. Len(gc) + Len(gd) = 1
  BY <1>2, PagesAssumption DEF Structure, PoolsPartitionBlocks, Free
<1>4. Range(gc) \cup Range(gd) = Blocks
  BY DEF Structure, PoolsPartitionBlocks
<1>5. 0 \in Blocks /\ 1 \in Blocks
  BY PagesAssumption DEF Blocks
<1>6. CASE Len(gc) = 1 /\ Len(gd) = 0
  <2>1. Range(gc) = {gc[1]} /\ Range(gd) = {}
    BY <1>2, <1>6 DEF Range
  <2> QED BY <2>1, <1>4, <1>5
<1>7. CASE Len(gc) = 0 /\ Len(gd) = 1
  <2>1. Range(gd) = {gd[1]} /\ Range(gc) = {}
    BY <1>2, <1>7 DEF Range
  <2> QED BY <2>1, <1>4, <1>5
<1> QED BY <1>2, <1>3, <1>6, <1>7

LEMMA NextReserve ==
    ASSUME NEW m, Controllers = {m}
    PROVE  Structure /\ EvictionKnows /\ Reserve /\ [Next]_vars => Reserve'
<1> SUFFICES ASSUME Structure, EvictionKnows, Reserve, [Next]_vars, ~ otherCores' PROVE Reserve'
  BY DEF Reserve
<1>0. ~ otherCores
  BY DEF Next, Controller, convert_to_dirty, vars
<1> USE <1>0
<1> USE DEF GoTo
<1>1. TypeOK /\ PoolsPartitionBlocks /\ LoopIndex /\ busy_pages \in Nat /\ Free \in Int
  BY PagesAssumption DEF Structure, TypeOK, Free
<1>2. ASSUME NEW c \in Controllers, NEW p \in Procs, allocate_page(c, p) PROVE Reserve'
  BY <1>1, <1>2 DEF Reserve, allocate_page, TypeOK, should_reclaim, Free, pools
<1>3. ASSUME NEW c \in Controllers, evict(c) PROVE Reserve'
  <2>1. i'[c] = 0 /\ pc'[c] = "loop" /\ \A p \in Procs : ~ (p < 0)
    BY <1>1, <1>3, ProcsAssumption DEF TypeOK, evict, Procs
  <2> QED BY <2>1 DEF Reserve
<1>4. ASSUME NEW c \in Controllers, read_first_size(c) PROVE Reserve'
  <2>1. pc[c] = "loop" /\ pc'[c] = "second" /\ UNCHANGED <<pools, i>>
    BY <1>1, <1>4 DEF TypeOK, read_first_size
  <2>2. first_size'[c].size = Cardinality(IF first_size'[c].dirty THEN dirty_pools[i[c]]
                                                                  ELSE clean_pools[i[c]])
    <3>1. CASE first_size'[c] = [dirty |-> FALSE, size |-> Cardinality(clean_pools[i[c]])]
      BY <3>1
    <3>2. CASE first_size'[c] = [dirty |-> TRUE, size |-> Cardinality(dirty_pools[i[c]])]
      BY <3>2
    <3> QED BY <1>1, <1>4, <3>1, <3>2 DEF TypeOK, read_first_size
  <2> QED BY <2>1, <2>2 DEF Reserve, Free, pools
<1>5. ASSUME NEW c \in Controllers, read_second_size(c) PROVE Reserve'
  <2> DEFINE second == IF first_size[c].dirty THEN clean_pools[i[c]] ELSE dirty_pools[i[c]]
             busy == first_size[c].size + Cardinality(second)
  <2>1. /\ i[c] \in Procs /\ i[c] \in Nat /\ pc[c] = "second" /\ UNCHANGED pools
        /\ Free >= 2 \/ \A p \in Procs : p < i[c] => clean_pools[p] = {} /\ dirty_pools[p] = {}
    BY <1>1, <1>5, ProcsAssumption DEF TypeOK, Procs, LoopIndex, read_second_size, Reserve
  <2>2. /\ IsFiniteSet(clean_pools[i[c]]) /\ Cardinality(clean_pools[i[c]]) \in Nat
        /\ IsFiniteSet(dirty_pools[i[c]]) /\ Cardinality(dirty_pools[i[c]]) \in Nat
    BY <1>1, <2>1, PoolCardinality
  <2>3. busy = Cardinality(clean_pools[i[c]]) + Cardinality(dirty_pools[i[c]])
    BY <2>1, <2>2 DEF Reserve
  <2>4. CASE busy = 0
    <3>1. clean_pools[i[c]] = {} /\ dirty_pools[i[c]] = {}
      BY <2>2, <2>3, <2>4, FS_EmptySet
    <3>2. i'[c] = i[c] + 1 /\ pc'[c] = "loop"
      BY <1>1, <1>5, <2>4 DEF TypeOK, read_second_size
    <3>3. \A p \in Procs : p < i'[c] => p < i[c] \/ p = i[c]
      BY <2>1, <3>2, ProcsAssumption DEF Procs
    <3> QED BY <2>1, <3>1, <3>2, <3>3 DEF Reserve, Free, pools
  <2>5. CASE busy > 0
    <3>1. i'[c] = i[c] /\ pc'[c] = "release"
      BY <1>1, <1>5, <2>5 DEF TypeOK, read_second_size
    <3> QED BY <2>1, <3>1 DEF Reserve, Free, pools
  <2> QED BY <2>2, <2>3, <2>4, <2>5
<1>6. ASSUME NEW c \in Controllers, Release(c) PROVE Reserve'
  <2>1. /\ release_size[c] \in Nat /\ release_size[c] >= 1 /\ Free >= 1
        /\ pc'[c] = "loop" /\ busy_pages' = busy_pages - release_size[c]
    BY <1>1, <1>6 DEF Release, EvictionKnows, TypeOK
  <2>2. Free' >= 2
    BY <1>1, <2>1, PagesAssumption DEF Free
  <2> QED BY <2>1, <2>2 DEF Reserve
<1>7. ASSUME NEW c \in Controllers, end_evict(c) PROVE Reserve'
  <2>1. /\ pc[c] = "loop" /\ i[c] = NumProcs /\ pc'[c] = "alloc" /\ UNCHANGED pools
    BY <1>1, <1>7 DEF TypeOK, end_evict
  <2>2. \A p \in Procs : p < NumProcs
    BY ProcsAssumption DEF Procs
  <2>3. Free >= 2
    <3>1. Free >= 1
      BY <2>1 DEF EvictionKnows
    <3>2. CASE Free = 1
      BY <2>1, <2>2, <3>2, SomeProcessOwns DEF Reserve
    <3> QED BY <1>1, <3>1, <3>2
  <2> QED BY <2>1, <2>3 DEF Reserve, Free, pools
<1>8. ASSUME NEW c \in Controllers, allocate_one_page(c) PROVE Reserve'
  <2>1. Free >= 2 /\ pc'[c] = "idle" /\ busy_pages' = busy_pages + 1
    BY <1>1, <1>8 DEF TypeOK, allocate_one_page, Reserve
  <2>2. Free' >= 1
    BY <1>1, <2>1, PagesAssumption DEF Free
  <2> QED BY <2>1, <2>2 DEF Reserve
<1>9. ASSUME NEW p \in Procs, NEW b \in Blocks, convert_to_dirty(p, b) PROVE Reserve'
  BY <1>9 DEF convert_to_dirty, Reserve, Free
<1>10. CASE UNCHANGED vars
  BY <1>10 DEF Reserve, vars, pools, locals, Free
<1> QED
  BY <1>2, <1>3, <1>4, <1>5, <1>6, <1>7, <1>8, <1>9, <1>10 DEF Next, Controller

\* With one controller and no store of another core inside an eviction, an
\* allocation always finds a block and the buffer always keeps one page in
\* reserve, so that should_reclaim (exactly one free page) cannot be missed.
THEOREM ReserveTheorem ==
    ASSUME NEW m, Controllers = {m}
    PROVE  Spec => [](AllocationFindsBlock /\ OnePageInReserve)
<1>1. Init => EvictionKnows /\ Reserve
  BY PagesAssumption DEF Init, EvictionKnows, Reserve, Free
<1>2. Structure /\ Reserve => AllocationFindsBlock /\ OnePageInReserve
  <2> SUFFICES ASSUME Structure, Reserve PROVE AllocationFindsBlock /\ OnePageInReserve
    OBVIOUS
  <2>1. /\ Len(global_clean_pool) \in Nat /\ Len(global_dirty_pool) \in Nat
        /\ busy_pages = TotalPages - Len(global_clean_pool) - Len(global_dirty_pool)
    BY LenProperties DEF Structure, TypeOK, PoolsPartitionBlocks
  <2>2. AllocationFindsBlock
    BY <2>1, PagesAssumption DEF AllocationFindsBlock, Reserve, Free
  <2>3. OnePageInReserve
    BY DEF OnePageInReserve, Reserve
  <2> QED BY <2>2, <2>3
<1> QED
  BY <1>1, <1>2, InitStructure, NextStructure, NextEvictionKnows, NextReserve, PTL DEF Spec
=============================================================================
