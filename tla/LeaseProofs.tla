---------------------------- MODULE LeaseProofs ----------------------------
(***************************************************************************)
(* What is kept while it is leased, on the host and on the device.         *)
(*                                                                         *)
(* The cache's books and the leases taken from it, proved for any number   *)
(* of threads and keys, any budget and either kind of policy: a leased     *)
(* store stays, the bytes and the eviction order agree with the cached     *)
(* stores, the budget holds, and LeasedPool is implemented.                *)
(*                                                                         *)
(* Then TargetLease, for any streams and leases: that refills wait for     *)
(* every reader, readers for the copies, and closing for both.             *)
(***************************************************************************)
EXTENDS ResourceCache, TargetLease, DataLemmas

-----------------------------------------------------------------------------
(* The inductive invariant *)

\* A factory runs for a thread that entered it from lease_many and holds the lock;
\* the stores it nests are distinct, registered and not cached.
Frames ==
    \A t \in Threads : building[t] # <<>> =>
        /\ lock = t /\ phase[t] = "entering" /\ want[t] # <<>>
        /\ \A i \in DOMAIN building[t] : building[t][i].key \in registered \ cached
        /\ \A i, j \in DOMAIN building[t] : building[t][i].key = building[t][j].key => i = j

\* LeasesCounted, with the finiteness that a cardinality needs.
Counted ==
    \A k \in Keys : IsFiniteSet(LeasesOf(k)) /\ leaseCount[k] = Cardinality(LeasesOf(k))

\* While a factory runs there is room for its estimate, unless factories nest.
RoomKept ==
    \/ Reenter
    \/ /\ \A t \in Threads : Len(building[t]) <= 1
       /\ \/ limit = Unlimited
          \/ /\ used <= limit
             /\ \A t \in Threads : building[t] # <<>> => used + Estimate[building[t][1].key] <= limit

IInv ==
    /\ TypeOK
    /\ Frames
    /\ LeasedStoreStays /\ Counted /\ cached \subseteq registered
    /\ UsedIsSum /\ OrderIsInactive
    /\ RoomKept

-----------------------------------------------------------------------------
(* Sums of bytes, and what is chosen to make room *)

\* Evicting V from c subtracts its bytes from the sum.
LEMMA SumWithout ==
  ASSUME NEW c, IsFiniteSet(c), NEW b, \A k \in c : b[k] \in Int, NEW V \in SUBSET c,
         NEW d, \A k \in c \ V : d[k] = b[k]
  PROVE  Sum(d, c \ V) = Sum(b, c) - Sum(b, V) /\ Sum(b, V) \in Int /\ Sum(b, c) \in Int
<1>1. IsFiniteSet(V) /\ IsFiniteSet(c \ V)
  BY FS_Subset
<1>2. Sum(b, c) = Sum(b, V) + Sum(b, c \ V)
  BY SumSplit
<1>3. Sum(b, V) \in Int /\ Sum(b, c) \in Int /\ Sum(b, c \ V) \in Int
  BY <1>1, SumType
<1>4. Sum(b, c \ V) = Sum(d, c \ V)
  <2>1. \A k \in c \ V : b[k] = d[k] /\ b[k] \in Int
    OBVIOUS
  <2> QED
    BY <1>1, <2>1, SumSame
<1> QED
  BY <1>2, <1>3, <1>4

\* And admitting k adds what it is worth.
LEMMA SumAdmit ==
  ASSUME NEW c, IsFiniteSet(c), NEW b, \A k \in c : b[k] \in Int, NEW V \in SUBSET c,
         NEW d, \A k \in c \ V : d[k] = b[k], NEW x, x \notin c, d[x] \in Int
  PROVE  Sum(d, (c \ V) \cup {x}) = Sum(b, c) - Sum(b, V) + d[x]
<1>1. IsFiniteSet(c \ V)
  BY FS_Subset
<1>2. Sum(d, (c \ V) \cup {x}) = Sum(d, c \ V) + d[x]
  <2>1. \A k \in (c \ V) \cup {x} : d[k] \in Int
    OBVIOUS
  <2> QED
    BY <1>1, <2>1, SumAdd
<1> QED
  BY <1>2, SumWithout

\* The bytes of cached entries are a natural number.
LEMMA BytesNat ==
  ASSUME TypeOK, NEW V \in SUBSET Keys
  PROVE  IsFiniteSet(V) /\ Bytes(V) = Sum(bytes, V) /\ Bytes(V) \in Nat /\ Bytes({}) = 0
<1>1. IsFiniteSet(V) /\ \A k \in V : bytes[k] \in Nat
  BY CacheAssumption, FS_Subset DEF TypeOK
<1>2. Bytes(V) = Sum(bytes, V) /\ Bytes({}) = Sum(bytes, {})
  BY DEF Bytes, Sum
<1> QED
  BY <1>1, <1>2, SumNat, SumEmpty

\* A policy's victims are inactive entries, and free what is needed.
LEMMA VictimsFree ==
  ASSUME TypeOK, NEW need \in Nat, NEW V \in Victims(need)
  PROVE  V \in SUBSET Candidates /\ Bytes(V) >= need
<1>1. CASE need = 0
  <2>1. V = {}
    BY <1>1 DEF Victims
  <2> QED
    BY <1>1, <2>1, BytesNat
<1>2. CASE need # 0 /\ ~LRU
  BY <1>2 DEF Victims
<1>3. CASE need # 0 /\ LRU
  <2>1. V \in LruVictims(need)
    BY <1>3 DEF Victims
  <2> DEFINE enough == {n \in 0 .. Len(order) : Bytes(Aged(n)) >= need}
  <2>2. CASE enough # {}
    <3>1. Len(order) \in Nat
      BY DEF TypeOK
    <3>2. enough \in SUBSET (0 .. Len(order))
      OBVIOUS
    <3>3. Min(enough) \in enough
      <4> HIDE DEF enough
      <4> QED
        BY <2>2, <3>1, <3>2, MinLeast
    <3>4. V = Aged(Min(enough))
      BY <2>1, <2>2 DEF LruVictims
    <3>5. Bytes(V) >= need
      BY <3>3, <3>4
    <3> QED
      BY <3>4, <3>5 DEF Aged, Worth
  <2>3. CASE enough = {}
    BY <2>1, <2>3 DEF LruVictims, Worth
  <2> QED
    BY <2>2, <2>3
<1> QED
  BY <1>1, <1>2, <1>3

\* Making room evicts inactive entries only, and what is required then fits.
LEMMA RoomFits ==
  ASSUME TypeOK, NEW required \in Nat, NEW max \in Limits \cup {Unlimited},
         NEW V \in Room(required, max)
  PROVE  /\ V \in SUBSET Candidates
         /\ max = Unlimited \/ used - Bytes(V) + required <= max
<1>1. CASE max = Unlimited
  BY <1>1 DEF Room
<1>2. CASE max # Unlimited
  <2> DEFINE need == BytesToFree(required, max)
  <2>1. max \in Nat /\ used \in Int
    BY <1>2, CacheAssumption DEF TypeOK
  <2>2. need \in Nat /\ used + required - need <= max
    BY <2>1 DEF BytesToFree
  <2>3. V \in Victims(need)
    BY <1>2 DEF Room
  <2> HIDE DEF need
  <2>4. V \in SUBSET Candidates /\ Bytes(V) >= need
    BY <2>2, <2>3, VictimsFree
  <2>5. Bytes(V) \in Nat
    BY <2>4, BytesNat DEF Candidates, TypeOK
  <2> QED
    BY <2>1, <2>2, <2>4, <2>5
<1> QED
  BY <1>1, <1>2

\* What the policy still knows after it is told to discard V.
LEMMA Discarded ==
  ASSUME TypeOK, OrderIsInactive, NEW V, IsFiniteSet(V)
  PROVE  /\ Discard(V) \in Seq(Keys)
         /\ ToSet(Discard(V)) = Candidates \ V
         /\ IsInjective(Discard(V))
<1>1. Discard(V) = Without(order, V)
  BY DEF Discard, Without
<1> QED
  BY <1>1, WithoutElements DEF TypeOK, OrderIsInactive

-----------------------------------------------------------------------------
(* Counting leases *)

\* A key with a lease out has a positive count.
LEMMA LeasedPositive ==
  ASSUME TypeOK, Counted, NEW k \in Keys
  PROVE  /\ leaseCount[k] \in Nat
         /\ \A t \in Threads : \A i \in DOMAIN holding[t] : holding[t][i].key = k => leaseCount[k] # 0
<1>1. IsFiniteSet(LeasesOf(k)) /\ leaseCount[k] = Cardinality(LeasesOf(k))
  BY DEF Counted
<1>2. leaseCount[k] \in Nat /\ (leaseCount[k] = 0 <=> LeasesOf(k) = {})
  BY <1>1, FS_CardinalityType, FS_EmptySet
<1>3. ASSUME NEW t \in Threads, NEW i \in DOMAIN holding[t], holding[t][i].key = k
      PROVE  <<t, i>> \in LeasesOf(k)
  BY <1>3 DEF LeasesOf
<1> QED
  BY <1>2, <1>3

\* A thread enters a lease of k: it is its latest, and k's count goes up.
LEMMA GrabCounts ==
  ASSUME TypeOK, Counted, NEW t \in Threads, NEW k \in Keys, NEW id \in Nat,
         holding' = Grabbed(t, k, id), leaseCount' = LeasedMore(k)
  PROVE  /\ holding' \in [Threads -> Seq(Lease)] /\ leaseCount' \in [Keys -> Int]
         /\ \A j \in Keys : leaseCount'[j] = IF j = k THEN leaseCount[k] + 1 ELSE leaseCount[j]
         /\ \A u \in Threads : \A i \in DOMAIN holding'[u] :
               \/ i \in DOMAIN holding[u] /\ holding'[u][i] = holding[u][i]
               \/ u = t /\ holding'[u][i] = [key |-> k, id |-> id]
         /\ \A u \in Threads, j \in Keys : Holds(u, j)' <=> Holds(u, j) \/ (u = t /\ j = k)
         /\ Counted'
<1> DEFINE l == [key |-> k, id |-> id]
           n == Len(holding[t])
           s == Append(holding[t], l)
<1>1. /\ holding \in [Threads -> Seq(Lease)] /\ leaseCount \in [Keys -> Int]
      /\ holding[t] \in Seq(Lease) /\ l \in Lease
  BY DEF TypeOK, Lease
<1>2. \A u \in Threads : holding'[u] = IF u = t THEN s ELSE holding[u]
  BY <1>1 DEF Grabbed
<1>3. \A j \in Keys : leaseCount'[j] = IF j = k THEN leaseCount[k] + 1 ELSE leaseCount[j]
  BY <1>1 DEF LeasedMore
<1>4. leaseCount' \in [Keys -> Int]
  BY <1>1 DEF LeasedMore
<1>5. /\ n \in Nat /\ DOMAIN holding[t] = 1 .. n
      /\ s \in Seq(Lease)
      /\ DOMAIN s = 1 .. n + 1
      /\ \A i \in 1 .. n : s[i] = holding[t][i]
      /\ s[n + 1] = l
  BY <1>1, AppendProperties
<1>6. holding' \in [Threads -> Seq(Lease)]
  BY <1>1, <1>5 DEF Grabbed
<1> HIDE DEF l, n, s
<1>7. ASSUME NEW u \in Threads, NEW i \in DOMAIN holding'[u]
      PROVE  \/ i \in DOMAIN holding[u] /\ holding'[u][i] = holding[u][i]
             \/ u = t /\ i = n + 1 /\ holding'[u][i] = l
  BY <1>2, <1>5
<1>8. ASSUME NEW u \in Threads, NEW i \in DOMAIN holding[u]
      PROVE  i \in DOMAIN holding'[u] /\ holding'[u][i] = holding[u][i]
  BY <1>2, <1>5
<1>9. n + 1 \in DOMAIN holding'[t] /\ holding'[t][n + 1] = l /\ n + 1 \notin DOMAIN holding[t]
  BY <1>2, <1>5
<1>10. l.key = k
  BY DEF l
<1>11. ASSUME NEW j \in Keys
       PROVE  IsFiniteSet(LeasesOf(j)') /\ leaseCount'[j] = Cardinality(LeasesOf(j)')
  <2>1. IsFiniteSet(LeasesOf(j)) /\ leaseCount[j] = Cardinality(LeasesOf(j))
    BY DEF Counted
  <2>2. CASE j = k
    <3>1. LeasesOf(j)' = LeasesOf(j) \cup {<<t, n + 1>>}
      <4>1. ASSUME NEW x \in LeasesOf(j)'
            PROVE  x \in LeasesOf(j) \cup {<<t, n + 1>>}
        <5>1. PICK u \in Threads : \E i \in DOMAIN holding'[u] : x = <<u, i>> /\ holding'[u][i].key = j
          BY <4>1 DEF LeasesOf
        <5>2. PICK i \in DOMAIN holding'[u] : x = <<u, i>> /\ holding'[u][i].key = j
          BY <5>1
        <5> QED
          BY <1>7, <5>2 DEF LeasesOf
      <4>2. ASSUME NEW x \in LeasesOf(j)
            PROVE  x \in LeasesOf(j)'
        <5>1. PICK u \in Threads : \E i \in DOMAIN holding[u] : x = <<u, i>> /\ holding[u][i].key = j
          BY <4>2 DEF LeasesOf
        <5>2. PICK i \in DOMAIN holding[u] : x = <<u, i>> /\ holding[u][i].key = j
          BY <5>1
        <5> QED
          BY <1>8, <5>2 DEF LeasesOf
      <4>3. <<t, n + 1>> \in LeasesOf(j)'
        BY <1>9, <1>10, <2>2 DEF LeasesOf
      <4> QED
        BY <4>1, <4>2, <4>3
    <3>2. <<t, n + 1>> \notin LeasesOf(j)
      BY <1>9 DEF LeasesOf
    <3> DEFINE T == LeasesOf(j)
               x == <<t, n + 1>>
    <3>3. IsFiniteSet(T) /\ x \notin T
      BY <2>1, <3>2
    <3> HIDE DEF T, x
    <3>4. IsFiniteSet(T \cup {x}) /\ Cardinality(T \cup {x}) = Cardinality(T) + 1
      BY <3>3, FS_AddElement
    <3> QED
      BY <1>3, <2>1, <2>2, <3>1, <3>4 DEF T, x
  <2>3. CASE j # k
    <3>1. LeasesOf(j)' = LeasesOf(j)
      <4>1. ASSUME NEW x \in LeasesOf(j)'
            PROVE  x \in LeasesOf(j)
        <5>1. PICK u \in Threads : \E i \in DOMAIN holding'[u] : x = <<u, i>> /\ holding'[u][i].key = j
          BY <4>1 DEF LeasesOf
        <5>2. PICK i \in DOMAIN holding'[u] : x = <<u, i>> /\ holding'[u][i].key = j
          BY <5>1
        <5> QED
          BY <1>7, <1>10, <2>3, <5>2 DEF LeasesOf
      <4>2. ASSUME NEW x \in LeasesOf(j)
            PROVE  x \in LeasesOf(j)'
        <5>1. PICK u \in Threads : \E i \in DOMAIN holding[u] : x = <<u, i>> /\ holding[u][i].key = j
          BY <4>2 DEF LeasesOf
        <5>2. PICK i \in DOMAIN holding[u] : x = <<u, i>> /\ holding[u][i].key = j
          BY <5>1
        <5> QED
          BY <1>8, <5>2 DEF LeasesOf
      <4> QED
        BY <4>1, <4>2
    <3> QED
      BY <1>3, <2>1, <2>3, <3>1
  <2> QED
    BY <2>2, <2>3
<1>12. Counted'
  BY <1>11 DEF Counted
<1>13. ASSUME NEW u \in Threads, NEW j \in Keys
       PROVE  Holds(u, j)' <=> Holds(u, j) \/ (u = t /\ j = k)
  BY <1>7, <1>8, <1>9, <1>10 DEF Holds
<1> QED
  BY <1>3, <1>4, <1>6, <1>7, <1>12, <1>13 DEF l

\* A thread releases its latest lease, and its key's count goes down.
LEMMA DropCounts ==
  ASSUME TypeOK, Counted, NEW t \in Threads, holding[t] # <<>>,
         NEW k \in Keys, k = holding[t][Len(holding[t])].key,
         holding' = [holding EXCEPT ![t] = Front(@)],
         leaseCount' = [leaseCount EXCEPT ![k] = @ - 1]
  PROVE  /\ holding' \in [Threads -> Seq(Lease)] /\ leaseCount' \in [Keys -> Int]
         /\ \A j \in Keys : leaseCount'[j] = IF j = k THEN leaseCount[k] - 1 ELSE leaseCount[j]
         /\ \A u \in Threads : \A i \in DOMAIN holding'[u] :
               i \in DOMAIN holding[u] /\ holding'[u][i] = holding[u][i]
         /\ \A u \in Threads, j \in Keys : Holds(u, j)' => Holds(u, j)
         /\ \A u \in Threads \ {t}, j \in Keys : Holds(u, j) => Holds(u, j)'
         /\ \A j \in Keys \ {k} : Holds(t, j) => Holds(t, j)'
         /\ \E i \in DOMAIN holding[t] : holding[t][i].key = k
         /\ Counted'
<1> DEFINE n == Len(holding[t])
<1>1. /\ holding \in [Threads -> Seq(Lease)] /\ leaseCount \in [Keys -> Int]
      /\ holding[t] \in Seq(Lease)
  BY DEF TypeOK
<1>2. /\ n \in Nat \ {0} /\ DOMAIN holding[t] = 1 .. n
      /\ Front(holding[t]) \in Seq(Lease)
      /\ DOMAIN Front(holding[t]) = 1 .. n - 1
      /\ \A i \in 1 .. n - 1 : Front(holding[t])[i] = holding[t][i]
      /\ holding[t][n] \in Lease
  BY <1>1, FrontElements
<1>4. \A u \in Threads : holding'[u] = IF u = t THEN Front(holding[t]) ELSE holding[u]
  BY <1>1
<1>5. \A j \in Keys : leaseCount'[j] = IF j = k THEN leaseCount[k] - 1 ELSE leaseCount[j]
  BY <1>1
<1>6. holding' \in [Threads -> Seq(Lease)]
  BY <1>1, <1>2
<1>7. leaseCount' \in [Keys -> Int]
  BY <1>1
<1>8. n \in DOMAIN holding[t] /\ n \notin DOMAIN holding'[t] /\ holding[t][n].key = k
  BY <1>2, <1>4
<1> HIDE DEF n
<1>9. ASSUME NEW u \in Threads, NEW i \in DOMAIN holding'[u]
      PROVE  i \in DOMAIN holding[u] /\ holding'[u][i] = holding[u][i]
  BY <1>2, <1>4
<1>10. ASSUME NEW u \in Threads, NEW i \in DOMAIN holding[u]
       PROVE  \/ i \in DOMAIN holding'[u] /\ holding'[u][i] = holding[u][i]
              \/ u = t /\ i = n /\ holding[u][i].key = k
  BY <1>2, <1>4, <1>8
<1>11. ASSUME NEW j \in Keys
       PROVE  IsFiniteSet(LeasesOf(j)') /\ leaseCount'[j] = Cardinality(LeasesOf(j)')
  <2>1. IsFiniteSet(LeasesOf(j)) /\ leaseCount[j] = Cardinality(LeasesOf(j))
    BY DEF Counted
  <2>2. ASSUME NEW x \in LeasesOf(j)'
        PROVE  x \in LeasesOf(j)
    <3>1. PICK u \in Threads : \E i \in DOMAIN holding'[u] : x = <<u, i>> /\ holding'[u][i].key = j
      BY <2>2 DEF LeasesOf
    <3>2. PICK i \in DOMAIN holding'[u] : x = <<u, i>> /\ holding'[u][i].key = j
      BY <3>1
    <3> QED
      BY <1>9, <3>2 DEF LeasesOf
  <2>3. ASSUME NEW x \in LeasesOf(j), x \notin LeasesOf(j)'
        PROVE  j = k /\ x = <<t, n>>
    <3>1. PICK u \in Threads : \E i \in DOMAIN holding[u] : x = <<u, i>> /\ holding[u][i].key = j
      BY <2>3 DEF LeasesOf
    <3>2. PICK i \in DOMAIN holding[u] : x = <<u, i>> /\ holding[u][i].key = j
      BY <3>1
    <3> QED
      BY <1>10, <2>3, <3>2 DEF LeasesOf
  <2>4. CASE j = k
    <3>1. <<t, n>> \in LeasesOf(j)
      BY <1>8, <2>4 DEF LeasesOf
    <3>2. <<t, n>> \notin LeasesOf(j)'
      BY <1>8 DEF LeasesOf
    <3>3. LeasesOf(j)' = LeasesOf(j) \ {<<t, n>>}
      BY <2>2, <2>3, <3>2
    <3> DEFINE T == LeasesOf(j)
               x == <<t, n>>
    <3>4. IsFiniteSet(T) /\ x \in T
      BY <2>1, <3>1
    <3> HIDE DEF T, x
    <3>5. IsFiniteSet(T \ {x}) /\ Cardinality(T \ {x}) = Cardinality(T) - 1
      BY <3>4, FS_RemoveElement
    <3> QED
      BY <1>5, <2>1, <2>4, <3>3, <3>5 DEF T, x
  <2>5. CASE j # k
    <3>1. LeasesOf(j)' = LeasesOf(j)
      BY <2>2, <2>3, <2>5
    <3> QED
      BY <1>5, <2>1, <2>5, <3>1
  <2> QED
    BY <2>4, <2>5
<1>12. Counted'
  BY <1>11 DEF Counted
<1>13. ASSUME NEW u \in Threads, NEW j \in Keys
       PROVE  /\ Holds(u, j)' => Holds(u, j)
              /\ Holds(u, j) => Holds(u, j)' \/ (u = t /\ j = k)
  BY <1>9, <1>10 DEF Holds
<1> QED
  BY <1>5, <1>6, <1>7, <1>8, <1>9, <1>12, <1>13

-----------------------------------------------------------------------------
(* Steps that make room *)

\* The types, of the stores' tables and of the rest.
TypedStores ==
    /\ used \in Int
    /\ cached \subseteq Keys
    /\ bytes \in [Keys -> Nat]
    /\ leaseCount \in [Keys -> Int]
    /\ built \in [Keys -> Nat]
    /\ order \in Seq(Keys)

TypedRest ==
    /\ setup \in Setups
    /\ lock \in Threads \cup {Nobody}
    /\ limit \in Limits \cup {Unlimited}
    /\ registered \subseteq Keys
    /\ building \in [Threads -> Seq(Frame)]
    /\ want \in [Threads -> Seq(Keys)]
    /\ holding \in [Threads -> Seq(Lease)]
    /\ phase \in [Threads -> {"idle", "entering", "using", "leaving"}]
    /\ calls \in 0 .. MaxCalls

\* Whatever is inactive may be evicted: the books stay right.
LEMMA EvictStores ==
  ASSUME IInv, NEW V \in SUBSET Candidates, Release(V)
  PROVE  /\ TypedStores' /\ UsedIsSum' /\ OrderIsInactive'
         /\ used' = used - Bytes(V) /\ Bytes(V) \in Nat
<1>1. V \in SUBSET cached /\ cached \in SUBSET Keys /\ IsFiniteSet(V) /\ IsFiniteSet(cached)
  BY CacheAssumption, FS_Subset DEF IInv, TypeOK, Candidates
<1>2. used \in Int /\ bytes \in [Keys -> Nat]
  BY DEF IInv, TypeOK
<1>3. bytes' = [k \in Keys |-> IF k \in V THEN 0 ELSE bytes[k]] /\ cached' = cached \ V
  BY DEF Release, Zeroed
<1>4. Bytes(V) \in Nat /\ Bytes(V) = Sum(bytes, V) /\ used = Sum(bytes, cached)
  BY <1>1, BytesNat DEF IInv, UsedIsSum
<1>5. used' = used - Bytes(V)
  BY DEF Release
<1>6. Sum(bytes', cached \ V) = Sum(bytes, cached) - Sum(bytes, V)
  <2>1. \A k \in cached \ V : bytes'[k] = bytes[k]
    BY <1>1, <1>3
  <2>2. \A k \in cached : bytes[k] \in Int
    BY <1>1, <1>2
  <2> QED
    BY <1>1, <2>1, <2>2, SumWithout
<1>7. UsedIsSum'
  <2>1. used' = Sum(bytes', cached')
    BY <1>3, <1>4, <1>5, <1>6
  <2>2. \A k \in Keys \ cached' : bytes'[k] = 0
    BY <1>3 DEF IInv, UsedIsSum
  <2>3. Bytes(cached)' = Sum(bytes', cached')
    BY DEF Bytes, Sum, MapThenSumSet, MapThenFoldSet
  <2> QED
    BY <2>1, <2>2, <2>3 DEF UsedIsSum
<1>8. /\ Discard(V) \in Seq(Keys)
      /\ ToSet(Discard(V)) = Candidates \ V
      /\ IsInjective(Discard(V))
  BY <1>1, Discarded DEF IInv
<1>9. OrderIsInactive'
  <2>1. Candidates' = Candidates \ V /\ order' = Discard(V)
    BY DEF Release, Candidates
  <2> QED
    BY <1>8, <2>1 DEF OrderIsInactive
<1>10. TypedStores'
  <2>1. bytes' \in [Keys -> Nat] /\ used' \in Int /\ cached' \subseteq Keys
    BY <1>1, <1>2, <1>3, <1>4, <1>5
  <2> QED
    BY <1>8, <2>1 DEF TypedStores, Release, IInv, TypeOK
<1> QED
  BY <1>4, <1>5, <1>7, <1>9, <1>10

\* And no lease is touched.
LEMMA EvictLeases ==
  ASSUME IInv, NEW V \in SUBSET Candidates, Release(V), holding' = holding, cached \ V \subseteq registered'
  PROVE  LeasedStoreStays' /\ Counted' /\ cached' \subseteq registered'
<1>1. Counted'
  BY DEF Release, IInv, Counted, LeasesOf
<1>2. cached' = cached \ V /\ built' = built
  BY DEF Release
<1>3. ASSUME NEW t \in Threads, NEW i \in DOMAIN holding[t]
      PROVE  holding[t][i].key \in cached \ V /\ built[holding[t][i].key] = holding[t][i].id
  <2>1. /\ holding[t][i].key \in cached \cap Keys
        /\ built[holding[t][i].key] = holding[t][i].id
    BY DEF IInv, LeasedStoreStays, TypeOK
  <2>2. leaseCount[holding[t][i].key] # 0
    BY <2>1, LeasedPositive DEF IInv
  <2> QED
    BY <2>1, <2>2 DEF Candidates
<1>4. LeasedStoreStays'
  BY <1>2, <1>3 DEF LeasedStoreStays
<1> QED
  BY <1>1, <1>2, <1>4

\* Outside the lock no factory runs.
LEMMA FreeLock ==
  ASSUME IInv, lock = Nobody
  PROVE  \A t \in Threads : building[t] = <<>>
BY CacheAssumption DEF IInv, Frames

\* An operation evicts what it may, under the limit it sets.
LEMMA EvictStep ==
  ASSUME IInv, NEW V \in SUBSET Candidates, Release(V), lock = Nobody,
         UNCHANGED <<lock, setup, threadVars>>,
         calls' \in 0 .. MaxCalls, limit' \in Limits \cup {Unlimited},
         registered' \subseteq Keys, cached \ V \subseteq registered',
         limit' = limit \/ limit' = Unlimited \/ used - Bytes(V) <= limit'
  PROVE  IInv'
<1>1. /\ TypedStores' /\ UsedIsSum' /\ OrderIsInactive'
      /\ used' = used - Bytes(V) /\ Bytes(V) \in Nat
  BY EvictStores
<1>2. LeasedStoreStays' /\ Counted' /\ cached' \subseteq registered'
  BY EvictLeases DEF threadVars
<1>3. \A t \in Threads : building'[t] = <<>>
  BY FreeLock DEF threadVars
<1>4. TypedRest'
  BY DEF IInv, TypeOK, TypedRest, threadVars
<1>5. TypeOK'
  BY <1>1, <1>4 DEF TypeOK, TypedStores, TypedRest
<1>6. Frames'
  BY <1>3 DEF Frames
<1>7. RoomKept'
  <2>1. used \in Int /\ used' \in Int /\ (limit = Unlimited \/ limit \in Nat)
    BY <1>1, CacheAssumption DEF IInv, TypeOK, TypedStores
  <2>2. CASE Reenter
    BY <2>2 DEF RoomKept, Reenter
  <2>3. CASE ~Reenter
    <3>1. limit = Unlimited \/ used <= limit
      BY <2>3 DEF IInv, RoomKept
    <3>2. limit' = Unlimited \/ used' <= limit'
      BY <1>1, <2>1, <3>1
    <3>3. \A t \in Threads : Len(building'[t]) <= 1
      BY <1>3
    <3> QED
      BY <1>3, <3>2, <3>3 DEF RoomKept
  <2> QED
    BY <2>2, <2>3
<1> QED
  BY <1>1, <1>2, <1>5, <1>6, <1>7 DEF IInv

\* A step that leaves stores, leases and factories alone.
LEMMA QuietStep ==
  ASSUME IInv, UNCHANGED <<lock, setup, limit, storeVars, building, holding>>,
         registered \subseteq registered', registered' \subseteq Keys,
         want' \in [Threads -> Seq(Keys)],
         phase' \in [Threads -> {"idle", "entering", "using", "leaving"}],
         calls' \in 0 .. MaxCalls,
         \A t \in Threads : building[t] # <<>> => phase'[t] = phase[t] /\ want'[t] = want[t]
  PROVE  IInv'
<1>1. TypeOK'
  BY DEF IInv, TypeOK, storeVars
<1>2. Frames'
  BY DEF IInv, Frames, storeVars
<1>3. LeasedStoreStays'
  BY DEF IInv, LeasedStoreStays, storeVars
<1>4. Counted' /\ (cached \subseteq registered)'
  BY DEF IInv, Counted, LeasesOf, storeVars
<1>5. UsedIsSum' /\ OrderIsInactive'
  <2>1. bytes' = bytes /\ cached' = cached /\ used' = used
    BY DEF storeVars
  <2>2. Bytes(cached) = Sum(bytes, cached) /\ Bytes(cached)' = Sum(bytes', cached')
    BY DEF Bytes, Sum, MapThenSumSet, MapThenFoldSet
  <2>3. Bytes(cached)' = Bytes(cached)
    BY <2>1, <2>2
  <2>4. UsedIsSum'
    BY <2>1, <2>3 DEF IInv, UsedIsSum
  <2> QED
    BY <2>4 DEF IInv, OrderIsInactive, Candidates, storeVars
<1>6. RoomKept'
  BY DEF IInv, RoomKept, Reenter, storeVars
<1> QED
  BY <1>1, <1>2, <1>3, <1>4, <1>5, <1>6 DEF IInv

-----------------------------------------------------------------------------
(* Leasing steps *)

\* A cached store is leased.
LEMMA HitStep ==
  ASSUME IInv, NEW t \in Threads, NEW k \in Keys, Hit(t, k),
         want' \in [Threads -> Seq(Keys)], calls' \in 0 .. MaxCalls,
         \A u \in Threads : building[u] # <<>> => want'[u] = want[u]
  PROVE  IInv'
<1>1. /\ k \in cached /\ built[k] \in Nat
      /\ leaseCount' = LeasedMore(k) /\ holding' = Grabbed(t, k, built[k])
      /\ UNCHANGED <<lock, setup, limit, registered, used, cached, bytes, built, building, phase>>
      /\ order' = Discard({k})
  BY DEF Hit, IInv, TypeOK
<1>2. /\ holding' \in [Threads -> Seq(Lease)] /\ leaseCount' \in [Keys -> Int]
      /\ \A j \in Keys : leaseCount'[j] = IF j = k THEN leaseCount[k] + 1 ELSE leaseCount[j]
      /\ \A u \in Threads : \A i \in DOMAIN holding'[u] :
            \/ i \in DOMAIN holding[u] /\ holding'[u][i] = holding[u][i]
            \/ u = t /\ holding'[u][i] = [key |-> k, id |-> built[k]]
      /\ Counted'
  <2> DEFINE id == built[k]
  <2>1. id \in Nat /\ holding' = Grabbed(t, k, id)
    BY <1>1
  <2> HIDE DEF id
  <2>2. TypeOK /\ Counted
    BY DEF IInv
  <2> QED
    BY <1>1, <2>1, <2>2, GrabCounts DEF id
<1>3. /\ Discard({k}) \in Seq(Keys)
      /\ ToSet(Discard({k})) = Candidates \ {k}
      /\ IsInjective(Discard({k}))
  BY FS_Singleton, Discarded DEF IInv
<1>4. TypeOK'
  BY <1>1, <1>2, <1>3 DEF IInv, TypeOK
<1>5. Frames'
  BY <1>1 DEF IInv, Frames
<1>6. LeasedStoreStays'
  <2>1. ASSUME NEW u \in Threads, NEW i \in DOMAIN holding'[u]
        PROVE  /\ holding'[u][i].key \in cached \cap registered
               /\ built[holding'[u][i].key] = holding'[u][i].id
    <3>1. CASE i \in DOMAIN holding[u] /\ holding'[u][i] = holding[u][i]
      BY <3>1 DEF IInv, LeasedStoreStays
    <3>2. CASE holding'[u][i] = [key |-> k, id |-> built[k]]
      BY <1>1, <3>2 DEF IInv
    <3> QED
      BY <1>2, <3>1, <3>2
  <2> QED
    BY <1>1, <2>1 DEF LeasedStoreStays
<1>7. UsedIsSum'
  <2>1. Bytes(cached) = Sum(bytes, cached) /\ Bytes(cached)' = Sum(bytes', cached')
    BY DEF Bytes, Sum, MapThenSumSet, MapThenFoldSet
  <2>2. Bytes(cached)' = Bytes(cached)
    BY <1>1, <2>1
  <2> QED
    BY <1>1, <2>2 DEF IInv, UsedIsSum
<1>8. OrderIsInactive'
  <2>1. leaseCount[k] \in Nat
    BY LeasedPositive DEF IInv
  <2>2. \A j \in cached : leaseCount'[j] = 0 <=> leaseCount[j] = 0 /\ j # k
    <3>1. cached \subseteq Keys /\ leaseCount \in [Keys -> Int]
      BY DEF IInv, TypeOK
    <3> QED
      BY <1>2, <2>1, <3>1
  <2>3. Candidates' = Candidates \ {k}
    BY <1>1, <2>2 DEF Candidates
  <2> QED
    BY <1>1, <1>3, <2>3 DEF OrderIsInactive
<1>9. RoomKept'
  BY <1>1 DEF IInv, RoomKept, Reenter
<1> QED
  BY <1>1, <1>2, <1>4, <1>5, <1>6, <1>7, <1>8, <1>9 DEF IInv

\* What is appended to a thread's frames, and what is taken off them.
LEMMA FramePush ==
  ASSUME TypeOK, NEW t \in Threads, NEW k \in Keys,
         building' = [building EXCEPT ![t] = Append(@, [key |-> k, base |-> Len(holding[t])])]
  PROVE  /\ building' \in [Threads -> Seq(Frame)]
         /\ \A u \in Threads : u # t => building'[u] = building[u]
         /\ building'[t] # <<>> /\ Len(building'[t]) = Len(building[t]) + 1
         /\ \A i \in DOMAIN building'[t] :
               \/ i \in DOMAIN building[t] /\ building'[t][i] = building[t][i]
               \/ i = Len(building[t]) + 1 /\ building'[t][i].key = k
         /\ building[t] = <<>> => building'[t][1].key = k
<1> DEFINE f == [key |-> k, base |-> Len(holding[t])]
           s == Append(building[t], f)
           n == Len(building[t])
<1>1. holding[t] \in Seq(Lease) /\ building \in [Threads -> Seq(Frame)] /\ building[t] \in Seq(Frame)
  BY DEF TypeOK
<1>2. f \in Frame /\ f.key = k
  BY <1>1 DEF Frame
<1> HIDE DEF f
<1>3. /\ s \in Seq(Frame) /\ s # <<>> /\ n \in Nat
      /\ DOMAIN building[t] = 1 .. n /\ DOMAIN s = 1 .. n + 1 /\ Len(s) = n + 1
      /\ \A i \in 1 .. n : s[i] = building[t][i]
      /\ s[n + 1] = f
  BY <1>1, <1>2, AppendProperties
<1>4. building' = [building EXCEPT ![t] = s]
  BY DEF f
<1> HIDE DEF s
<1>5. building[t] = <<>> => n = 0
  OBVIOUS
<1> HIDE DEF n
<1>6. building' \in [Threads -> Seq(Frame)] /\ building'[t] = s
  BY <1>1, <1>3, <1>4
<1>7. \A u \in Threads : u # t => building'[u] = building[u]
  BY <1>1, <1>4
<1>8. \A i \in DOMAIN building'[t] :
         \/ i \in DOMAIN building[t] /\ building'[t][i] = building[t][i]
         \/ i = n + 1 /\ building'[t][i].key = k
  BY <1>2, <1>3, <1>6
<1>9. building[t] = <<>> => building'[t][1].key = k
  BY <1>2, <1>3, <1>5, <1>6
<1> QED
  BY <1>3, <1>6, <1>7, <1>8, <1>9 DEF n

\* A factory that returns leaves the frames below it as they were.
LEMMA FramePop ==
  ASSUME TypeOK, NEW t \in Threads, building[t] # <<>>,
         building' = [building EXCEPT ![t] = Front(@)]
  PROVE  /\ building' \in [Threads -> Seq(Frame)]
         /\ \A u \in Threads : u # t => building'[u] = building[u]
         /\ Len(building[t]) \in Nat \ {0} /\ Len(building'[t]) = Len(building[t]) - 1
         /\ Len(building[t]) \in DOMAIN building[t]
         /\ building'[t] = <<>> <=> Len(building[t]) = 1
         /\ \A i \in DOMAIN building'[t] :
               /\ i \in DOMAIN building[t] /\ i # Len(building[t])
               /\ building'[t][i] = building[t][i]
<1> DEFINE s == Front(building[t])
           n == Len(building[t])
<1>1. building \in [Threads -> Seq(Frame)] /\ building[t] \in Seq(Frame)
  BY DEF TypeOK
<1>2. /\ s \in Seq(Frame) /\ n \in Nat \ {0} /\ Len(s) = n - 1
      /\ DOMAIN building[t] = 1 .. n /\ DOMAIN s = 1 .. n - 1
      /\ \A i \in 1 .. n - 1 : s[i] = building[t][i]
  BY <1>1, FrontElements
<1>3. s = <<>> <=> n = 1
  <2>1. s = <<>> <=> Len(s) = 0
    BY <1>2, EmptySeq
  <2> QED
    BY <1>2, <2>1
<1> HIDE DEF s, n
<1>4. building' \in [Threads -> Seq(Frame)] /\ building'[t] = s
  BY <1>1, <1>2 DEF s
<1>5. \A u \in Threads : u # t => building'[u] = building[u]
  BY <1>1
<1>6. n \in DOMAIN building[t]
  BY <1>2
<1>7. \A i \in DOMAIN building'[t] :
         i \in DOMAIN building[t] /\ i # n /\ building'[t][i] = building[t][i]
  BY <1>2, <1>4
<1> QED
  BY <1>2, <1>3, <1>4, <1>5, <1>6, <1>7 DEF n

\* A store that is not cached starts to be built, in the room made for its estimate.
LEMMA MissStep ==
  ASSUME IInv, NEW t \in Threads, NEW k \in Keys, Miss(t, k),
         calls' \in 0 .. MaxCalls, phase[t] = "entering", want[t] # <<>>,
         \/ lock = Nobody
         \/ Reenter /\ lock = t /\ \A i \in DOMAIN building[t] : building[t][i].key # k
  PROVE  IInv'
<1>1. PICK V \in Room(Estimate[k], limit) : Release(V)
  BY DEF Miss
<1>2. /\ k \notin cached /\ registered' = registered \cup {k} /\ lock' = t
      /\ building' = [building EXCEPT ![t] = Append(@, [key |-> k, base |-> Len(holding[t])])]
      /\ UNCHANGED <<setup, limit, want, holding, phase>>
  BY DEF Miss
<1>3. Estimate[k] \in Nat /\ limit \in Limits \cup {Unlimited}
  BY CacheAssumption DEF IInv, TypeOK
<1>4. /\ V \in SUBSET Candidates
      /\ limit = Unlimited \/ used - Bytes(V) + Estimate[k] <= limit
  BY <1>1, <1>3, RoomFits DEF IInv
<1>5. /\ TypedStores' /\ UsedIsSum' /\ OrderIsInactive'
      /\ used' = used - Bytes(V) /\ Bytes(V) \in Nat
  BY <1>1, <1>4, EvictStores
<1>6. LeasedStoreStays' /\ Counted' /\ cached' \subseteq registered'
  <2>1. cached \ V \subseteq registered'
    BY <1>2 DEF IInv
  <2> QED
    BY <1>1, <1>2, <1>4, <2>1, EvictLeases
<1>7. /\ building' \in [Threads -> Seq(Frame)]
      /\ \A u \in Threads : u # t => building'[u] = building[u]
      /\ building'[t] # <<>> /\ Len(building'[t]) = Len(building[t]) + 1
      /\ \A i \in DOMAIN building'[t] :
            \/ i \in DOMAIN building[t] /\ building'[t][i] = building[t][i]
            \/ i = Len(building[t]) + 1 /\ building'[t][i].key = k
      /\ building[t] = <<>> => building'[t][1].key = k
  BY <1>2, FramePush DEF IInv
<1>8. TypeOK'
  <2>1. registered' \subseteq Keys
    BY <1>2 DEF IInv, TypeOK
  <2> QED
    BY <1>2, <1>5, <1>7, <2>1 DEF IInv, TypeOK, TypedStores
<1>9. \A u \in Threads : u # t => building[u] = <<>>
  BY CacheAssumption DEF IInv, Frames
<1>10. \A i \in DOMAIN building[t] : building[t][i].key # k
  BY FreeLock
<1>11. Frames'
  <2>1. cached' = cached \ V
    BY <1>1 DEF Release
  <2>2. \A i \in DOMAIN building'[t] : building'[t][i].key \in registered' \ cached'
    BY <1>2, <1>7, <2>1 DEF IInv, Frames
  <2>3. ASSUME NEW i \in DOMAIN building'[t], NEW j \in DOMAIN building'[t],
               building'[t][i].key = building'[t][j].key
        PROVE  i = j
    BY <1>7, <1>10, <2>3 DEF IInv, Frames
  <2>4. \A u \in Threads : building'[u] # <<>> => u = t
    BY <1>7, <1>9
  <2> QED
    BY <1>2, <2>2, <2>3, <2>4 DEF Frames
<1>12. RoomKept'
  <2>1. CASE Reenter
    BY <1>2, <2>1 DEF RoomKept, Reenter
  <2>2. CASE ~Reenter
    <3>1. \A u \in Threads : building[u] = <<>>
      BY <2>2, FreeLock
    <3>2. Len(building'[t]) = 1 /\ \A u \in Threads : u # t => building'[u] = <<>>
      BY <1>7, <3>1
    <3>3. ASSUME NEW u \in Threads
          PROVE  Len(building'[u]) <= 1
      <4>1. CASE u = t
        <5>1. Len(building'[u]) = 1
          BY <3>2, <4>1
        <5> QED
          BY <5>1
      <4>2. CASE u # t
        <5>1. building'[u] = <<>> /\ Len(<<>>) = 0
          BY <3>2, <4>2
        <5> QED
          BY <5>1
      <4> QED
        BY <4>1, <4>2
    <3>4. building'[t][1].key = k
      BY <1>7, <3>1
    <3>5. ASSUME limit # Unlimited
          PROVE  used' + Estimate[k] <= limit' /\ used' <= limit'
      <4>1. used \in Int /\ limit \in Nat
        BY <1>3, <3>5, CacheAssumption DEF IInv, TypeOK
      <4> QED
        BY <1>2, <1>3, <1>4, <1>5, <3>5, <4>1
    <3>6. \A u \in Threads : building'[u] # <<>> => building'[u][1].key = k
      BY <3>2, <3>4
    <3> QED
      BY <1>2, <3>3, <3>5, <3>6 DEF RoomKept
  <2> QED
    BY <2>1, <2>2
<1> QED
  BY <1>5, <1>6, <1>8, <1>11, <1>12 DEF IInv

\* The innermost factory is over, and the frames below it stay.
LEMMA UnwindFrames ==
  ASSUME IInv, NEW t \in Threads, NEW k \in Keys, Returning(t, k), Unwind(t)
  PROVE  /\ building' \in [Threads -> Seq(Frame)]
         /\ lock = t /\ lock' \in {t, Nobody} /\ (building'[t] # <<>> => lock' = t)
         /\ phase[t] = "entering" /\ want[t] # <<>> /\ k \in registered \ cached
         /\ \A u \in Threads : u # t => building[u] = <<>> /\ building'[u] = <<>>
         /\ \A i \in DOMAIN building'[t] :
               /\ i \in DOMAIN building[t] /\ building'[t][i] = building[t][i]
               /\ building'[t][i].key # k
         /\ Len(building[t]) = 1 => building[t][1].key = k
         /\ Reenter \/ building'[t] = <<>>
<1>1. /\ lock = t /\ building[t] # <<>> /\ k = building[t][Len(building[t])].key
      /\ building' = [building EXCEPT ![t] = Front(@)]
      /\ lock' = IF building'[t] = <<>> THEN Nobody ELSE t
  BY DEF Returning, Unwind
<1>2. /\ building' \in [Threads -> Seq(Frame)]
      /\ \A u \in Threads : u # t => building'[u] = building[u]
      /\ Len(building[t]) \in Nat \ {0}
      /\ Len(building[t]) \in DOMAIN building[t]
      /\ building'[t] = <<>> <=> Len(building[t]) = 1
      /\ \A i \in DOMAIN building'[t] :
            /\ i \in DOMAIN building[t] /\ i # Len(building[t])
            /\ building'[t][i] = building[t][i]
  BY <1>1, FramePop DEF IInv
<1>3. /\ phase[t] = "entering" /\ want[t] # <<>>
      /\ \A i \in DOMAIN building[t] : building[t][i].key \in registered \ cached
      /\ \A i, j \in DOMAIN building[t] : building[t][i].key = building[t][j].key => i = j
  BY <1>1 DEF IInv, Frames
<1>4. \A u \in Threads : u # t => building[u] = <<>>
  BY <1>1 DEF IInv, Frames
<1>5. Reenter \/ Len(building[t]) = 1
  BY <1>2 DEF IInv, RoomKept
<1>6. \A i \in DOMAIN building'[t] : building'[t][i].key # k
  BY <1>1, <1>2, <1>3
<1> QED
  BY <1>1, <1>2, <1>3, <1>4, <1>5, <1>6

\* A failed build only ends the factory.
LEMMA BuildFailsStep ==
  ASSUME IInv, NEW t \in Threads, NEW k \in Keys, BuildFails(t, k)
  PROVE  IInv'
<1>1. /\ Returning(t, k) /\ Unwind(t)
      /\ phase' = [phase EXCEPT ![t] = IF building'[t] = <<>> THEN "leaving" ELSE @]
      /\ UNCHANGED <<setup, limit, registered, storeVars, want, holding, calls>>
  BY DEF BuildFails, Fail
<1>2. /\ building' \in [Threads -> Seq(Frame)]
      /\ lock = t /\ lock' \in {t, Nobody} /\ (building'[t] # <<>> => lock' = t)
      /\ phase[t] = "entering" /\ want[t] # <<>>
      /\ \A u \in Threads : u # t => building[u] = <<>> /\ building'[u] = <<>>
      /\ \A i \in DOMAIN building'[t] : i \in DOMAIN building[t] /\ building'[t][i] = building[t][i]
      /\ Reenter \/ building'[t] = <<>>
  BY <1>1, UnwindFrames
<1>3. TypeOK'
  BY <1>1, <1>2 DEF IInv, TypeOK, storeVars
<1>4. Frames'
  <2>1. \A u \in Threads : building'[u] # <<>> => u = t /\ building[t] # <<>> /\ phase'[t] = "entering"
    <3>1. building[t] # <<>>
      BY <1>1 DEF Returning
    <3> QED
      BY <1>1, <1>2, <3>1 DEF IInv, TypeOK
  <2> QED
    BY <1>1, <1>2, <2>1 DEF IInv, Frames, storeVars
<1>5. LeasedStoreStays' /\ Counted' /\ (cached \subseteq registered)'
  BY <1>1 DEF IInv, LeasedStoreStays, Counted, LeasesOf, storeVars
<1>6. UsedIsSum' /\ OrderIsInactive'
  <2>1. bytes' = bytes /\ cached' = cached /\ used' = used
    BY <1>1 DEF storeVars
  <2>2. Bytes(cached) = Sum(bytes, cached) /\ Bytes(cached)' = Sum(bytes', cached')
    BY DEF Bytes, Sum, MapThenSumSet, MapThenFoldSet
  <2>3. Bytes(cached)' = Bytes(cached)
    BY <2>1, <2>2
  <2>4. UsedIsSum'
    BY <2>1, <2>3 DEF IInv, UsedIsSum
  <2> QED
    BY <1>1, <2>4 DEF IInv, OrderIsInactive, Candidates, storeVars
<1>7. RoomKept'
  <2>1. CASE Reenter
    BY <1>1, <2>1 DEF RoomKept, Reenter
  <2>2. CASE ~Reenter
    <3>1. \A u \in Threads : building'[u] = <<>> /\ Len(<<>>) = 0
      BY <1>2, <2>2
    <3>2. \A u \in Threads : Len(building'[u]) <= 1
      BY <3>1
    <3>3. limit' = Unlimited \/ used' <= limit'
      BY <1>1, <2>2 DEF IInv, RoomKept, storeVars
    <3> QED
      BY <3>1, <3>2, <3>3 DEF RoomKept
  <2> QED
    BY <2>1, <2>2
<1> QED
  BY <1>3, <1>4, <1>5, <1>6, <1>7 DEF IInv

\* A lease is released; the store of the last one becomes inactive.
LEMMA ReleaseLastStep ==
  ASSUME IInv, NEW t \in Threads, ReleaseLast(t)
  PROVE  IInv'
<1> DEFINE k == holding[t][Len(holding[t])].key
<1>1. /\ holding[t] # <<>>
      /\ leaseCount' = [leaseCount EXCEPT ![k] = @ - 1]
      /\ order' = Released(k)
      /\ holding' = [holding EXCEPT ![t] = Front(@)]
      /\ UNCHANGED <<lock, setup, limit, registered, used, cached, bytes, built, building, want, phase, calls>>
  BY DEF ReleaseLast
<1>2. k = holding[t][Len(holding[t])].key
  OBVIOUS
<1> HIDE DEF k
<1>3. /\ k \in Keys
      /\ holding' \in [Threads -> Seq(Lease)] /\ leaseCount' \in [Keys -> Int]
      /\ \A j \in Keys : leaseCount'[j] = IF j = k THEN leaseCount[k] - 1 ELSE leaseCount[j]
      /\ \A u \in Threads : \A i \in DOMAIN holding'[u] :
            i \in DOMAIN holding[u] /\ holding'[u][i] = holding[u][i]
      /\ \E i \in DOMAIN holding[t] : holding[t][i].key = k
      /\ Counted'
  <2>1. TypeOK /\ Counted
    BY DEF IInv
  <2>2. k \in Keys
    <3>1. holding[t] \in Seq(Lease)
      BY <2>1 DEF TypeOK
    <3>2. holding[t][Len(holding[t])] \in Lease
      BY <1>1, <3>1, FrontElements
    <3> QED
      BY <1>2, <3>2 DEF Lease
  <2>3. /\ holding[t] # <<>>
        /\ holding' = [holding EXCEPT ![t] = Front(@)]
        /\ leaseCount' = [leaseCount EXCEPT ![k] = @ - 1]
    BY <1>1
  <2>4. Counted'
    BY <1>2, <2>1, <2>2, <2>3, DropCounts
  <2>5. holding' \in [Threads -> Seq(Lease)] /\ leaseCount' \in [Keys -> Int]
    BY <1>2, <2>1, <2>2, <2>3, DropCounts
  <2>6. \A j \in Keys : leaseCount'[j] = IF j = k THEN leaseCount[k] - 1 ELSE leaseCount[j]
    BY <1>2, <2>1, <2>2, <2>3, DropCounts
  <2>7. \A u \in Threads : \A i \in DOMAIN holding'[u] :
            i \in DOMAIN holding[u] /\ holding'[u][i] = holding[u][i]
    BY <1>2, <2>1, <2>2, <2>3, DropCounts
  <2>8. \E i \in DOMAIN holding[t] : holding[t][i].key = k
    BY <1>2, <2>1, <2>2, <2>3, DropCounts
  <2> QED
    BY <2>2, <2>4, <2>5, <2>6, <2>7, <2>8
<1>4. k \in cached /\ leaseCount[k] \in Nat /\ leaseCount[k] # 0
  <2>1. k \in cached
    BY <1>3 DEF IInv, LeasedStoreStays
  <2> QED
    BY <1>3, <2>1, LeasedPositive DEF IInv
<1>5. /\ Discard({k}) \in Seq(Keys)
      /\ ToSet(Discard({k})) = Candidates \ {k}
      /\ IsInjective(Discard({k}))
  BY FS_Singleton, Discarded DEF IInv
<1>6. \A j \in Keys : leaseCount'[j] = 0 <=> (leaseCount[j] = 0 \/ (j = k /\ leaseCount[k] = 1))
  <2>1. leaseCount \in [Keys -> Int]
    BY DEF IInv, TypeOK
  <2> QED
    BY <1>3, <1>4, <2>1
<1>7. order' \in Seq(Keys) /\ OrderIsInactive'
  <2>0. cached \subseteq Keys /\ order \in Seq(Keys)
    BY DEF IInv, TypeOK
  <2>1. CASE leaseCount[k] = 1
    <3>1. order' = Append(Discard({k}), k)
      BY <1>1, <2>1 DEF Released
    <3> DEFINE rest == Discard({k})
    <3>2. rest \in Seq(Keys) /\ ToSet(rest) = Candidates \ {k} /\ IsInjective(rest)
      BY <1>5
    <3>3. order' = Append(rest, k)
      BY <3>1
    <3> HIDE DEF rest
    <3>4. /\ order' \in Seq(Keys)
          /\ ToSet(order') = (Candidates \ {k}) \cup {k}
          /\ IsInjective(order')
      BY <1>3, <3>2, <3>3, ToSetAppend
    <3>5. Candidates' = Candidates \cup {k}
      BY <1>1, <1>4, <1>6, <2>0, <2>1 DEF Candidates
    <3> QED
      BY <3>4, <3>5 DEF OrderIsInactive
  <2>2. CASE leaseCount[k] # 1
    <3>1. order' = order
      BY <1>1, <2>2 DEF Released
    <3>2. Candidates' = Candidates
      BY <1>1, <1>6, <2>0, <2>2 DEF Candidates
    <3> QED
      BY <2>0, <3>1, <3>2 DEF IInv, OrderIsInactive
  <2> QED
    BY <2>1, <2>2
<1>8. TypeOK'
  BY <1>1, <1>3, <1>7 DEF IInv, TypeOK
<1>9. Frames'
  BY <1>1 DEF IInv, Frames
<1>10. LeasedStoreStays' /\ cached' \subseteq registered'
  BY <1>1, <1>3 DEF IInv, LeasedStoreStays
<1>11. UsedIsSum'
  <2>1. Bytes(cached) = Sum(bytes, cached) /\ Bytes(cached)' = Sum(bytes', cached')
    BY DEF Bytes, Sum, MapThenSumSet, MapThenFoldSet
  <2>2. Bytes(cached)' = Bytes(cached)
    BY <1>1, <2>1
  <2> QED
    BY <1>1, <2>2 DEF IInv, UsedIsSum
<1>12. RoomKept'
  BY <1>1 DEF IInv, RoomKept, Reenter
<1> QED
  BY <1>3, <1>7, <1>8, <1>9, <1>10, <1>11, <1>12 DEF IInv

\* A store is admitted at its actual size, in the room there is for it, and leased.
LEMMA AdmitStep ==
  ASSUME IInv, NEW t \in Threads, NEW k \in Keys, Admit(t, k)
  PROVE  IInv'
<1>1. PICK size \in Actual[k] :
         /\ Accepts(size)
         /\ \E V \in IF size > Estimate[k] THEN Room(size, limit) ELSE {{}} :
               /\ cached' = (cached \ V) \cup {k}
               /\ bytes' = [Zeroed(V) EXCEPT ![k] = size]
               /\ used' = used - Bytes(V) + size
               /\ order' = Discard(V \cup {k})
  BY DEF Admit
<1>2. PICK V \in IF size > Estimate[k] THEN Room(size, limit) ELSE {{}} :
               /\ cached' = (cached \ V) \cup {k}
               /\ bytes' = [Zeroed(V) EXCEPT ![k] = size]
               /\ used' = used - Bytes(V) + size
               /\ order' = Discard(V \cup {k})
  BY <1>1
<1>3. /\ Returning(t, k) /\ Unwind(t)
      /\ leaseCount' = LeasedMore(k)
      /\ built' = [built EXCEPT ![k] = @ + 1]
      /\ holding' = Grabbed(t, k, built'[k])
      /\ want' = [want EXCEPT ![t] = IF building'[t] = <<>> THEN Tail(@) ELSE @]
      /\ UNCHANGED <<setup, limit, registered, phase, calls>>
  BY DEF Admit
<1>4. /\ size \in Nat /\ Estimate[k] \in Nat
      /\ limit \in Limits \cup {Unlimited} /\ (limit = Unlimited \/ limit \in Nat)
      /\ used \in Int /\ bytes \in [Keys -> Nat] /\ built \in [Keys -> Nat]
      /\ leaseCount \in [Keys -> Int]
      /\ cached \in SUBSET Keys /\ IsFiniteSet(cached)
  BY <1>1, CacheAssumption, FS_Subset DEF Accepts, IInv, TypeOK
<1>5. /\ building' \in [Threads -> Seq(Frame)]
      /\ lock = t /\ lock' \in {t, Nobody} /\ (building'[t] # <<>> => lock' = t)
      /\ phase[t] = "entering" /\ want[t] # <<>> /\ k \in registered \ cached
      /\ \A u \in Threads : u # t => building[u] = <<>> /\ building'[u] = <<>>
      /\ \A i \in DOMAIN building'[t] :
            /\ i \in DOMAIN building[t] /\ building'[t][i] = building[t][i]
            /\ building'[t][i].key # k
      /\ Len(building[t]) = 1 => building[t][1].key = k
      /\ Reenter \/ building'[t] = <<>>
  BY <1>3, UnwindFrames
<1>6. V \in SUBSET Candidates /\ (size > Estimate[k] => limit = Unlimited \/ used - Bytes(V) + size <= limit)
  <2>1. CASE size > Estimate[k]
    <3>1. V \in Room(size, limit)
      BY <1>2, <2>1
    <3> QED
      BY <1>4, <3>1, RoomFits DEF IInv
  <2>2. CASE ~(size > Estimate[k])
    <3>1. V = {}
      BY <1>2, <2>2
    <3> QED
      BY <2>2, <3>1
  <2> QED
    BY <2>1, <2>2
<1>7. /\ V \in SUBSET cached /\ IsFiniteSet(V) /\ k \notin V
      /\ Bytes(V) \in Nat /\ Bytes(V) = Sum(bytes, V) /\ used = Sum(bytes, cached)
  <2>1. V \in SUBSET cached /\ V \in SUBSET Keys
    BY <1>4, <1>6 DEF Candidates
  <2> QED
    BY <1>4, <1>5, <2>1, BytesNat DEF IInv, UsedIsSum
<1>8. \A j \in Keys : bytes'[j] = IF j = k THEN size ELSE IF j \in V THEN 0 ELSE bytes[j]
  BY <1>2 DEF Zeroed
<1>9. bytes' \in [Keys -> Nat]
  BY <1>2, <1>4 DEF Zeroed
<1>10. UsedIsSum'
  <2>1. Sum(bytes', (cached \ V) \cup {k}) = Sum(bytes, cached) - Sum(bytes, V) + bytes'[k]
    <3>1. \A j \in cached \ V : bytes'[j] = bytes[j]
      BY <1>4, <1>5, <1>8
    <3>2. \A j \in cached : bytes[j] \in Int
      BY <1>4
    <3>3. bytes'[k] \in Int /\ k \notin cached
      BY <1>4, <1>5, <1>8
    <3> QED
      BY <1>4, <1>7, <3>1, <3>2, <3>3, SumAdmit
  <2>2. bytes'[k] = size
    BY <1>8
  <2>3. Bytes(cached)' = Sum(bytes', cached')
    BY DEF Bytes, Sum, MapThenSumSet, MapThenFoldSet
  <2>4. used' = Bytes(cached)'
    BY <1>2, <1>7, <2>1, <2>2, <2>3
  <2>5. \A j \in Keys \ cached' : bytes'[j] = 0
    BY <1>2, <1>8 DEF IInv, UsedIsSum
  <2> QED
    BY <2>4, <2>5 DEF UsedIsSum
<1>11. /\ Discard(V \cup {k}) \in Seq(Keys)
       /\ ToSet(Discard(V \cup {k})) = Candidates \ (V \cup {k})
       /\ IsInjective(Discard(V \cup {k}))
  <2>1. IsFiniteSet(V \cup {k})
    BY <1>7, FS_AddElement
  <2> QED
    BY <2>1, Discarded DEF IInv
<1>12. /\ holding' \in [Threads -> Seq(Lease)] /\ leaseCount' \in [Keys -> Int]
       /\ \A j \in Keys : leaseCount'[j] = IF j = k THEN leaseCount[k] + 1 ELSE leaseCount[j]
       /\ \A u \in Threads : \A i \in DOMAIN holding'[u] :
             \/ i \in DOMAIN holding[u] /\ holding'[u][i] = holding[u][i]
             \/ u = t /\ holding'[u][i] = [key |-> k, id |-> built'[k]]
       /\ Counted'
  <2> DEFINE id == built'[k]
  <2>1. id \in Nat /\ holding' = Grabbed(t, k, id)
    BY <1>3, <1>4
  <2> HIDE DEF id
  <2>2. TypeOK /\ Counted
    BY DEF IInv
  <2> QED
    BY <1>3, <2>1, <2>2, GrabCounts DEF id
<1>13. OrderIsInactive'
  <2>1. leaseCount[k] \in Nat
    BY LeasedPositive DEF IInv
  <2>2. \A j \in Keys : leaseCount'[j] = 0 <=> leaseCount[j] = 0 /\ j # k
    BY <1>4, <1>12, <2>1
  <2>3. Candidates' = Candidates \ (V \cup {k})
    BY <1>2, <1>4, <2>2 DEF Candidates
  <2> QED
    BY <1>2, <1>11, <2>3 DEF OrderIsInactive
<1>14. LeasedStoreStays' /\ cached' \subseteq registered'
  <2>1. \A j \in Keys : built'[j] = IF j = k THEN built[k] + 1 ELSE built[j]
    BY <1>3, <1>4
  <2>2. ASSUME NEW u \in Threads, NEW i \in DOMAIN holding'[u]
        PROVE  /\ holding'[u][i].key \in cached' \cap registered
               /\ built'[holding'[u][i].key] = holding'[u][i].id
    <3>1. CASE i \in DOMAIN holding[u] /\ holding'[u][i] = holding[u][i]
      <4> DEFINE l == holding[u][i]
      <4>1. l.key \in cached \cap registered /\ built[l.key] = l.id
        BY <3>1 DEF IInv, LeasedStoreStays
      <4>2. leaseCount[l.key] # 0
        BY <1>4, <3>1, <4>1, LeasedPositive DEF IInv
      <4>3. l.key \in Keys /\ l.key # k /\ l.key \notin V
        BY <1>4, <1>5, <1>6, <4>1, <4>2 DEF Candidates
      <4> HIDE DEF l
      <4> QED
        BY <1>2, <2>1, <3>1, <4>1, <4>3 DEF l
    <3>2. CASE holding'[u][i] = [key |-> k, id |-> built'[k]]
      BY <1>2, <1>5, <3>2
    <3> QED
      BY <1>12, <3>1, <3>2
  <2>3. LeasedStoreStays'
    BY <1>3, <2>2 DEF LeasedStoreStays
  <2> QED
    BY <1>2, <1>3, <1>5, <2>3 DEF IInv
<1>15. TypeOK'
  <2>1. cached' \subseteq Keys /\ built' \in [Keys -> Nat] /\ used' \in Int
    BY <1>2, <1>3, <1>4, <1>7
  <2>2. want' \in [Threads -> Seq(Keys)]
    <3>1. want \in [Threads -> Seq(Keys)] /\ want[t] \in Seq(Keys)
      BY DEF IInv, TypeOK
    <3>2. Tail(want[t]) \in Seq(Keys)
      BY <1>5, <3>1, HeadTailProperties
    <3> QED
      BY <1>3, <3>1, <3>2
  <2>3. order' \in Seq(Keys)
    BY <1>2, <1>11
  <2> QED
    BY <1>3, <1>5, <1>9, <1>12, <2>1, <2>2, <2>3 DEF IInv, TypeOK
<1>16. Frames'
  <2>1. \A u \in Threads : building'[u] # <<>> => u = t
    BY <1>5
  <2>2. building'[t] # <<>> => want'[t] = want[t]
    BY <1>3 DEF IInv, TypeOK
  <2>3. building[t] # <<>>
    BY <1>3 DEF Returning
  <2>4. \A i \in DOMAIN building'[t] : building'[t][i].key \in registered' \ cached'
    BY <1>2, <1>3, <1>5, <2>3 DEF IInv, Frames
  <2>5. \A i, j \in DOMAIN building'[t] : building'[t][i].key = building'[t][j].key => i = j
    BY <1>5, <2>3 DEF IInv, Frames
  <2> QED
    BY <1>3, <1>5, <2>1, <2>2, <2>4, <2>5 DEF Frames
<1>17. RoomKept'
  <2>1. CASE Reenter
    BY <1>3, <2>1 DEF RoomKept, Reenter
  <2>2. CASE ~Reenter
    <3>1. \A u \in Threads : building'[u] = <<>> /\ Len(<<>>) = 0
      BY <1>5, <2>2
    <3>2. \A u \in Threads : Len(building'[u]) <= 1
      BY <3>1
    <3>3. limit = Unlimited \/ used + Estimate[k] <= limit
      <4>1. building[t] # <<>> /\ k = building[t][Len(building[t])].key /\ Len(building[t]) <= 1
        BY <1>3, <2>2 DEF Returning, IInv, RoomKept
      <4>2. Len(building[t]) = 1
        <5>1. building[t] \in Seq(Frame)
          BY DEF IInv, TypeOK
        <5>2. Len(building[t]) \in Nat \ {0}
          BY <4>1, <5>1, EmptySeq
        <5> DEFINE n == Len(building[t])
        <5>3. n \in Nat \ {0} /\ n <= 1
          BY <4>1, <5>2
        <5> HIDE DEF n
        <5>4. n = 1
          BY <5>3
        <5> QED
          BY <5>4 DEF n
      <4> QED
        BY <1>5, <2>2, <4>1, <4>2 DEF IInv, RoomKept
    <3>4. limit = Unlimited \/ used - Bytes(V) + size <= limit
      <4>1. Bytes(V) \in Nat
        BY <1>7
      <4> HIDE DEF Bytes
      <4> QED
        BY <1>4, <1>6, <3>3, <4>1
    <3> QED
      BY <1>2, <1>3, <3>1, <3>2, <3>4 DEF RoomKept
  <2> QED
    BY <2>1, <2>2
<1> QED
  BY <1>10, <1>12, <1>13, <1>14, <1>15, <1>16, <1>17 DEF IInv

-----------------------------------------------------------------------------
(* The invariant holds *)

\* Every case of the next-state relation preserves it.
LEMMA IInvStep == IInv /\ [Next]_vars => IInv'
<1>1. SUFFICES ASSUME IInv, [Next]_vars
               PROVE  IInv'
  OBVIOUS
<1>2. /\ TypeOK
      /\ want \in [Threads -> Seq(Keys)]
      /\ phase \in [Threads -> {"idle", "entering", "using", "leaving"}]
      /\ registered \subseteq Keys /\ calls \in 0 .. MaxCalls /\ MaxCalls \in Nat
      /\ limit \in Limits \cup {Unlimited}
      /\ \A t \in Threads : building[t] # <<>> => lock = t /\ phase[t] = "entering" /\ want[t] # <<>>
  BY <1>1, CacheAssumption DEF IInv, TypeOK, Frames
<1>3. ASSUME NEW t \in Threads, CallLease(t)
      PROVE  IInv'
  <2>1. want' \in [Threads -> Seq(Keys)]
    BY <1>2, <1>3, CacheAssumption DEF CallLease
  <2>2. /\ phase' \in [Threads -> {"idle", "entering", "using", "leaving"}]
        /\ calls' \in 0 .. MaxCalls
    BY <1>2, <1>3 DEF CallLease
  <2>3. \A u \in Threads : building[u] # <<>> => phase'[u] = phase[u] /\ want'[u] = want[u]
    BY <1>2, <1>3 DEF CallLease
  <2>4. registered' = registered /\ UNCHANGED <<lock, setup, limit, storeVars, building, holding>>
    BY <1>3 DEF CallLease
  <2> QED
    BY <1>1, <1>2, <2>1, <2>2, <2>3, <2>4, QuietStep
<1>4. ASSUME NEW t \in Threads, Entered(t) \/ Leave(t) \/ Left(t)
      PROVE  IInv'
  <2>1. want' \in [Threads -> Seq(Keys)]
    <3>1. <<>> \in Seq(Keys)
      OBVIOUS
    <3>2. want' = want \/ want' = [want EXCEPT ![t] = <<>>]
      BY <1>4 DEF Entered, Leave, Left
    <3> QED
      BY <1>2, <3>1, <3>2
  <2>2. /\ phase' \in [Threads -> {"idle", "entering", "using", "leaving"}]
        /\ calls' \in 0 .. MaxCalls
    BY <1>2, <1>4 DEF Entered, Leave, Left
  <2>3. \A u \in Threads : building[u] # <<>> => phase'[u] = phase[u] /\ want'[u] = want[u]
    BY <1>2, <1>4 DEF Entered, Leave, Left
  <2>4. registered' = registered /\ UNCHANGED <<lock, setup, limit, storeVars, building, holding>>
    BY <1>4 DEF Entered, Leave, Left
  <2> QED
    BY <1>1, <1>2, <2>1, <2>2, <2>3, <2>4, QuietStep
<1>5. ASSUME NEW t \in Threads, NEW k \in Keys, EnterHit(t, k) \/ NestHit(t, k)
      PROVE  IInv'
  <2>1. Hit(t, k)
    BY <1>5 DEF EnterHit, NestHit
  <2>2. calls' \in 0 .. MaxCalls
    BY <1>2, <1>5 DEF EnterHit, NestHit, Entering, Nesting
  <2>3. CASE EnterHit(t, k)
    <3>1. lock = Nobody /\ want[t] # <<>> /\ want' = [want EXCEPT ![t] = Tail(@)]
      BY <2>3 DEF EnterHit, Entering
    <3>2. Tail(want[t]) \in Seq(Keys)
      BY <1>2, <3>1, HeadTailProperties
    <3>3. want' \in [Threads -> Seq(Keys)]
      BY <1>2, <3>1, <3>2
    <3>4. \A u \in Threads : building[u] # <<>> => want'[u] = want[u]
      BY <1>1, <3>1, FreeLock
    <3> QED
      BY <1>1, <2>1, <2>2, <3>3, <3>4, HitStep
  <2>4. CASE NestHit(t, k)
    <3>1. want' = want
      BY <2>4 DEF NestHit
    <3> QED
      BY <1>1, <1>2, <2>1, <2>2, <3>1, HitStep
  <2> QED
    BY <1>5, <2>3, <2>4
<1>6. ASSUME NEW t \in Threads, NEW k \in Keys, EnterMiss(t, k) \/ NestMiss(t, k)
      PROVE  IInv'
  <2>1. Miss(t, k)
    BY <1>6 DEF EnterMiss, NestMiss
  <2>2. calls' \in 0 .. MaxCalls
    BY <1>2, <1>6 DEF EnterMiss, NestMiss, Entering, Nesting
  <2>3. phase[t] = "entering" /\ want[t] # <<>>
    BY <1>2, <1>6 DEF EnterMiss, NestMiss, Entering, Nesting
  <2>4. \/ lock = Nobody
        \/ Reenter /\ lock = t /\ \A i \in DOMAIN building[t] : building[t][i].key # k
    BY <1>6 DEF EnterMiss, NestMiss, Entering, Nesting
  <2> QED
    BY <1>1, <2>1, <2>2, <2>3, <2>4, MissStep
<1>7. ASSUME NEW t \in Threads, NEW k \in Keys, EnterFails(t, k) \/ NestFails(t, k)
      PROVE  IInv'
  <2>1. MissFails(t, k)
    BY <1>7 DEF EnterFails, NestFails
  <2>2. calls' \in 0 .. MaxCalls
    BY <1>2, <1>7 DEF EnterFails, NestFails, Entering, Nesting
  <2>3. phase' = [phase EXCEPT ![t] = IF building'[t] = <<>> THEN "leaving" ELSE @]
    BY <2>1 DEF MissFails, Fail
  <2>4. registered \subseteq registered' /\ registered' \subseteq Keys
    BY <1>2, <2>1 DEF MissFails
  <2>5. UNCHANGED <<lock, setup, limit, storeVars, building, want, holding>>
    BY <2>1 DEF MissFails
  <2>6. phase' \in [Threads -> {"idle", "entering", "using", "leaving"}]
    BY <1>2, <2>3
  <2>7. \A u \in Threads : building[u] # <<>> => phase'[u] = phase[u] /\ want'[u] = want[u]
    BY <1>2, <2>3, <2>5
  <2>8. want' \in [Threads -> Seq(Keys)]
    BY <1>2, <2>5
  <2> QED
    BY <1>1, <2>2, <2>4, <2>5, <2>6, <2>7, <2>8, QuietStep
<1>8. ASSUME NEW max \in Limits, Resize(max)
      PROVE  IInv'
  <2>1. /\ lock = Nobody /\ calls' \in 0 .. MaxCalls
        /\ UNCHANGED <<setup, lock, registered, threadVars>>
    BY <1>2, <1>8 DEF Resize, Calling
  <2>2. CASE limit' = max /\ \E V \in Room(0, max) : Release(V)
    <3>1. PICK V \in Room(0, max) : Release(V)
      BY <2>2
    <3>2. max \in Limits \cup {Unlimited}
      OBVIOUS
    <3>3. V \in SUBSET Candidates /\ (max = Unlimited \/ used - Bytes(V) + 0 <= max)
      BY <1>2, <3>1, <3>2, RoomFits
    <3>4. max = Unlimited \/ used - Bytes(V) <= max
      <4>1. Bytes(V) \in Nat /\ used \in Int
        BY <1>1, <3>1, <3>3, EvictStores DEF IInv, TypeOK
      <4> QED
        BY <3>3, <4>1
    <3>5. registered' \subseteq Keys /\ cached \ V \subseteq registered'
      BY <1>1, <1>2, <2>1 DEF IInv
    <3>6. limit' \in Limits \cup {Unlimited} /\ (limit' = Unlimited \/ used - Bytes(V) <= limit')
      BY <2>2, <3>2, <3>4
    <3>7. UNCHANGED <<lock, setup, threadVars>>
      BY <2>1
    <3> QED
      BY <1>1, <2>1, <3>1, <3>3, <3>5, <3>6, <3>7, EvictStep
  <2>3. CASE UNCHANGED <<limit, storeVars>>
    <3>1. /\ registered' = registered /\ want' = want /\ phase' = phase
          /\ UNCHANGED <<lock, setup, limit, storeVars, building, holding>>
      BY <2>1, <2>3 DEF threadVars
    <3> QED
      BY <1>1, <1>2, <2>1, <3>1, QuietStep
  <2> QED
    BY <1>8, <2>2, <2>3 DEF Resize
<1>9. ASSUME NEW V \in SUBSET Candidates, Release(V), Calling,
             UNCHANGED <<setup, lock, limit, threadVars>>,
             registered' \subseteq Keys, cached \ V \subseteq registered'
      PROVE  IInv'
  <2>1. /\ lock = Nobody /\ calls' \in 0 .. MaxCalls /\ limit' = limit
        /\ UNCHANGED <<lock, setup, threadVars>>
    BY <1>2, <1>9 DEF Calling
  <2>2. limit' \in Limits \cup {Unlimited}
    BY <1>2, <2>1
  <2> QED
    BY <1>1, <1>9, <2>1, <2>2, EvictStep
<1>10. ASSUME NEW n \in Frees, EvictBytes(n)
       PROVE  IInv'
  <2> DEFINE need == IF n < Bytes(Candidates) THEN n ELSE Bytes(Candidates)
  <2>1. PICK V \in Victims(need) : Release(V)
    BY <1>10 DEF EvictBytes
  <2>2. need \in Nat
    <3>1. Candidates \in SUBSET Keys
      BY <1>2 DEF Candidates, TypeOK
    <3>2. Bytes(Candidates) \in Nat /\ n \in Nat
      BY <1>2, <3>1, BytesNat, CacheAssumption
    <3> QED
      BY <3>2
  <2> HIDE DEF need
  <2>3. V \in SUBSET Candidates
    BY <1>2, <2>1, <2>2, VictimsFree
  <2>4. Calling /\ UNCHANGED <<setup, lock, limit, threadVars>> /\ registered' = registered
    BY <1>10 DEF EvictBytes
  <2>5. registered' \subseteq Keys /\ cached \ V \subseteq registered'
    BY <1>1, <1>2, <2>4 DEF IInv
  <2> QED
    BY <1>9, <2>1, <2>3, <2>4, <2>5
<1>11. ASSUME NEW k \in Keys, Evict(k)
       PROVE  IInv'
  <2>1. Calling /\ UNCHANGED <<setup, lock, limit, threadVars>> /\ registered' = registered
    BY <1>11 DEF Evict
  <2>2. {k} \in SUBSET Candidates /\ Release({k})
    BY <1>11 DEF Evict
  <2>3. registered' \subseteq Keys /\ cached \ {k} \subseteq registered'
    BY <1>1, <1>2, <2>1 DEF IInv
  <2> QED
    BY <1>9, <2>1, <2>2, <2>3
<1>12. ASSUME NEW k \in Keys, Register(k)
       PROVE  IInv'
  <2>1. /\ registered \subseteq registered' /\ registered' \subseteq Keys
        /\ want' = want /\ phase' = phase /\ calls' \in 0 .. MaxCalls
        /\ UNCHANGED <<lock, setup, limit, storeVars, building, holding>>
    BY <1>2, <1>12 DEF Register, Calling, threadVars
  <2> QED
    BY <1>1, <1>2, <2>1, QuietStep
<1>13. ASSUME NEW k \in Keys, Unregister(k)
       PROVE  IInv'
  <2> DEFINE V == IF k \in cached THEN {k} ELSE {}
  <2>1. /\ Calling /\ UNCHANGED <<setup, lock, limit, threadVars>>
        /\ registered' = registered \ {k} /\ leaseCount[k] = 0 /\ Release(V)
    BY <1>13 DEF Unregister
  <2>2. V \in SUBSET Candidates
    BY <2>1 DEF Candidates
  <2>3. registered' \subseteq Keys /\ cached \ V \subseteq registered'
    BY <1>1, <1>2, <2>1 DEF IInv
  <2> HIDE DEF V
  <2> QED
    BY <1>9, <2>1, <2>2, <2>3
<1>14. ASSUME Clear
       PROVE  IInv'
  <2>1. Calling /\ UNCHANGED <<setup, lock, limit, threadVars>> /\ registered' = registered
    BY <1>14 DEF Clear
  <2>2. Candidates \in SUBSET Candidates /\ Release(Candidates)
    BY <1>14 DEF Clear
  <2>3. registered' \subseteq Keys /\ cached \ Candidates \subseteq registered'
    BY <1>1, <1>2, <2>1 DEF IInv
  <2> QED
    BY <1>9, <2>1, <2>2, <2>3
<1>15. CASE Rest \/ UNCHANGED vars
  <2>1. UNCHANGED vars
    BY <1>15 DEF Rest
  <2>2. /\ registered' = registered /\ want' = want /\ phase' = phase /\ calls' = calls
        /\ UNCHANGED <<lock, setup, limit, storeVars, building, holding>>
    BY <2>1 DEF vars, threadVars
  <2> QED
    BY <1>1, <1>2, <2>2, QuietStep
<1>16. ASSUME NEW t \in Threads, Progress(t) \/ Choice(t)
       PROVE  IInv'
  BY <1>1, <1>3, <1>4, <1>5, <1>6, <1>7, <1>16, AdmitStep, BuildFailsStep, ReleaseLastStep
     DEF Progress, Choice
<1>17. CASE Operation
  BY <1>8, <1>10, <1>11, <1>12, <1>13, <1>14, <1>17 DEF Operation
<1> QED
  BY <1>1, <1>15, <1>16, <1>17 DEF Next

\* It holds of the empty cache.
LEMMA IInvInit == Init => IInv
<1>1. SUFFICES ASSUME Init PROVE IInv
  OBVIOUS
<1>2. TypeOK
  BY <1>1, CacheAssumption DEF Init, TypeOK
<1>3. Frames /\ LeasedStoreStays /\ cached \subseteq registered
  BY <1>1 DEF Init, Frames, LeasedStoreStays
<1>4. ASSUME NEW k \in Keys
      PROVE  IsFiniteSet(LeasesOf(k)) /\ leaseCount[k] = Cardinality(LeasesOf(k))
  <2>1. LeasesOf(k) = {}
    BY <1>1 DEF Init, LeasesOf
  <2> QED
    BY <1>1, <2>1, FS_EmptySet DEF Init
<1>5. UsedIsSum
  <2>1. Bytes({}) = 0
    BY <1>2, BytesNat
  <2> QED
    BY <1>1, <2>1 DEF Init, UsedIsSum
<1>6. OrderIsInactive
  <2>1. ToSet(<<>>) = {} /\ IsInjective(<<>>)
    BY DEF ToSet, IsInjective
  <2> QED
    BY <1>1, <2>1 DEF Init, OrderIsInactive, Candidates
<1>7. RoomKept
  <2>1. \A t \in Threads : building[t] = <<>> /\ Len(<<>>) = 0
    BY <1>1 DEF Init
  <2>2. \A t \in Threads : Len(building[t]) <= 1
    BY <2>1
  <2>3. limit = Unlimited \/ used <= limit
    BY <1>1, CacheAssumption DEF Init
  <2> QED
    BY <2>1, <2>2, <2>3 DEF RoomKept
<1> QED
  BY <1>2, <1>3, <1>4, <1>5, <1>6, <1>7 DEF IInv, Counted

\* The cache's inductive invariant: types, frames, leases, books and room.
THEOREM CacheInvariance == Spec => []IInv
<1>1. Init => IInv
  BY IInvInit
<1>2. IInv /\ [Next]_vars => IInv'
  BY IInvStep
<1> QED
  BY <1>1, <1>2, PTL DEF Spec

-----------------------------------------------------------------------------
(* What it gives *)

\* Every table and every thread's frames stay in their domains.
THEOREM CacheTypes == Spec => []TypeOK
<1>1. IInv => TypeOK
  BY DEF IInv
<1> QED
  BY <1>1, CacheInvariance, PTL

\* A leased store is never evicted, replaced or unregistered, by whatever makes room.
THEOREM LeasedSafe == Spec => []LeasedStoreStays
<1>1. IInv => LeasedStoreStays
  BY DEF IInv
<1> QED
  BY <1>1, CacheInvariance, PTL

\* The bytes in use, the lease counts and the eviction order agree with the stores and
\* the leases there are, and the budget holds unless factories lease from the cache.
THEOREM BooksBalance == Spec => []Accounting
<1>1. IInv => Accounting
  <2>1. SUFFICES ASSUME IInv PROVE Accounting
    OBVIOUS
  <2>2. LeasesCounted
    BY <2>1 DEF IInv, Counted, LeasesCounted
  <2>3. BudgetKept
    BY <2>1 DEF IInv, RoomKept, BudgetKept, WithinBudget
  <2> QED
    BY <2>1, <2>2, <2>3 DEF IInv, Accounting
<1> QED
  BY <1>1, CacheInvariance, PTL

-----------------------------------------------------------------------------
(* The cache keeps LeasedPool's promise *)

\* What each thread holds, as the promise sees it.
H == [t \in Threads |-> {k \in Keys : Holds(t, k)}]

\* A step that leaves stores and leases as they are stutters.
LEMMA PromiseStutter ==
  ASSUME UNCHANGED <<cached, holding>>
  PROVE  UNCHANGED Promise!vars
BY DEF Promise!vars, Holds

\* What may be evicted is held by nobody.
LEMMA CandidatesUnheld ==
  ASSUME IInv
  PROVE  Candidates \subseteq Promise!Unheld
<1>1. ASSUME NEW k \in Candidates, NEW t \in Threads, Holds(t, k)
      PROVE  FALSE
  <2>1. k \in Keys /\ leaseCount[k] = 0
    BY DEF Candidates, IInv, TypeOK
  <2> QED
    BY <1>1, <2>1, LeasedPositive DEF Holds, IInv
<1> QED
  BY <1>1 DEF Promise!Unheld, Candidates

\* Making room is an eviction of the promise.
LEMMA PromiseEvict ==
  ASSUME IInv, NEW V \in SUBSET Candidates, Release(V), holding' = holding
  PROVE  [Promise!Next]_Promise!vars
<1>1. V \in SUBSET Promise!Unheld
  BY CandidatesUnheld
<1>2. cached' = cached \ V
  BY DEF Release
<1>3. UNCHANGED H
  BY DEF H, Holds
<1>4. Promise!Evict
  BY <1>1, <1>2, <1>3 DEF Promise!Evict, H
<1> QED
  BY <1>4 DEF Promise!Next

\* A lease of k is entered.
LEMMA PromiseGrab ==
  ASSUME IInv, NEW t \in Threads, NEW k \in Keys, NEW id \in Nat,
         holding' = Grabbed(t, k, id), leaseCount' = LeasedMore(k)
  PROVE  H' = [H EXCEPT ![t] = @ \cup {k}]
<1>1. \A u \in Threads, j \in Keys : Holds(u, j)' <=> Holds(u, j) \/ (u = t /\ j = k)
  <2>1. TypeOK /\ Counted
    BY DEF IInv
  <2> QED
    BY <2>1, GrabCounts
<1>2. \A u \in Threads : {j \in Keys : Holds(u, j)'} =
         IF u = t THEN {j \in Keys : Holds(t, j)} \cup {k} ELSE {j \in Keys : Holds(u, j)}
  BY <1>1
<1> QED
  BY <1>2 DEF H

\* Leasing what is cached shares it, admitting a store admits it, and releasing a
\* lease lets go, or does nothing as long as the thread has another lease of the key.
LEMMA PromiseLease ==
  ASSUME IInv, NEW t \in Threads
  PROVE  /\ \A k \in Keys : Hit(t, k) => [Promise!Next]_Promise!vars
         /\ \A k \in Keys : Admit(t, k) => [Promise!Next]_Promise!vars
         /\ ReleaseLast(t) => [Promise!Next]_Promise!vars
<1>1. ASSUME NEW k \in Keys, Hit(t, k)
      PROVE  [Promise!Next]_Promise!vars
  <2> DEFINE id == built[k]
  <2>1. /\ k \in cached /\ cached' = cached /\ id \in Nat
        /\ holding' = Grabbed(t, k, id) /\ leaseCount' = LeasedMore(k)
    BY <1>1 DEF Hit, IInv, TypeOK
  <2> HIDE DEF id
  <2>2. H' = [H EXCEPT ![t] = @ \cup {k}]
    BY <2>1, PromiseGrab
  <2>3. Promise!Share(t, k)
    BY <2>1, <2>2 DEF Promise!Share, H
  <2> QED
    BY <2>3 DEF Promise!Next
<1>2. ASSUME NEW k \in Keys, Admit(t, k)
      PROVE  [Promise!Next]_Promise!vars
  <2> DEFINE id == built'[k]
  <2>1. /\ Returning(t, k) /\ Unwind(t)
        /\ id \in Nat /\ holding' = Grabbed(t, k, id) /\ leaseCount' = LeasedMore(k)
    BY <1>2 DEF Admit, IInv, TypeOK
  <2> HIDE DEF id
  <2>2. H' = [H EXCEPT ![t] = @ \cup {k}]
    BY <2>1, PromiseGrab
  <2>3. PICK size \in Actual[k] :
           Accepts(size) /\ \E V \in IF size > Estimate[k] THEN Room(size, limit) ELSE {{}} :
                               cached' = (cached \ V) \cup {k}
    BY <1>2 DEF Admit
  <2>4. PICK V \in IF size > Estimate[k] THEN Room(size, limit) ELSE {{}} :
           cached' = (cached \ V) \cup {k}
    BY <2>3
  <2>5. size \in Nat /\ limit \in Limits \cup {Unlimited} /\ TypeOK
    BY <2>3, CacheAssumption DEF Accepts, IInv, TypeOK
  <2>6. V \in SUBSET Candidates
    <3>1. V \in Room(size, limit) \/ V = {}
      BY <2>4
    <3> QED
      BY <2>5, <3>1, RoomFits
  <2>7. V \in SUBSET Promise!Unheld
    BY <2>6, CandidatesUnheld
  <2>8. k \notin cached
    BY <2>1, UnwindFrames
  <2>9. Promise!Admit(t, k)
    BY <2>2, <2>4, <2>7, <2>8 DEF Promise!Admit, H
  <2> QED
    BY <2>9 DEF Promise!Next
<1>3. ASSUME ReleaseLast(t)
      PROVE  [Promise!Next]_Promise!vars
  <2>1. holding[t] # <<>>
    BY <1>3 DEF ReleaseLast
  <2>2. TypeOK /\ Counted
    BY DEF IInv
  <2>3. PICK k \in Keys : k = holding[t][Len(holding[t])].key
    <3>1. holding[t] \in Seq(Lease)
      BY <2>2 DEF TypeOK
    <3>2. holding[t][Len(holding[t])] \in Lease
      BY <2>1, <3>1, FrontElements
    <3> QED
      BY <3>2 DEF Lease
  <2>4. /\ cached' = cached
        /\ leaseCount' = [leaseCount EXCEPT ![k] = @ - 1]
        /\ holding' = [holding EXCEPT ![t] = Front(@)]
    BY <1>3, <2>3 DEF ReleaseLast
  <2>5. \A u \in Threads, j \in Keys : Holds(u, j)' => Holds(u, j)
    BY <2>1, <2>2, <2>3, <2>4, DropCounts
  <2>6. /\ \A u \in Threads \ {t}, j \in Keys : Holds(u, j) => Holds(u, j)'
        /\ \A j \in Keys \ {k} : Holds(t, j) => Holds(t, j)'
    BY <2>1, <2>2, <2>3, <2>4, DropCounts
  <2>7. Holds(t, k)
    <3>1. \E i \in DOMAIN holding[t] : holding[t][i].key = k
      BY <2>1, <2>2, <2>3, <2>4, DropCounts
    <3> QED
      BY <3>1 DEF Holds
  <2>8. CASE Holds(t, k)'
    <3>1. \A u \in Threads, j \in Keys : Holds(u, j)' <=> Holds(u, j)
      BY <2>5, <2>6, <2>8
    <3>2. UNCHANGED H
      BY <3>1 DEF H
    <3> QED
      BY <2>4, <3>2 DEF Promise!vars, H
  <2>9. CASE ~Holds(t, k)'
    <3>0. \A u \in Threads, j \in Keys : Holds(u, j)' <=> Holds(u, j) /\ ~(u = t /\ j = k)
      BY <2>5, <2>6, <2>9
    <3>1. \A u \in Threads : {j \in Keys : Holds(u, j)'} =
             IF u = t THEN {j \in Keys : Holds(t, j)} \ {k} ELSE {j \in Keys : Holds(u, j)}
      BY <3>0
    <3>2. H' = [H EXCEPT ![t] = @ \ {k}] /\ k \in H[t]
      BY <2>3, <2>7, <3>1 DEF H
    <3>3. Promise!LetGo(t, k)
      BY <2>4, <3>2 DEF Promise!LetGo, H
    <3> QED
      BY <2>3, <3>3 DEF Promise!Next
  <2> QED
    BY <2>8, <2>9
<1> QED
  BY <1>1, <1>2, <1>3

\* Every step of the cache is a step of the promise or none.
LEMMA PromiseStep ==
  ASSUME IInv, [Next]_vars
  PROVE  [Promise!Next]_Promise!vars
<1>1. TypeOK
  BY DEF IInv
<1>2. ASSUME NEW t \in Threads, NEW k \in Keys, Miss(t, k)
      PROVE  [Promise!Next]_Promise!vars
  <2>1. PICK V \in Room(Estimate[k], limit) : Release(V)
    BY <1>2 DEF Miss
  <2>2. Estimate[k] \in Nat /\ limit \in Limits \cup {Unlimited}
    BY <1>1, CacheAssumption DEF TypeOK
  <2>3. V \in SUBSET Candidates
    BY <1>1, <2>1, <2>2, RoomFits
  <2> QED
    BY <1>2, <2>1, <2>3, PromiseEvict DEF Miss
<1>3. ASSUME NEW t \in Threads, Progress(t)
      PROVE  [Promise!Next]_Promise!vars
  <2>1. CASE \E k \in Keys : EnterHit(t, k) \/ EnterMiss(t, k) \/ Admit(t, k)
    BY <1>2, <2>1, PromiseLease DEF EnterHit, EnterMiss
  <2>2. CASE \E k \in Keys : EnterFails(t, k) \/ BuildFails(t, k)
    BY <2>2, PromiseStutter DEF EnterFails, MissFails, BuildFails, storeVars
  <2>3. CASE Entered(t) \/ Left(t)
    BY <2>3, PromiseStutter DEF Entered, Left, storeVars
  <2> QED
    BY <1>3, <2>1, <2>2, <2>3, PromiseLease DEF Progress
<1>4. ASSUME NEW t \in Threads, Choice(t)
      PROVE  [Promise!Next]_Promise!vars
  <2>1. CASE \E k \in Keys : NestHit(t, k) \/ NestMiss(t, k)
    BY <1>2, <2>1, PromiseLease DEF NestHit, NestMiss
  <2>2. CASE \E k \in Keys : NestFails(t, k)
    BY <2>2, PromiseStutter DEF NestFails, MissFails, storeVars
  <2>3. CASE CallLease(t) \/ Leave(t)
    BY <2>3, PromiseStutter DEF CallLease, Leave, storeVars
  <2> QED
    BY <1>4, <2>1, <2>2, <2>3 DEF Choice
<1>5. CASE Operation
  <2>1. ASSUME NEW max \in Limits, Resize(max)
        PROVE  [Promise!Next]_Promise!vars
    <3>1. CASE \E V \in Room(0, max) : Release(V)
      <4>1. PICK V \in Room(0, max) : Release(V)
        BY <3>1
      <4>2. max \in Limits \cup {Unlimited}
        OBVIOUS
      <4>3. V \in SUBSET Candidates
        BY <1>1, <4>1, <4>2, RoomFits
      <4> QED
        BY <2>1, <4>1, <4>3, PromiseEvict DEF Resize, threadVars
    <3>2. CASE UNCHANGED storeVars
      BY <2>1, <3>2, PromiseStutter DEF Resize, storeVars, threadVars
    <3> QED
      BY <2>1, <3>1, <3>2 DEF Resize
  <2>2. ASSUME NEW n \in Frees, EvictBytes(n)
        PROVE  [Promise!Next]_Promise!vars
    <3> DEFINE need == IF n < Bytes(Candidates) THEN n ELSE Bytes(Candidates)
    <3>1. PICK V \in Victims(need) : Release(V)
      BY <2>2 DEF EvictBytes
    <3>2. need \in Nat
      <4>1. Candidates \in SUBSET Keys
        BY <1>1 DEF Candidates, TypeOK
      <4>2. Bytes(Candidates) \in Nat /\ n \in Nat
        BY <1>1, <4>1, BytesNat, CacheAssumption
      <4> QED
        BY <4>2
    <3> HIDE DEF need
    <3>3. V \in SUBSET Candidates
      BY <1>1, <3>1, <3>2, VictimsFree
    <3> QED
      BY <2>2, <3>1, <3>3, PromiseEvict DEF EvictBytes, threadVars
  <2>3. ASSUME NEW k \in Keys, Evict(k) \/ Unregister(k)
        PROVE  [Promise!Next]_Promise!vars
    <3>1. \E V \in SUBSET Candidates : Release(V)
      BY <2>3 DEF Evict, Unregister, Candidates
    <3> QED
      BY <2>3, <3>1, PromiseEvict DEF Evict, Unregister, threadVars
  <2>4. ASSUME NEW k \in Keys, Register(k)
        PROVE  [Promise!Next]_Promise!vars
    BY <2>4, PromiseStutter DEF Register, storeVars, threadVars
  <2>5. ASSUME Clear
        PROVE  [Promise!Next]_Promise!vars
    BY <2>5, PromiseEvict DEF Clear, threadVars
  <2> QED
    BY <1>5, <2>1, <2>2, <2>3, <2>4, <2>5 DEF Operation
<1>6. CASE Rest \/ UNCHANGED vars
  BY <1>6, PromiseStutter DEF Rest, vars, storeVars, threadVars
<1> QED
  BY <1>3, <1>4, <1>5, <1>6 DEF Next

\* The cache implements LeasedPool: whatever the policy chooses, a factory leases or a
\* resize asks for, only what nobody holds ever leaves.
THEOREM CacheRefines == Spec => KeepsPromise
<1>1. Init => Promise!Init
  BY DEF Init, Promise!Init, Holds
<1>2. IInv /\ [Next]_vars => [Promise!Next]_Promise!vars
  BY PromiseStep
<1> QED
  BY <1>1, <1>2, CacheInvariance, PTL DEF Spec, KeepsPromise, Promise!Spec

-----------------------------------------------------------------------------
(* Targets on the device: the inductive invariant of TargetLease, by lease *)

\* Nothing is on a target that was never allocated, as far as anyone can tell.
Fresh(l) == target[l] = "none" => ready[l] = {} /\ \A x \in Times : WorkOn(l) \subseteq after[x]

\* Before the first copies the only work is the allocation stream's own.
Unfilled(l) ==
    target[l] # "closed" /\ ready[l] = {} =>
        /\ recorded[l] = {} /\ ~staged[l] /\ ~acquired[l]
        /\ WorkOn(l) \subseteq after[allocation[l]]
        /\ \A x \in Times : Copies(l) \subseteq after[x]

\* Afterwards the mark covers the copies, and with the recorded streams every use.
Filled(l) ==
    ready[l] # {} =>
        Copies(l) \subseteq UNION ready[l] /\ WorkOn(l) \subseteq (UNION ready[l]) \cup Uses(l)

\* What is staged was copied as a whole, what is acquired too, and after the copies.
Handed(l) ==
    /\ staged[l] \/ acquired[l] => target[l] = "open" /\ whole[l]
    /\ staged[l] => recorded[l] = {} /\ ~acquired[l]
    /\ acquired[l] => \A s \in recorded[l] : Copies(l) \subseteq after[s]

Quiet(l) == target[l] = "closed" /\ l \notin lost => WorkOn(l) \subseteq after[Host]

Ordered(l) == Fresh(l) /\ Unfilled(l) /\ Filled(l) /\ Handed(l) /\ Quiet(l)
Orderly == LeaseTypeOK /\ \A l \in Leases : Ordered(l)

-----------------------------------------------------------------------------
(* Work and events *)

\* Where a copy and a use on a lease belong.
LEMMA WorkSets ==
    ASSUME NEW l \in Leases
    PROVE  /\ Copies(l) \subseteq WorkOn(l) /\ WorkOn(l) \subseteq Work
           /\ \A s \in Streams : <<s, l, "copy">> \in Copies(l) /\ <<s, l, "use">> \in WorkOn(l)
           /\ \A s \in Streams : <<s, l, "use">> \notin Copies(l)
           /\ \A m \in Leases, s \in Streams, k \in Kinds : m # l => <<s, m, k>> \notin WorkOn(l)
           /\ \A s \in Streams, k \in Kinds : <<s, l, k>> \in Work
  BY DEF Copies, WorkOn, Work, Kinds

\* Work that is issued is known to its stream, and stops being covered elsewhere; what is
\* known of other work stays.
LEMMA IssueOrder ==
    ASSUME HostAssumption, LeaseTypeOK, NEW s \in Streams, NEW w \in Work,
           NEW before \in SUBSET Work, after[s] \subseteq before, Issue(s, w, before)
    PROVE  /\ after' \in [Times -> SUBSET Work]
           /\ after'[s] = before \cup {w}
           /\ \A x \in Times, v \in Work : v # w /\ v \in after[x] => v \in after'[x]
<1>1. s \in Times /\ \A x \in Times : after[x] \in SUBSET Work
  BY DEF LeaseTypeOK, Times
<1>2. \A x \in Times : after'[x] = IF x = s THEN before \cup {w} ELSE after[x] \ {w}
  BY DEF Issue
<1>3. after' \in [Times -> SUBSET Work]
  BY <1>1 DEF Issue
<1> QED BY <1>1, <1>2, <1>3

\* Marks lose only the work that is issued anew.
LEMMA StaleMarks ==
    ASSUME LeaseTypeOK, NEW w \in Work
    PROVE  /\ Stale(w) \in [Leases -> SUBSET SUBSET Work]
           /\ \A l \in Leases :
               /\ \A d, e \in Stale(w)[l] : d = e
               /\ Stale(w)[l] = {} <=> ready[l] = {}
               /\ \A v \in Work : v # w /\ v \in UNION ready[l] => v \in UNION Stale(w)[l]
<1>1. \A l \in Leases : Stale(w)[l] = {e \ {w} : e \in ready[l]}
  BY DEF Stale
<1>2. \A l \in Leases :
          ready[l] \in SUBSET SUBSET Work /\ \A d, e \in ready[l] : d = e
  BY DEF LeaseTypeOK
<1>3. Stale(w) \in [Leases -> SUBSET SUBSET Work]
  BY <1>2 DEF Stale
<1>4. ASSUME NEW l \in Leases PROVE Stale(w)[l] = {} <=> ready[l] = {}
  <2>1. ASSUME NEW e \in ready[l] PROVE e \ {w} \in Stale(w)[l]
    BY <1>1
  <2>2. ASSUME NEW d \in Stale(w)[l] PROVE \E e \in ready[l] : d = e \ {w}
    BY <1>1
  <2> QED BY <2>1, <2>2
<1>5. ASSUME NEW l \in Leases, NEW d \in Stale(w)[l], NEW e \in Stale(w)[l] PROVE d = e
  <2>1. PICK f \in ready[l], g \in ready[l] : d = f \ {w} /\ e = g \ {w}
    BY <1>1, <1>5
  <2>2. f = g
    BY <1>2
  <2> QED BY <2>1, <2>2
<1>6. ASSUME NEW l \in Leases, NEW v \in Work, v # w, v \in UNION ready[l]
      PROVE  v \in UNION Stale(w)[l]
  <2>1. PICK e \in ready[l] : v \in e
    BY <1>6
  <2>2. v \in e \ {w} /\ e \ {w} \in Stale(w)[l]
    BY <1>1, <1>6, <2>1
  <2> QED BY <2>2
<1> QED BY <1>3, <1>4, <1>5, <1>6

\* A lease that a step leaves alone, while no work on it is forgotten.
LEMMA Kept ==
    ASSUME HostAssumption, Orderly, LeaseTypeOK', NEW l \in Leases,
           target'[l] = target[l], allocation'[l] = allocation[l], staged'[l] = staged[l],
           acquired'[l] = acquired[l], recorded'[l] = recorded[l], whole'[l] = whole[l],
           l \in lost <=> l \in lost', ready'[l] = {} <=> ready[l] = {},
           \A v \in WorkOn(l) : v \in UNION ready[l] => v \in UNION ready'[l],
           \A x \in Times, v \in WorkOn(l) : v \in after[x] => v \in after'[x]
    PROVE  Ordered(l)'
<1>1. /\ Copies(l) \subseteq WorkOn(l) /\ Host \in Times /\ allocation[l] \in Times
      /\ recorded[l] \subseteq Times
  BY WorkSets DEF Times, Orderly, LeaseTypeOK
<1>2. Ordered(l)
  BY DEF Orderly
<1>3. Fresh(l)' /\ Unfilled(l)' /\ Handed(l)' /\ Quiet(l)'
  BY <1>1, <1>2 DEF Ordered, Fresh, Unfilled, Handed, Quiet
<1>4. Filled(l)'
  <2>1. \A v \in WorkOn(l) : v \in Uses(l) => v \in Uses(l)'
    BY <1>1 DEF Uses
  <2> SUFFICES ASSUME ready'[l] # {}
               PROVE  /\ Copies(l) \subseteq UNION ready'[l]
                      /\ WorkOn(l) \subseteq (UNION ready'[l]) \cup Uses(l)'
    BY DEF Filled, Copies, WorkOn
  <2>2. /\ Copies(l) \subseteq UNION ready[l]
        /\ WorkOn(l) \subseteq (UNION ready[l]) \cup Uses(l)
    BY <1>2 DEF Ordered, Filled
  <2>3. ASSUME NEW v \in WorkOn(l) PROVE v \in UNION ready'[l] \/ v \in Uses(l)'
    <3>1. v \in UNION ready[l] \/ v \in Uses(l)
      BY <2>2
    <3> QED BY <2>1, <3>1
  <2>4. ASSUME NEW v \in Copies(l) PROVE v \in UNION ready'[l]
    <3>1. v \in UNION ready[l] /\ v \in WorkOn(l)
      BY <1>1, <2>2
    <3> QED BY <3>1
  <2> QED BY <2>3, <2>4
<1> QED BY <1>3, <1>4 DEF Ordered

-----------------------------------------------------------------------------
(* The steps *)

\* Waiting adds to what is known, and touches no lease.
LEMMA WaitStreamKeeps ==
    ASSUME HostAssumption, Orderly, NEW s \in Streams, NEW t \in Streams, WaitStream(s, t)
    PROVE  Orderly'
<1> USE DEF WaitStream, Precede, leaseVars
<1>1. s \in Times /\ t \in Times
  BY DEF Times
<1>2. LeaseTypeOK'
  BY <1>1 DEF Orderly, LeaseTypeOK
<1>3. \A x \in Times : after[x] \subseteq after'[x]
  BY <1>1 DEF Orderly, LeaseTypeOK
<1>4. \A l \in Leases : Ordered(l)'
  BY <1>2, <1>3, Kept
<1> QED BY <1>2, <1>4 DEF Orderly

\* Memory arrives with the work of its allocation stream and no copies.
LEMMA AllocateKeeps ==
    ASSUME HostAssumption, Orderly, NEW l \in Leases, NEW s \in Streams, Allocate(l, s)
    PROVE  Orderly'
<1> DEFINE w == <<s, l, "use">>
<1>1. /\ s \in Times /\ w \in Work /\ after[s] \in SUBSET Work /\ Issue(s, w, after[s])
      /\ ready' = Stale(w)
  BY WorkSets DEF Allocate, Times, Orderly, LeaseTypeOK, Kinds
<1>2. /\ after' \in [Times -> SUBSET Work] /\ after'[s] = after[s] \cup {w}
      /\ \A x \in Times, v \in Work : v # w /\ v \in after[x] => v \in after'[x]
  BY <1>1, IssueOrder DEF Orderly
<1>3. /\ ready' \in [Leases -> SUBSET SUBSET Work]
      /\ \A m \in Leases :
          /\ \A d, e \in ready'[m] : d = e
          /\ ready'[m] = {} <=> ready[m] = {}
          /\ \A v \in Work : v # w /\ v \in UNION ready[m] => v \in UNION ready'[m]
  BY <1>1, StaleMarks DEF Orderly
<1> HIDE DEF w
<1>4. LeaseTypeOK'
  BY <1>2, <1>3 DEF Orderly, LeaseTypeOK, Allocate
<1>5. ASSUME NEW m \in Leases, m # l PROVE Ordered(m)'
  <2>1. w \notin WorkOn(m) /\ WorkOn(m) \subseteq Work
    BY <1>5, WorkSets DEF w, Kinds
  <2>2. /\ target'[m] = target[m] /\ allocation'[m] = allocation[m]
        /\ staged'[m] = staged[m] /\ acquired'[m] = acquired[m]
        /\ recorded'[m] = recorded[m] /\ whole'[m] = whole[m] /\ lost' = lost
    BY <1>5 DEF Allocate, Orderly, LeaseTypeOK
  <2>3. \A x \in Times, v \in WorkOn(m) : v \in after[x] => v \in after'[x]
    BY <1>2, <2>1
  <2>4. \A v \in WorkOn(m) : v \in UNION ready[m] => v \in UNION ready'[m]
    BY <1>3, <2>1
  <2> QED BY <1>3, <1>4, <2>2, <2>3, <2>4, Kept
<1>6. Ordered(l)'
  <2>1. /\ target'[l] = "open" /\ allocation'[l] = s /\ recorded'[l] = recorded[l]
        /\ staged'[l] = staged[l] /\ acquired'[l] = acquired[l] /\ ready[l] = {}
        /\ \A x \in Times : WorkOn(l) \subseteq after[x]
        /\ recorded[l] = {} /\ ~staged[l] /\ ~acquired[l]
    BY DEF Allocate, Orderly, LeaseTypeOK, Ordered, Fresh, Unfilled
  <2>2. w \notin Copies(l) /\ Copies(l) \subseteq Work /\ Copies(l) \subseteq WorkOn(l)
    BY WorkSets DEF w
  <2>3. ready'[l] = {}
    BY <1>3, <2>1
  <2>4. \A x \in Times : Copies(l) \subseteq after'[x]
    BY <1>2, <2>1, <2>2
  <2>5. WorkOn(l) \subseteq after'[s]
    BY <1>1, <1>2, <2>1
  <2> QED BY <2>1, <2>3, <2>4, <2>5 DEF Ordered, Fresh, Unfilled, Filled, Handed, Quiet
<1> QED BY <1>4, <1>5, <1>6 DEF Orderly

\* What is free to be refilled is refilled after all work on it.
LEMMA RefillOrder ==
    ASSUME HostAssumption, Orderly, NEW l \in Leases, target[l] = "open", NEW s \in Streams
    PROVE  /\ WorkOn(l) \subseteq StageWaits(l, s) /\ StageWaits(l, s) \in SUBSET Work
           /\ after[s] \subseteq StageWaits(l, s)
<1>1. /\ s \in Times /\ allocation[l] \in Times /\ recorded[l] \subseteq Times
      /\ \A x \in Times : after[x] \in SUBSET Work
      /\ UNION ready[l] \in SUBSET Work
  BY DEF Times, Orderly, LeaseTypeOK
<1>2. Uses(l) \in SUBSET Work
  BY <1>1 DEF Uses
<1>3. CASE ready[l] = {}
  <2>1. WorkOn(l) \subseteq after[allocation[l]] /\ Prior(l) = after[allocation[l]]
    BY <1>3 DEF Orderly, Ordered, Unfilled, Prior
  <2> QED BY <1>1, <1>2, <2>1 DEF StageWaits
<1>4. CASE ready[l] # {}
  <2>1. WorkOn(l) \subseteq (UNION ready[l]) \cup Uses(l) /\ Prior(l) = UNION ready[l]
    BY <1>4 DEF Orderly, Ordered, Filled, Prior
  <2>2. StageWaits(l, s) = after[s] \cup (UNION ready[l]) \cup Uses(l)
    BY <2>1 DEF StageWaits
  <2> QED BY <1>1, <1>2, <2>1, <2>2
<1> QED BY <1>3, <1>4

\* The new mark covers everything the refill waited for, and the refill.
LEMMA StageKeeps ==
    ASSUME HostAssumption, Orderly, NEW l \in Leases, NEW s \in Streams, NEW ok \in BOOLEAN,
           Stage(l, s, ok)
    PROVE  Orderly'
<1> DEFINE w == <<s, l, "copy">>
           all == StageWaits(l, s) \cup {w}
<1>1. /\ s \in Times /\ w \in Work /\ target[l] = "open" /\ ~acquired[l]
      /\ Issue(s, w, StageWaits(l, s)) /\ ready' = [Stale(w) EXCEPT ![l] = {all}]
      /\ recorded' = [recorded EXCEPT ![l] = {}]
      /\ staged' = [staged EXCEPT ![l] = ok] /\ whole' = [whole EXCEPT ![l] = ok]
      /\ UNCHANGED <<target, allocation, acquired, lost>>
  BY WorkSets DEF Stage, Times, Kinds, Mark, Copied, StagedBy
<1>2. /\ WorkOn(l) \subseteq StageWaits(l, s) /\ StageWaits(l, s) \in SUBSET Work
      /\ after[s] \subseteq StageWaits(l, s)
  BY <1>1, RefillOrder
<1>3. /\ after' \in [Times -> SUBSET Work]
      /\ \A x \in Times, v \in Work : v # w /\ v \in after[x] => v \in after'[x]
  BY <1>1, <1>2, IssueOrder DEF Orderly
<1>4. /\ Stale(w) \in [Leases -> SUBSET SUBSET Work]
      /\ \A m \in Leases :
          /\ \A d, e \in Stale(w)[m] : d = e
          /\ Stale(w)[m] = {} <=> ready[m] = {}
          /\ \A v \in Work : v # w /\ v \in UNION ready[m] => v \in UNION Stale(w)[m]
  BY <1>1, StaleMarks DEF Orderly
<1>5. all \in SUBSET Work /\ WorkOn(l) \subseteq all /\ Copies(l) \subseteq all
  BY <1>1, <1>2, WorkSets
<1> HIDE DEF w, all
<1>6. \A m \in Leases : ready'[m] = IF m = l THEN {all} ELSE Stale(w)[m]
  BY <1>1, <1>4
<1>7. LeaseTypeOK'
  <2>1. ready' \in [Leases -> SUBSET SUBSET Work]
    BY <1>1, <1>4, <1>5
  <2>2. \A m \in Leases : \A d, e \in ready'[m] : d = e
    BY <1>4, <1>6
  <2> QED BY <1>1, <1>3, <2>1, <2>2 DEF Orderly, LeaseTypeOK
<1>8. ASSUME NEW m \in Leases, m # l PROVE Ordered(m)'
  <2>1. w \notin WorkOn(m) /\ WorkOn(m) \subseteq Work
    BY <1>8, WorkSets DEF w, Kinds
  <2>2. \A v \in WorkOn(m) : v \in UNION ready[m] => v \in UNION ready'[m]
    BY <1>4, <1>6, <1>8, <2>1
  <2>3. ready'[m] = {} <=> ready[m] = {}
    BY <1>4, <1>6, <1>8
  <2>4. \A x \in Times, v \in WorkOn(m) : v \in after[x] => v \in after'[x]
    BY <1>3, <2>1
  <2>5. /\ target'[m] = target[m] /\ allocation'[m] = allocation[m]
        /\ staged'[m] = staged[m] /\ acquired'[m] = acquired[m]
        /\ recorded'[m] = recorded[m] /\ whole'[m] = whole[m] /\ lost' = lost
    BY <1>1, <1>8 DEF Orderly, LeaseTypeOK
  <2> QED BY <1>7, <2>2, <2>3, <2>4, <2>5, Kept
<1>9. Ordered(l)'
  <2>1. /\ target'[l] = "open" /\ ~acquired'[l] /\ ready'[l] = {all}
        /\ staged'[l] = ok /\ whole'[l] = ok /\ recorded'[l] = {}
    BY <1>1, <1>6 DEF Orderly, LeaseTypeOK
  <2>2. UNION ready'[l] = all /\ ready'[l] # {}
    BY <2>1
  <2> QED BY <1>5, <2>1, <2>2 DEF Ordered, Fresh, Unfilled, Filled, Handed, Quiet
<1> QED BY <1>7, <1>8, <1>9 DEF Orderly

\* The only consumer a staged target gets is behind its mark.
LEMMA AcquireKeeps ==
    ASSUME HostAssumption, Orderly, NEW l \in Leases, NEW s \in Streams, Acquire(l, s)
    PROVE  Orderly'
<1> USE DEF Acquire, AcquireWaits, Precede
<1>1. s \in Times /\ UNION ready[l] \in SUBSET Work
  BY DEF Times, Orderly, LeaseTypeOK
<1>2. LeaseTypeOK'
  <2>1. after' \in [Times -> SUBSET Work]
    BY <1>1 DEF Orderly, LeaseTypeOK
  <2> QED BY <2>1 DEF Orderly, LeaseTypeOK
<1>3. \A x \in Times : after[x] \subseteq after'[x]
  BY <1>1 DEF Orderly, LeaseTypeOK
<1>4. \A m \in Leases : m # l => Ordered(m)'
  BY <1>2, <1>3, Kept DEF Orderly, LeaseTypeOK
<1>5. Ordered(l)'
  <2>1. /\ target'[l] = "open" /\ ready' = ready /\ recorded'[l] = recorded[l] \cup {s}
        /\ whole' = whole /\ allocation' = allocation /\ lost' = lost /\ ~staged'[l]
    BY DEF Orderly, LeaseTypeOK
  <2>2. ready[l] # {} /\ whole[l] /\ Copies(l) \subseteq UNION ready[l]
        /\ WorkOn(l) \subseteq (UNION ready[l]) \cup Uses(l)
    BY DEF Orderly, Ordered, Unfilled, Filled, Handed
  <2>3. recorded'[l] \subseteq Times /\ recorded[l] \subseteq Times
    BY <1>1, <2>1 DEF Orderly, LeaseTypeOK, Times
  <2>4. Uses(l) \subseteq Uses(l)'
    BY <1>3, <2>1, <2>3 DEF Uses
  <2>5. \A t \in recorded'[l] : Copies(l) \subseteq after'[t]
    <3>1. after'[s] = after[s] \cup UNION ready[l]
      BY <1>1 DEF Orderly, LeaseTypeOK
    <3>2. recorded'[l] = {s}
      BY <2>1 DEF Orderly, Ordered, Handed
    <3> QED BY <2>2, <3>1, <3>2
  <2> QED BY <2>1, <2>2, <2>4, <2>5 DEF Ordered, Fresh, Unfilled, Filled, Handed, Quiet
<1> QED BY <1>2, <1>4, <1>5 DEF Orderly

\* A further consumer stream is behind the copies, and its uses count.
LEMMA RecordStreamKeeps ==
    ASSUME HostAssumption, Orderly, NEW l \in Leases, NEW s \in Streams, RecordStream(l, s)
    PROVE  Orderly'
<1> USE DEF RecordStream
<1>1. LeaseTypeOK'
  BY DEF Orderly, LeaseTypeOK
<1>2. \A m \in Leases : m # l => Ordered(m)'
  BY <1>1, Kept DEF Orderly, LeaseTypeOK
<1>3. Ordered(l)'
  <2>1. recorded'[l] = recorded[l] \cup {s}
    BY DEF Orderly, LeaseTypeOK
  <2>2. /\ target[l] = "open" /\ ready[l] # {} /\ whole[l] /\ ~staged[l] /\ acquired[l]
        /\ Copies(l) \subseteq UNION ready[l] /\ WorkOn(l) \subseteq (UNION ready[l]) \cup Uses(l)
        /\ \A t \in recorded'[l] : Copies(l) \subseteq after[t]
    BY <2>1 DEF Orderly, Ordered, Unfilled, Filled, Handed
  <2>3. Uses(l) \subseteq Uses(l)'
    BY <2>1 DEF Uses
  <2> QED BY <2>2, <2>3 DEF Ordered, Fresh, Unfilled, Filled, Handed, Quiet
<1> QED BY <1>1, <1>2, <1>3 DEF Orderly

\* What a kernel takes out of the mark, its recorded stream covers.
LEMMA UseKeeps ==
    ASSUME HostAssumption, Orderly, NEW l \in Leases, NEW s \in Streams, Use(l, s)
    PROVE  Orderly'
<1> DEFINE w == <<s, l, "use">>
<1>1. /\ s \in Times /\ w \in Work /\ after[s] \in SUBSET Work /\ Issue(s, w, after[s])
      /\ ready' = Stale(w) /\ acquired[l] /\ s \in recorded[l] /\ UNCHANGED leaseVars
  BY WorkSets DEF Use, Times, Orderly, LeaseTypeOK, Kinds
<1>2. /\ after' \in [Times -> SUBSET Work] /\ after'[s] = after[s] \cup {w}
      /\ \A x \in Times, v \in Work : v # w /\ v \in after[x] => v \in after'[x]
  BY <1>1, IssueOrder DEF Orderly
<1>3. /\ ready' \in [Leases -> SUBSET SUBSET Work]
      /\ \A m \in Leases :
          /\ \A d, e \in ready'[m] : d = e
          /\ ready'[m] = {} <=> ready[m] = {}
          /\ \A v \in Work : v # w /\ v \in UNION ready[m] => v \in UNION ready'[m]
  BY <1>1, StaleMarks DEF Orderly
<1> HIDE DEF w
<1>4. LeaseTypeOK'
  BY <1>1, <1>2, <1>3 DEF Orderly, LeaseTypeOK, leaseVars
<1>5. ASSUME NEW m \in Leases, m # l PROVE Ordered(m)'
  <2>1. w \notin WorkOn(m) /\ WorkOn(m) \subseteq Work
    BY <1>5, WorkSets DEF w, Kinds
  <2>2. \A x \in Times, v \in WorkOn(m) : v \in after[x] => v \in after'[x]
    BY <1>2, <2>1
  <2>3. \A v \in WorkOn(m) : v \in UNION ready[m] => v \in UNION ready'[m]
    BY <1>3, <2>1
  <2> QED BY <1>1, <1>3, <1>4, <2>2, <2>3, Kept DEF leaseVars
<1>6. Ordered(l)'
  <2>1. /\ target[l] = "open" /\ ready[l] # {} /\ whole[l] /\ ~staged[l]
        /\ Copies(l) \subseteq UNION ready[l] /\ WorkOn(l) \subseteq (UNION ready[l]) \cup Uses(l)
        /\ \A t \in recorded[l] : Copies(l) \subseteq after[t]
    BY <1>1 DEF Orderly, Ordered, Unfilled, Filled, Handed
  <2>2. /\ w \notin Copies(l) /\ Copies(l) \subseteq WorkOn(l) /\ WorkOn(l) \subseteq Work
        /\ recorded[l] \subseteq Times /\ recorded' = recorded
    BY <1>1, WorkSets DEF w, Orderly, LeaseTypeOK, Times, leaseVars
  <2>3. ready'[l] # {} /\ Copies(l) \subseteq UNION ready'[l]
    BY <1>3, <2>1, <2>2
  <2>4. ASSUME NEW v \in WorkOn(l) PROVE v \in UNION ready'[l] \/ v \in Uses(l)'
    <3>1. CASE v = w
      BY <1>1, <1>2, <2>2, <3>1 DEF Uses
    <3>2. CASE v # w /\ v \in UNION ready[l]
      BY <1>3, <2>2, <3>2
    <3>3. CASE v # w /\ v \in Uses(l)
      <4>1. PICK t \in recorded[l] : v \in after[t]
        BY <3>3 DEF Uses
      <4>2. v \in after'[t] /\ t \in recorded'[l]
        BY <1>2, <2>2, <3>3, <4>1
      <4> QED BY <4>2 DEF Uses
    <3> QED BY <2>1, <3>1, <3>2, <3>3
  <2>5. \A t \in recorded'[l] : Copies(l) \subseteq after'[t]
    BY <1>2, <2>1, <2>2
  <2> QED BY <1>1, <2>1, <2>3, <2>4, <2>5
          DEF Ordered, Fresh, Unfilled, Filled, Handed, Quiet, leaseVars
<1> QED BY <1>4, <1>5, <1>6 DEF Orderly

\* Releasing keeps the mark and the recorded streams.
LEMMA ReleaseLeaseKeeps ==
    ASSUME HostAssumption, Orderly, NEW l \in Leases, ReleaseLease(l)
    PROVE  Orderly'
<1> USE DEF ReleaseLease
<1>1. LeaseTypeOK'
  BY DEF Orderly, LeaseTypeOK
<1>2. \A m \in Leases : m # l => Ordered(m)'
  BY <1>1, Kept DEF Orderly, LeaseTypeOK
<1>3. Ordered(l)'
  <2>1. ~acquired'[l] /\ Uses(l)' = Uses(l)
    BY DEF Orderly, LeaseTypeOK, Uses
  <2> QED BY <2>1 DEF Orderly, Ordered, Fresh, Unfilled, Filled, Handed, Quiet
<1> QED BY <1>1, <1>2, <1>3 DEF Orderly

\* Closing waits for all work there is on the target.
LEMMA CloseOrder ==
    ASSUME HostAssumption, Orderly, NEW l \in Leases, target[l] = "open"
    PROVE  WorkOn(l) \subseteq CloseWaits(l) /\ CloseWaits(l) \in SUBSET Work
<1>1. /\ allocation[l] \in Times /\ recorded[l] \subseteq Times
      /\ \A x \in Times : after[x] \in SUBSET Work
      /\ UNION ready[l] \in SUBSET Work
  BY DEF Times, Orderly, LeaseTypeOK
<1>2. Uses(l) \in SUBSET Work
  BY <1>1 DEF Uses
<1>3. WorkOn(l) \subseteq after[allocation[l]] \/ WorkOn(l) \subseteq (UNION ready[l]) \cup Uses(l)
  BY DEF Orderly, Ordered, Unfilled, Filled
<1> QED BY <1>1, <1>2, <1>3 DEF CloseWaits

\* A closed target is behind the host.
LEMMA CloseKeeps ==
    ASSUME HostAssumption, Orderly, NEW l \in Leases, Close(l)
    PROVE  Orderly'
<1> USE DEF Close, Drop, Synchronize
<1>1. target[l] = "open"
  OBVIOUS
<1>2. WorkOn(l) \subseteq CloseWaits(l) /\ CloseWaits(l) \in SUBSET Work
  BY <1>1, CloseOrder
<1>3. LeaseTypeOK'
  <2>1. after' \in [Times -> SUBSET Work]
    BY <1>2 DEF Orderly, LeaseTypeOK
  <2> QED BY <2>1 DEF Orderly, LeaseTypeOK
<1>4. \A x \in Times : after[x] \subseteq after'[x] /\ CloseWaits(l) \subseteq after'[x]
  BY DEF Orderly, LeaseTypeOK
<1>5. ASSUME NEW m \in Leases, m # l PROVE Ordered(m)'
  <2>1. /\ target'[m] = target[m] /\ allocation'[m] = allocation[m]
        /\ staged'[m] = staged[m] /\ acquired'[m] = acquired[m] /\ ready'[m] = ready[m]
        /\ recorded'[m] = recorded[m] /\ whole'[m] = whole[m] /\ lost' = lost
    BY <1>5 DEF Orderly, LeaseTypeOK
  <2> QED BY <1>3, <1>4, <2>1, Kept
<1>6. Ordered(l)'
  <2>1. /\ target'[l] = "closed" /\ ~acquired'[l] /\ ~staged'[l] /\ ready'[l] = {}
        /\ WorkOn(l) \subseteq after'[Host]
    BY <1>2, <1>4 DEF Orderly, LeaseTypeOK, Times
  <2> QED BY <2>1 DEF Ordered, Fresh, Unfilled, Filled, Handed, Quiet
<1> QED BY <1>3, <1>5, <1>6 DEF Orderly

\* A failed synchronization leaves the target lost, and others as they were.
LEMMA CloseFailsKeeps ==
    ASSUME HostAssumption, Orderly, NEW l \in Leases, CloseFails(l)
    PROVE  Orderly'
<1> USE DEF CloseFails, Drop
<1>1. LeaseTypeOK'
  BY DEF Orderly, LeaseTypeOK
<1>2. ASSUME NEW m \in Leases, m # l PROVE Ordered(m)'
  <2>1. /\ target'[m] = target[m] /\ allocation'[m] = allocation[m]
        /\ staged'[m] = staged[m] /\ acquired'[m] = acquired[m] /\ ready'[m] = ready[m]
        /\ recorded'[m] = recorded[m] /\ whole'[m] = whole[m]
        /\ m \in lost <=> m \in lost'
    BY <1>2 DEF Orderly, LeaseTypeOK
  <2> QED BY <1>1, <2>1, Kept
<1>3. Ordered(l)'
  <2>1. /\ target'[l] = "closed" /\ ~acquired'[l] /\ ~staged'[l] /\ ready'[l] = {}
        /\ l \in lost'
    BY DEF Orderly, LeaseTypeOK
  <2> QED BY <2>1 DEF Ordered, Fresh, Unfilled, Filled, Handed, Quiet
<1> QED BY <1>1, <1>2, <1>3 DEF Orderly

-----------------------------------------------------------------------------
(* The theorems *)

\* Before any allocation nothing is on any target.
LEMMA LeaseInitially == ASSUME HostAssumption, LeaseInit PROVE Orderly
<1>1. LeaseTypeOK
  BY DEF LeaseInit, LeaseTypeOK
<1>2. ASSUME NEW l \in Leases PROVE Ordered(l)
  <2>1. \A x \in Times : WorkOn(l) \subseteq after[x] /\ Copies(l) \subseteq after[x]
    BY WorkSets DEF LeaseInit
  <2>2. allocation[l] \in Times
    BY <1>1 DEF LeaseTypeOK, Times
  <2> QED BY <2>1, <2>2 DEF LeaseInit, Ordered, Fresh, Unfilled, Filled, Handed, Quiet
<1> QED BY <1>1, <1>2 DEF Orderly

\* Every step keeps the invariant.
LEMMA LeaseStepKeeps == ASSUME HostAssumption, Orderly, [LeaseNext]_orderedVars PROVE Orderly'
<1>1. CASE UNCHANGED orderedVars
  BY <1>1 DEF Orderly, LeaseTypeOK, Ordered, Fresh, Unfilled, Filled, Handed, Quiet, Uses,
              orderedVars, leaseVars
<1>2. CASE LeaseNext
  <2>1. ASSUME NEW s \in Streams, NEW t \in Streams, WaitStream(s, t) PROVE Orderly'
    BY <2>1, WaitStreamKeeps
  <2>2. ASSUME NEW l \in Leases, ReleaseLease(l) \/ Close(l) \/ CloseFails(l) PROVE Orderly'
    BY <2>2, ReleaseLeaseKeeps, CloseKeeps, CloseFailsKeeps
  <2>3. ASSUME NEW l \in Leases, NEW s \in Streams,
               Allocate(l, s) \/ Acquire(l, s) \/ RecordStream(l, s) \/ Use(l, s)
        PROVE  Orderly'
    BY <2>3, AllocateKeeps, AcquireKeeps, RecordStreamKeeps, UseKeeps
  <2>4. ASSUME NEW l \in Leases, NEW s \in Streams, NEW ok \in BOOLEAN, Stage(l, s, ok)
        PROVE  Orderly'
    BY <2>4, StageKeeps
  <2> QED BY <1>2, <2>1, <2>2, <2>3, <2>4 DEF LeaseNext
<1> QED BY <1>1, <1>2

\* The inductive invariant holds always.
THEOREM LeaseInvariance == LeaseSpec => []Orderly
<1>1. LeaseInit => Orderly
  BY HostAssumption, LeaseInitially
<1>2. Orderly /\ [LeaseNext]_orderedVars => Orderly'
  BY HostAssumption, LeaseStepKeeps
<1> QED BY <1>1, <1>2, PTL DEF LeaseSpec

\* The variables of the lease keep their types.
THEOREM LeaseTypeCorrect == LeaseSpec => []LeaseTypeOK
<1>1. Orderly => LeaseTypeOK
  BY DEF Orderly
<1> QED BY <1>1, LeaseInvariance, PTL

\* CudaTargetLease.stage: whichever stream refills a target waits for all that was issued
\* on it, for any number of streams and leases, whatever copies failed before.
THEOREM RefillOrdered == LeaseSpec => []RefillWaitsForAll
<1>1. Orderly => RefillWaitsForAll
  BY HostAssumption, RefillOrder DEF RefillWaitsForAll
<1> QED BY <1>1, LeaseInvariance, PTL

\* CudaTargetLease.acquire: a target in use was filled as a whole, and the streams that
\* may use it are behind its copies.
THEOREM UseOrdered == LeaseSpec => []UseFollowsCopies
<1>1. Orderly => UseFollowsCopies
  BY DEF Orderly, Ordered, Handed, UseFollowsCopies
<1> QED BY <1>1, LeaseInvariance, PTL

\* CudaTargetLease.close: unless a synchronization failed, nothing is queued on the
\* memory of a closed target.
THEOREM QuietClose == LeaseSpec => []ClosedIsQuiet
<1>1. Orderly => ClosedIsQuiet
  BY DEF Orderly, Ordered, Quiet, ClosedIsQuiet
<1> QED BY <1>1, LeaseInvariance, PTL
=============================================================================
