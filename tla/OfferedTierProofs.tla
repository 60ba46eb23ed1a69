-------------------------- MODULE OfferedTierProofs --------------------------
(***************************************************************************)
(* Theorems about OfferedTier, for every number of threads, storages and   *)
(* regions: a copy has one owner from its allocation until it is freed,    *)
(* the tier keeps to its budget, and what is registered holds the bytes of *)
(* its own storage.                                                        *)
(***************************************************************************)
EXTENDS OfferedTier, DataLemmas

-----------------------------------------------------------------------------
(* The inductive invariant.  The operators a locked section is made of take a   *)
(* memory and return one, so its first part speaks of a memory x, of the        *)
(* regions E that acquisitions or the section itself own, of the leases n[s],   *)
(* and of the storages now at each address, cur.                                *)

Owner == [pointer : Storages, region : Regions, retired : BOOLEAN]
Offering == [owner : Owner, offer : {"running", "offered", "refused"}]
Registration == [region : Regions \cup {None}, leases : Nat, retired : BOOLEAN]
Region == [state : {"free", "open", "offered"}, data : Seq(Int)]
Memory ==
  [registered : [Storages -> Registration], idle : Seq(Storages), pending : SUBSET Storages,
   tier : Seq(Owner), batch : [Threads -> Seq(Offering)], regions : [Regions -> Region],
   maxPinned : Nat, maxOffered : Nat, watching : BOOLEAN, missed : SUBSET Storages]

RegisteredRegions(x) == {x.registered[s].region : s \in Storages} \ {None}
TierRegions(x) == {e.region : e \in ToSet(x.tier)}
BatchRegions(x, t) == {x.batch[t][i].owner.region : i \in DOMAIN x.batch[t]}

\* No two owners have the same region.
RegisteredApart(x) ==
  \A s, u \in Storages : x.registered[s].region = x.registered[u].region /\ x.registered[s].region # None => s = u
TierApart(x) ==
  /\ IsInjective(x.tier)
  /\ \A d, e \in ToSet(x.tier) : d.region = e.region \/ d.pointer = e.pointer => d = e
BatchApart(x) ==
  /\ \A t \in Threads : \A i, j \in DOMAIN x.batch[t] : x.batch[t][i].owner.region = x.batch[t][j].owner.region => i = j
  /\ \A t, u \in Threads : t # u => BatchRegions(x, t) \cap BatchRegions(x, u) = {}
KindsApart(x, E) ==
  /\ RegisteredRegions(x) \cap TierRegions(x) = {} /\ RegisteredRegions(x) \cap E = {} /\ TierRegions(x) \cap E = {}
  /\ \A t \in Threads : BatchRegions(x, t) \cap (RegisteredRegions(x) \cup TierRegions(x) \cup E) = {}

\* What is allocated has an owner, and what has an owner is allocated.
Covered(x, E) ==
  \A r \in Regions : x.regions[r].state # "free" <=>
    \/ r \in RegisteredRegions(x) \cup TierRegions(x) \cup E
    \/ \E t \in Threads : r \in BatchRegions(x, t)

\* A registration is idle when nobody leases it, and what is pending is not registered.
Booked(x, n) ==
  /\ \A s \in Storages : x.registered[s].leases = n[s] /\ (n[s] > 0 => x.registered[s].region # None)
  /\ IsInjective(x.idle) /\ ToSet(x.idle) = {s \in Storages : x.registered[s].region # None /\ n[s] = 0}
  /\ \A s \in x.pending : x.registered[s].region = None

\* The tier keeps to its budget, and to storages that are not pinned.
WithinTier(x) ==
  /\ Total(x.tier) <= x.maxOffered
  /\ \A s \in Tiered(x) : ~Occupied(x, s)

\* Region r holds storage s, all of it or all that Windows left.
Whole(x, r, s, cur) == \A i \in DOMAIN x.regions[r].data : x.regions[r].data[i] = cur[s]
Mixed(x, r, s, cur) == \A i \in DOMAIN x.regions[r].data : x.regions[r].data[i] \in {Junk, cur[s]}
RegisteredWhole(x, cur) ==
  \A s \in Storages : x.registered[s].region # None =>
    /\ x.regions[x.registered[s].region].state = "open"
    /\ s \notin x.missed => Whole(x, x.registered[s].region, s, cur)
\* What is offered is of the storage now at its address, unless its owner has gone.
Offerable(x, e, cur) == e.pointer \notin x.missed /\ ~e.retired => Mixed(x, e.region, e.pointer, cur)
TierRight(x, cur) ==
  \A e \in ToSet(x.tier) : Offerable(x, e, cur) /\ (e.retired => e.pointer \in x.missed)
BatchRight(x, cur) == \A t \in Threads : \A i \in DOMAIN x.batch[t] : Offerable(x, x.batch[t][i].owner, cur)

Good(x, E, n, cur) ==
  /\ x \in Memory
  /\ RegisteredApart(x) /\ TierApart(x) /\ BatchApart(x) /\ KindsApart(x, E) /\ Covered(x, E)
  /\ Booked(x, n) /\ WithinTier(x)
  /\ RegisteredWhole(x, cur) /\ TierRight(x, cur) /\ BatchRight(x, cur)

-----------------------------------------------------------------------------
(* The calls. *)

CopyLoad ==
  [pointer : Storages, region : Regions \cup {None}, missing : SUBSET Nat, offered : BOOLEAN, error : BOOLEAN,
   worker : {"none", "queued", "running", "back"}]
Call ==
  [pc : {"idle", "offering", "preparing", "filling", "closing", "raising", "leased"}, request : Seq(Storages),
   held : Seq(Storages), loads : Seq(CopyLoad), created : SUBSET Storages]

Reclaiming(l) == l.worker \in {"queued", "running"}
LoadRegions(loads) == {l.region : l \in ToSet(loads)} \ {None}
LoadsApart(loads) ==
  \A i, j \in DOMAIN loads :
    \/ loads[i].pointer = loads[j].pointer
    \/ loads[i].region = loads[j].region /\ loads[i].region # None
    => i = j

\* What is not missing of a copy that is back is of its storage; a copy that is not
\* back is all missing, and Windows may have discarded any of it.
LoadRight(x, l, cur) ==
  /\ l.region = None => l.error /\ ~Reclaiming(l)
  /\ Reclaiming(l) => l.offered /\ l.missing = 1 .. Size[l.pointer]
                       /\ (l.pointer \notin x.missed => Mixed(x, l.region, l.pointer, cur))
  /\ ~Reclaiming(l) /\ l.region # None =>
       /\ x.regions[l.region].state = "open"
       /\ l.pointer \notin x.missed =>
            \A i \in DOMAIN x.regions[l.region].data \ l.missing : x.regions[l.region].data[i] = cur[l.pointer]
  /\ l.worker = "none" <=> ~l.offered
LoadsRight(x, loads, cur) == \A i \in DOMAIN loads : LoadRight(x, loads[i], cur)

CallRight(x, c, cur) ==
  /\ IsInjective(c.held) /\ ToSet(c.held) \subseteq ToSet(c.request) /\ Pointers(c.loads) \subseteq ToSet(c.request)
  /\ LoadsApart(c.loads) /\ LoadsRight(x, c.loads, cur)
  /\ c.pc \in {"idle", "leased"} => c.loads = <<>>
  /\ c.pc = "idle" => c.held = <<>>
  /\ c.pc = "filling" => \A i \in DOMAIN c.loads : ~c.loads[i].offered

Leases(cl) == [s \in Storages |-> Cardinality({t \in Threads : s \in ToSet(cl[t].held)})]
Loading(cl) == UNION {LoadRegions(cl[t].loads) : t \in Threads}

Sound(x, cl, cur) ==
  /\ cur \in [Storages -> Nat] /\ cl \in [Threads -> Call]
  /\ Good(x, Loading(cl), Leases(cl), cur)
  /\ \A t \in Threads : CallRight(x, cl[t], cur)
  /\ x.pending = UNION {Pointers(cl[t].loads) : t \in Threads}
  /\ \A t, u \in Threads : t # u => cl[t].loads = <<>> \/ cl[u].loads = <<>>

IInv == Sound(memory, call, current)

-----------------------------------------------------------------------------
(* Sequences and recursions over them *)

\* The elements of a sequence are finitely many.
LEMMA ElementsFinite ==
  ASSUME NEW S, NEW q \in Seq(S)
  PROVE  /\ IsFiniteSet(ToSet(q)) /\ ToSet(q) \subseteq S
         /\ Len(q) \in Nat /\ DOMAIN q = 1 .. Len(q)
         /\ \A i \in 1 .. Len(q) : q[i] \in S /\ q[i] \in ToSet(q)
<1>1. /\ Len(q) \in Nat /\ DOMAIN q = 1 .. Len(q)
      /\ \A i \in 1 .. Len(q) : q[i] \in S
  BY LenProperties, ElementOfSeq
<1>2. ToSet(q) = {q[i] : i \in 1 .. Len(q)}
  BY <1>1 DEF ToSet
<1>3. IsFiniteSet(1 .. Len(q))
  BY <1>1, FS_Interval
<1> DEFINE U == 1 .. Len(q)
           f == [i \in U |-> q[i]]
<1>4. f \in Surjection(U, ToSet(q))
  BY <1>2 DEF Surjection
<1>5. IsFiniteSet(ToSet(q))
  <2> HIDE DEF f
  <2> QED
    BY <1>3, <1>4, FS_Surjection DEF U
<1> QED
  BY <1>1, <1>2, <1>5

\* A sequence without repetition keeps, without some of its elements, the others.
LEMMA LackingElements ==
  ASSUME NEW S, NEW q \in Seq(S), IsInjective(q), NEW V, IsFiniteSet(V)
  PROVE  /\ Lacking(q, V) \in Seq(S)
         /\ ToSet(Lacking(q, V)) = ToSet(q) \ V
         /\ IsInjective(Lacking(q, V))
<1>1. Lacking(q, V) = Without(q, V)
  BY DEF Lacking, Without
<1> QED
  BY <1>1, WithoutElements

\* How long is what is left.
LEMMA RestLength ==
  ASSUME NEW n \in Nat, NEW k \in 0 .. n
  PROVE  (IF k + 1 <= n THEN n - (k + 1) + 1 ELSE 0) = n - (k + 1) + 1
OBVIOUS

\* What is left behind the first k elements, and what those are.
LEMMA RestElements ==
  ASSUME NEW S, NEW q \in Seq(S), NEW k \in 0 .. Len(q), IsInjective(q)
  PROVE  LET rest == SubSeq(q, k + 1, Len(q))
         IN  /\ rest \in Seq(S) /\ IsInjective(rest)
             /\ Len(rest) = Len(q) - k /\ \A i \in 1 .. Len(q) - k : rest[i] = q[k + i]
             /\ ToSet(rest) \subseteq ToSet(q)
             /\ ToSet(q) \ ToSet(rest) = {q[i] : i \in 1 .. k}
<1> DEFINE rest == SubSeq(q, k + 1, Len(q))
<1>1. Len(q) \in Nat /\ DOMAIN q = 1 .. Len(q)
  BY LenProperties
<1>2. /\ rest \in Seq(S) /\ Len(rest) = Len(q) - k
      /\ \A i \in 1 .. Len(q) - k : rest[i] = q[k + i]
  <2>1. k + 1 \in 1 .. Len(q) + 1 /\ Len(q) \in k + 1 - 1 .. Len(q) /\ Len(q) - (k + 1) + 1 = Len(q) - k
    BY <1>1
  <2>2. /\ rest \in Seq(S) /\ Len(rest) = Len(q) - (k + 1) + 1
        /\ \A i \in 1 .. Len(q) - (k + 1) + 1 : rest[i] = q[(k + 1) + i - 1]
    <3>1. \A i \in k + 1 .. Len(q) : q[i] \in S
      BY SMTT(40), <1>1, ElementOfSeq
    <3>2. (IF k + 1 <= Len(q) THEN Len(q) - (k + 1) + 1 ELSE 0) = Len(q) - (k + 1) + 1
      <4>1. k \in 0 .. Len(q)
        BY <1>1
      <4> QED
        BY <1>1, <4>1, RestLength
    <3>3. k + 1 \in Int /\ Len(q) \in Int
      BY <1>1
    <3> QED
      BY <3>1, <3>2, <3>3, SubSeqProperties
  <2>3. \A i \in 1 .. Len(q) - k : (k + 1) + i - 1 = k + i
    BY <1>1
  <2> HIDE DEF rest
  <2> QED
    BY <2>1, <2>2, <2>3
<1>3. DOMAIN rest = 1 .. Len(q) - k
  BY <1>2, LenProperties
<1> HIDE DEF rest
<1>4. IsInjective(rest)
  <2>1. SUFFICES ASSUME NEW i \in 1 .. Len(q) - k, NEW j \in 1 .. Len(q) - k, rest[i] = rest[j]
                 PROVE  i = j
    BY <1>3 DEF IsInjective
  <2>2. k + i \in DOMAIN q /\ k + j \in DOMAIN q /\ q[k + i] = q[k + j]
    BY <1>1, <1>2, <2>1
  <2> QED
    BY <1>1, <2>2 DEF IsInjective
<1>5. ToSet(rest) = {q[i] : i \in k + 1 .. Len(q)}
  <2>1. ASSUME NEW i \in 1 .. Len(q) - k
        PROVE  rest[i] \in {q[j] : j \in k + 1 .. Len(q)}
    <3>1. k + i \in k + 1 .. Len(q)
      BY <1>1
    <3> QED
      BY <1>2, <3>1
  <2>2. ASSUME NEW i \in k + 1 .. Len(q)
        PROVE  q[i] \in {rest[j] : j \in 1 .. Len(q) - k}
    <3>1. i - k \in 1 .. Len(q) - k /\ k + (i - k) = i
      BY <1>1
    <3> QED
      BY <1>2, <3>1
  <2> QED
    BY <1>3, <2>1, <2>2 DEF ToSet
<1>6. ToSet(q) = {q[i] : i \in 1 .. Len(q)}
  BY <1>1 DEF ToSet
<1>7. ToSet(q) \ ToSet(rest) = {q[i] : i \in 1 .. k}
  <2>1. ASSUME NEW i \in 1 .. k
        PROVE  q[i] \in ToSet(q) /\ q[i] \notin ToSet(rest)
    <3>1. i \in DOMAIN q
      BY <1>1
    <3>2. \A j \in k + 1 .. Len(q) : j \in DOMAIN q /\ j # i
      BY <1>1
    <3>3. \A j \in k + 1 .. Len(q) : q[j] # q[i]
      BY <3>1, <3>2 DEF IsInjective
    <3> QED
      BY <1>1, <1>5, <1>6, <3>1, <3>3
  <2>2. ASSUME NEW i \in 1 .. Len(q), q[i] \notin ToSet(rest)
        PROVE  i \in 1 .. k
    <3>1. i \notin k + 1 .. Len(q)
      BY <1>5, <2>2
    <3> QED
      BY <1>1, <3>1
  <2> QED
    BY <1>6, <2>1, <2>2
<1> QED
  BY <1>1, <1>2, <1>4, <1>5, <1>6, <1>7 DEF rest

\* Two sequences without a common element, one behind the other.
LEMMA BothElements ==
  ASSUME NEW S, NEW p \in Seq(S), NEW q \in Seq(S), IsInjective(p), IsInjective(q), ToSet(p) \cap ToSet(q) = {}
  PROVE  p \o q \in Seq(S) /\ ToSet(p \o q) = ToSet(p) \cup ToSet(q) /\ IsInjective(p \o q)
<1> DEFINE r == p \o q
<1>1. /\ r \in Seq(S) /\ Len(r) = Len(p) + Len(q)
      /\ \A i \in 1 .. Len(p) : r[i] = p[i]
      /\ \A i \in 1 .. Len(q) : r[Len(p) + i] = q[i]
  BY ConcatProperties
<1>2. /\ Len(p) \in Nat /\ DOMAIN p = 1 .. Len(p)
      /\ Len(q) \in Nat /\ DOMAIN q = 1 .. Len(q)
      /\ DOMAIN r = 1 .. Len(p) + Len(q)
  BY <1>1, LenProperties
<1> HIDE DEF r
<1>3. ASSUME NEW i \in DOMAIN r, i > Len(p)
      PROVE  i - Len(p) \in DOMAIN q /\ r[i] = q[i - Len(p)]
  <2>1. i - Len(p) \in 1 .. Len(q) /\ Len(p) + (i - Len(p)) = i
    BY <1>2, <1>3
  <2> QED
    BY <1>1, <1>2, <2>1
<1>4. ASSUME NEW i \in DOMAIN r, i <= Len(p)
      PROVE  i \in DOMAIN p /\ r[i] = p[i]
  BY <1>1, <1>2, <1>4
<1>5. \A i \in DOMAIN p : i \in DOMAIN r /\ r[i] = p[i]
  BY <1>1, <1>2
<1>6. \A i \in DOMAIN q : Len(p) + i \in DOMAIN r /\ r[Len(p) + i] = q[i]
  BY <1>1, <1>2
<1>7. \A i \in DOMAIN r : i <= Len(p) \/ i > Len(p)
  BY <1>2
<1>8. ToSet(r) = ToSet(p) \cup ToSet(q)
  BY <1>3, <1>4, <1>5, <1>6, <1>7 DEF ToSet
<1>9. IsInjective(r)
  <2>1. SUFFICES ASSUME NEW i \in DOMAIN r, NEW j \in DOMAIN r, r[i] = r[j]
                 PROVE  i = j
    BY DEF IsInjective
  <2>2. CASE i <= Len(p) /\ j <= Len(p)
    <3>1. i \in DOMAIN p /\ j \in DOMAIN p /\ p[i] = p[j]
      BY <1>4, <2>1, <2>2
    <3> QED
      BY <3>1 DEF IsInjective
  <2>3. CASE i > Len(p) /\ j > Len(p)
    <3>1. i - Len(p) \in DOMAIN q /\ j - Len(p) \in DOMAIN q /\ q[i - Len(p)] = q[j - Len(p)]
      BY <1>3, <2>1, <2>3
    <3>2. i - Len(p) = j - Len(p)
      BY <3>1 DEF IsInjective
    <3> QED
      BY <1>2, <3>2
  <2>4. ASSUME NEW a \in DOMAIN r, NEW b \in DOMAIN r, a <= Len(p), b > Len(p)
        PROVE  r[a] # r[b]
    <3>1. r[a] \in ToSet(p) /\ r[b] \in ToSet(q)
      BY <1>3, <1>4, <2>4 DEF ToSet
    <3> QED
      BY <3>1
  <2> QED
    BY <1>7, <2>1, <2>2, <2>3, <2>4
<1> QED
  BY <1>1, <1>8, <1>9 DEF r

\* A sequence without the element at k.
LEMMA RemovedElements ==
  ASSUME NEW S, NEW q \in Seq(S), NEW k \in 1 .. Len(q)
  PROVE  LET rest == RemoveAt(q, k)
         IN  /\ rest \in Seq(S) /\ Len(rest) = Len(q) - 1 /\ DOMAIN rest = 1 .. Len(q) - 1
             /\ \A i \in 1 .. Len(q) - 1 : rest[i] = IF i < k THEN q[i] ELSE q[i + 1]
<1> DEFINE l == SubSeq(q, 1, k - 1)
           r == SubSeq(q, k + 1, Len(q))
<1>1. Len(q) \in Nat /\ DOMAIN q = 1 .. Len(q)
  BY LenProperties
<1>2. /\ l \in Seq(S) /\ Len(l) = k - 1 /\ r \in Seq(S) /\ Len(r) = Len(q) - k
      /\ \A i \in 1 .. k - 1 : l[i] = q[i]
      /\ \A i \in 1 .. Len(q) - k : r[i] = q[k + i]
  <2>1. k + 1 \in 1 .. Len(q) + 1 /\ Len(q) \in k + 1 - 1 .. Len(q) /\ Len(q) - (k + 1) + 1 = Len(q) - k
    BY <1>1
  <2>2. /\ r \in Seq(S) /\ Len(r) = Len(q) - (k + 1) + 1
        /\ \A i \in 1 .. Len(q) - (k + 1) + 1 : r[i] = q[(k + 1) + i - 1]
    <3>1. \A i \in k + 1 .. Len(q) : q[i] \in S
      BY SMTT(40), <1>1, ElementOfSeq
    <3>2. (IF k + 1 <= Len(q) THEN Len(q) - (k + 1) + 1 ELSE 0) = Len(q) - (k + 1) + 1
      <4>1. k \in 0 .. Len(q)
        BY <1>1
      <4> QED
        BY <1>1, <4>1, RestLength
    <3>3. k + 1 \in Int /\ Len(q) \in Int
      BY <1>1
    <3> QED
      BY <3>1, <3>2, <3>3, SubSeqProperties
  <2>3. 1 \in 1 .. Len(q) + 1 /\ k - 1 \in 1 - 1 .. Len(q) /\ (k - 1) - 1 + 1 = k - 1
    BY <1>1
  <2>4. /\ l \in Seq(S) /\ Len(l) = (k - 1) - 1 + 1
        /\ \A i \in 1 .. (k - 1) - 1 + 1 : l[i] = q[1 + i - 1]
    BY <2>3, SubSeqProperties
  <2>5. (\A i \in 1 .. Len(q) - k : (k + 1) + i - 1 = k + i) /\ \A i \in 1 .. k - 1 : 1 + i - 1 = i
    BY <1>1
  <2> HIDE DEF l, r
  <2> QED
    BY <2>1, <2>2, <2>3, <2>4, <2>5
<1> HIDE DEF l, r
<1>3. /\ l \o r \in Seq(S) /\ Len(l \o r) = Len(q) - 1
      /\ \A i \in 1 .. Len(l) : (l \o r)[i] = l[i]
      /\ \A i \in 1 .. Len(r) : (l \o r)[Len(l) + i] = r[i]
  <2>1. Len(l \o r) = Len(l) + Len(r)
    BY <1>2, ConcatProperties
  <2>2. (k - 1) + (Len(q) - k) = Len(q) - 1
    BY <1>1
  <2> QED
    BY SMTT(40), <1>2, <2>1, <2>2, ConcatProperties
<1>4. ASSUME NEW i \in 1 .. Len(q) - 1
      PROVE  (l \o r)[i] = IF i < k THEN q[i] ELSE q[i + 1]
  <2>1. CASE i < k
    <3>1. i \in 1 .. k - 1
      BY <1>1, <2>1
    <3> QED
      BY <1>2, <1>3, <2>1, <3>1
  <2>2. CASE ~(i < k)
    <3>1. i - (k - 1) \in 1 .. Len(q) - k /\ (k - 1) + (i - (k - 1)) = i /\ k + (i - (k - 1)) = i + 1
      BY <1>1, <2>2
    <3>2. (l \o r)[i] = r[i - (k - 1)]
      BY <1>2, <1>3, <3>1
    <3> QED
      BY <1>2, <2>2, <3>1, <3>2
  <2> QED
    BY <2>1, <2>2
<1>5. DOMAIN (l \o r) = 1 .. Len(q) - 1
  BY <1>3, LenProperties
<1> QED
  BY <1>3, <1>4, <1>5 DEF RemoveAt, l, r


\* What holds of 0 and of each number whose predecessor it holds of holds of all.
LEMMA UpTo ==
  ASSUME NEW N \in Nat, NEW G, 0 \in G, \A n \in 1 .. N : n - 1 \in G => n \in G
  PROVE  \A n \in 0 .. N : n \in G
<1> DEFINE B == (0 .. N) \ G
<1>1. ASSUME B # {}
      PROVE  FALSE
  <2>1. B \in SUBSET (0 .. N)
    OBVIOUS
  <2>2. Min(B) \in B /\ \A n \in B : Min(B) <= n
    <3> HIDE DEF B
    <3> QED
      BY <1>1, <2>1, MinLeast
  <2>3. PICK m \in B : \A n \in B : m <= n
    BY <2>2
  <2>4. m \in 1 .. N /\ m - 1 \in 0 .. N /\ ~(m <= m - 1)
    BY <2>3
  <2>5. m - 1 \in G
    BY <2>3, <2>4
  <2> QED
    BY <2>3, <2>4, <2>5
<1> QED
  BY <1>1

\* f iterates the steps from base, through X[0] to X[N].
Runs(f, N, base, step, X) ==
  /\ f = [n \in 0 .. N |-> IF n = 0 THEN base ELSE step[n][f[n - 1]]]
  /\ \A n \in 0 .. N : f[n] \in X[n]

\* A recursion of N steps, each of which leads from X[n - 1] to X[n], has a solution.
LEMMA Iterates ==
  ASSUME NEW N \in Nat, NEW base, NEW step, NEW X, base \in X[0],
         \A n \in 1 .. N : \A y \in X[n - 1] : step[n][y] \in X[n]
  PROVE  \E f : Runs(f, N, base, step, X)
<1> DEFINE Solves(f, m) == /\ f = [n \in 0 .. m |-> IF n = 0 THEN base ELSE step[n][f[n - 1]]]
                           /\ \A n \in 0 .. m : f[n] \in X[n]
           G == {m \in 0 .. N : \E f : Solves(f, m)}
<1>1. 0 \in G
  <2>1. Solves([n \in 0 .. 0 |-> base], 0)
    OBVIOUS
  <2>2. \E f : Solves(f, 0)
    BY <2>1
  <2> HIDE DEF Solves
  <2> QED
    BY <2>2
<1>2. ASSUME NEW m \in 1 .. N, m - 1 \in G
      PROVE  m \in G
  <2>1. PICK g : Solves(g, m - 1)
    BY <1>2
  <2> DEFINE f == [n \in 0 .. m |-> IF n = m THEN step[m][g[m - 1]] ELSE g[n]]
  <2>2. \A n \in 0 .. m - 1 : n \in 0 .. m /\ n # m
    OBVIOUS
  <2>3. \A n \in 0 .. m - 1 : f[n] = g[n]
    BY <2>2
  <2>4. \A n \in 0 .. m : n # m => n \in 0 .. m - 1
    OBVIOUS
  <2>5. m \in 0 .. m /\ m - 1 \in 0 .. m - 1 /\ m # 0
    OBVIOUS
  <2>6. f[m] = step[m][f[m - 1]]
    BY <2>3, <2>5
  <2>7. \A n \in 0 .. m - 1 : n # 0 => n - 1 \in 0 .. m - 1
    OBVIOUS
  <2>8. \A n \in 0 .. m - 1 : f[n] = IF n = 0 THEN base ELSE step[n][f[n - 1]]
    <3>1. \A n \in 0 .. m - 1 : g[n] = IF n = 0 THEN base ELSE step[n][g[n - 1]]
      BY <2>1
    <3> HIDE DEF f
    <3> QED
      BY <2>3, <2>7, <3>1
  <2>9. f[m] \in X[m] /\ \A n \in 0 .. m - 1 : f[n] \in X[n]
    <3>1. \A n \in 0 .. m - 1 : g[n] \in X[n]
      BY <2>1
    <3>2. f[m - 1] \in X[m - 1]
      BY <2>3, <2>5, <3>1
    <3> HIDE DEF f
    <3> QED
      BY <2>3, <2>6, <3>1, <3>2
  <2>10. f = [n \in 0 .. m |-> f[n]]
    OBVIOUS
  <2> HIDE DEF f
  <2>11. \A n \in 0 .. m : f[n] = IF n = 0 THEN base ELSE step[n][f[n - 1]]
    BY <2>4, <2>5, <2>6, <2>8
  <2>12. Solves(f, m)
    BY <2>4, <2>9, <2>10, <2>11
  <2> QED
    BY <2>12
<1>3. \A m \in 0 .. N : m \in G
  <2> HIDE DEF G
  <2> QED
    BY <1>1, <1>2, UpTo
<1>4. N \in G
  BY <1>3
<1> QED
  BY <1>4 DEF Runs

-----------------------------------------------------------------------------
(* The tier's bytes *)

\* The storages' sizes.
LEMMA Sizes ==
  /\ IsFiniteSet(Storages) /\ Size \in [Storages -> Nat \ {0}]
  /\ Storages \subseteq Regions /\ None \notin Regions /\ None \notin Threads
<1>1. Size \in Seq(Nat \ {0}) /\ Storages \subseteq Regions /\ None \notin Regions /\ None \notin Threads
  BY OfferedAssumption
<1>2. Len(Size) \in Nat /\ Storages = 1 .. Len(Size) /\ \A i \in 1 .. Len(Size) : Size[i] \in Nat \ {0}
  BY <1>1, LenProperties, ElementOfSeq DEF Storages
<1>3. Size \in [Storages -> Nat \ {0}]
  BY <1>1, <1>2 DEF Storages
<1> QED
  BY <1>1, <1>2, <1>3, FS_Interval

\* Owners are of storages.
LEMMA OwnerPointers == ASSUME NEW q \in Seq(Owner) PROVE Pointers(q) \subseteq Storages
<1>1. ToSet(q) \subseteq Owner
  BY ElementsFinite
<1> QED
  BY <1>1 DEF Pointers, Owner

\* The tier's total is a sum over its pointers, and no more than that of a larger tier.
LEMMA Totals ==
  ASSUME NEW q \in Seq(Owner), NEW r \in Seq(Owner), ToSet(r) \subseteq ToSet(q)
  PROVE  Total(q) \in Nat /\ Total(r) \in Nat /\ Total(r) <= Total(q)
<1>1. /\ Total(q) = Sum(Size, Pointers(q))
      /\ Total(r) = Sum(Size, Pointers(r))
  BY DEF Total, Sum
<1>2. Pointers(q) \subseteq Storages /\ Pointers(r) \subseteq Pointers(q)
  BY OwnerPointers DEF Pointers
<1>3. /\ IsFiniteSet(Pointers(q)) /\ IsFiniteSet(Pointers(r)) /\ IsFiniteSet(Pointers(q) \ Pointers(r))
      /\ \A s \in Pointers(q) : Size[s] \in Nat
  BY <1>2, Sizes, FS_Subset
<1>4. /\ Sum(Size, Pointers(q)) \in Nat
      /\ Sum(Size, Pointers(r)) \in Nat
      /\ Sum(Size, Pointers(q) \ Pointers(r)) \in Nat
  BY <1>2, <1>3, SumNat
<1>5. Sum(Size, Pointers(q)) = Sum(Size, Pointers(r)) + Sum(Size, Pointers(q) \ Pointers(r))
  BY <1>2, <1>3, SumSplit
<1> QED
  BY <1>1, <1>4, <1>5

\* An empty tier has no bytes, and a copy of another storage adds its own.
LEMMA TotalEmpty == Total(<<>>) = 0
<1>1. ToSet(<<>>) = {}
  BY ToSetEmpty, EmptySeq
<1>2. Pointers(<<>>) = {}
  BY <1>1 DEF Pointers
<1>3. Total(<<>>) = Sum(Size, {})
  BY <1>2 DEF Total, Sum
<1> QED
  BY <1>3, SumEmpty

\* A copy of a storage the tier has none of adds its size.
LEMMA TotalMore ==
  ASSUME NEW q \in Seq(Owner), NEW r \in Seq(Owner), NEW s \in Storages,
         s \notin Pointers(q), Pointers(r) = Pointers(q) \cup {s}
  PROVE  Total(r) = Total(q) + Size[s] /\ Total(q) \in Nat /\ Size[s] \in Nat
<1>1. /\ Total(q) = Sum(Size, Pointers(q))
      /\ Total(r) = Sum(Size, Pointers(q) \cup {s})
  BY DEF Total, Sum
<1>2. Pointers(q) \subseteq Storages
  BY OwnerPointers
<1>3. IsFiniteSet(Pointers(q)) /\ \A u \in Pointers(q) \cup {s} : Size[u] \in Int
  BY <1>2, Sizes, FS_Subset
<1>4. Sum(Size, Pointers(q) \cup {s}) = Sum(Size, Pointers(q)) + Size[s]
  BY <1>3, SumAdd
<1> QED
  BY <1>1, <1>4, Totals, Sizes


-----------------------------------------------------------------------------
(* Steps of a locked section that move a copy from one owner to another *)

\* What a step inside a locked section leaves alone: what is pending, the budgets and
\* the regions that E owns.
Frame(x, y, E) ==
  /\ y.pending = x.pending /\ y.maxPinned = x.maxPinned /\ y.maxOffered = x.maxOffered
  /\ x.missed \subseteq y.missed
  /\ \A r \in E \cap Regions : y.regions[r] = x.regions[r]

\* Frames chain, and hold of less.
LEMMA FrameTwice ==
  ASSUME NEW x, NEW y, NEW z, NEW E, NEW D, E \subseteq D, Frame(x, y, D), Frame(y, z, E)
  PROVE  Frame(x, z, E)
BY DEF Frame

\* A memory is a record of its fields.
LEMMA Fields ==
  ASSUME NEW x \in Memory
  PROVE  /\ x.registered \in [Storages -> Registration] /\ x.idle \in Seq(Storages)
         /\ x.pending \in SUBSET Storages /\ x.tier \in Seq(Owner) /\ x.batch \in [Threads -> Seq(Offering)]
         /\ x.regions \in [Regions -> Region] /\ x.maxPinned \in Nat /\ x.maxOffered \in Nat
         /\ x.watching \in BOOLEAN /\ x.missed \in SUBSET Storages
BY DEF Memory

\* The owners in a memory have regions.
LEMMA OwnedRegions ==
  ASSUME NEW x \in Memory
  PROVE  /\ RegisteredRegions(x) \subseteq Regions /\ TierRegions(x) \subseteq Regions
         /\ \A t \in Threads : BatchRegions(x, t) \subseteq Regions
         /\ \A s \in Storages : x.registered[s].region \in Regions \cup {None} /\ x.registered[s].leases \in Nat
         /\ \A e \in ToSet(x.tier) : e \in Owner /\ e.pointer \in Storages /\ e.region \in Regions /\ e.retired \in BOOLEAN
         /\ \A t \in Threads : \A i \in DOMAIN x.batch[t] :
               /\ x.batch[t][i] \in Offering /\ x.batch[t][i].owner \in Owner
               /\ x.batch[t][i].owner.pointer \in Storages /\ x.batch[t][i].owner.region \in Regions
<1>1. \A s \in Storages : x.registered[s].region \in Regions \cup {None} /\ x.registered[s].leases \in Nat
  BY Fields DEF Registration
<1>2. \A e \in ToSet(x.tier) : e \in Owner
  BY Fields, ElementsFinite
<1>3. ASSUME NEW t \in Threads, NEW i \in DOMAIN x.batch[t]
      PROVE  x.batch[t][i] \in Offering
  <2>1. x.batch[t] \in Seq(Offering)
    BY Fields
  <2> QED
    BY <1>3, <2>1, ElementsFinite
<1>4. \A e \in Owner : e.pointer \in Storages /\ e.region \in Regions /\ e.retired \in BOOLEAN
  BY DEF Owner
<1>5. \A b \in Offering : b.owner \in Owner
  BY DEF Offering
<1>6. TierRegions(x) \subseteq Regions
  BY <1>2, <1>4 DEF TierRegions
<1>7. \A t \in Threads : BatchRegions(x, t) \subseteq Regions
  BY <1>3, <1>4, <1>5 DEF BatchRegions
<1>8. RegisteredRegions(x) \subseteq Regions
  BY <1>1 DEF RegisteredRegions
<1> QED
  BY <1>1, <1>2, <1>3, <1>4, <1>5, <1>6, <1>7, <1>8

\* Good, in parts.
LEMMA GoodParts ==
  ASSUME NEW x, NEW E, NEW n, NEW cur, Good(x, E, n, cur)
  PROVE  /\ x \in Memory /\ RegisteredApart(x) /\ TierApart(x) /\ BatchApart(x) /\ KindsApart(x, E) /\ Covered(x, E)
         /\ Booked(x, n) /\ WithinTier(x) /\ RegisteredWhole(x, cur) /\ TierRight(x, cur) /\ BatchRight(x, cur)
BY DEF Good

\* What belongs to nobody but E belongs to no registration, no batch and not to the tier.
LEMMA Elsewhere ==
  ASSUME NEW x \in Memory, NEW E, KindsApart(x, E), NEW r \in E
  PROVE  /\ \A s \in Storages : x.registered[s].region # None => x.registered[s].region # r
         /\ \A e \in ToSet(x.tier) : e.region # r
         /\ \A t \in Threads : \A i \in DOMAIN x.batch[t] : x.batch[t][i].owner.region # r
<1>1. r \notin RegisteredRegions(x) /\ r \notin TierRegions(x) /\ \A t \in Threads : r \notin BatchRegions(x, t)
  BY DEF KindsApart
<1> QED
  BY <1>1 DEF RegisteredRegions, TierRegions, BatchRegions

\* What is freed belongs to nobody.
LEMMA FreedKeeps ==
  ASSUME NEW x, NEW E, NEW R, NEW n, NEW cur, Good(x, E \cup R, n, cur), E \cap R = {}
  PROVE  Good(Freed(x, R), E, n, cur) /\ Frame(x, Freed(x, R), E) /\ Freed(x, R).tier = x.tier
<1> DEFINE y == Freed(x, R)
<1>1. x \in Memory
  BY GoodParts
<1>2. /\ y.registered = x.registered /\ y.idle = x.idle /\ y.pending = x.pending /\ y.tier = x.tier
      /\ y.batch = x.batch /\ y.maxPinned = x.maxPinned /\ y.maxOffered = x.maxOffered /\ y.missed = x.missed
      /\ y.regions = [r \in Regions |-> IF r \in R THEN Free ELSE x.regions[r]]
  BY <1>1 DEF Freed, Memory
<1>3. y \in Memory
  <2>1. Free \in Region
    BY DEF Free, Region
  <2>2. [r \in Regions |-> IF r \in R THEN Free ELSE x.regions[r]] \in [Regions -> Region]
    BY <1>1, <2>1, Fields
  <2> QED
    BY <1>1, <2>2 DEF Freed, Memory
<1> HIDE DEF y
<1>4. /\ RegisteredRegions(y) = RegisteredRegions(x) /\ TierRegions(y) = TierRegions(x)
      /\ \A t \in Threads : BatchRegions(y, t) = BatchRegions(x, t)
  BY <1>2 DEF RegisteredRegions, TierRegions, BatchRegions
<1>5. RegisteredApart(y) /\ TierApart(y) /\ BatchApart(y)
  BY <1>2, <1>4, GoodParts DEF RegisteredApart, TierApart, BatchApart
<1>6. KindsApart(x, E \cup R) /\ KindsApart(y, E)
  BY <1>4, GoodParts DEF KindsApart
<1>7. Booked(y, n) /\ WithinTier(y)
  BY <1>2, GoodParts DEF Booked, WithinTier, Tiered, Occupied
<1>8. Covered(y, E)
  <2>1. SUFFICES ASSUME NEW r \in Regions
                 PROVE  y.regions[r].state # "free" <=>
                          \/ r \in RegisteredRegions(x) \cup TierRegions(x) \cup E
                          \/ \E t \in Threads : r \in BatchRegions(x, t)
    BY <1>4 DEF Covered
  <2>2. CASE r \in R
    <3>1. y.regions[r].state = "free"
      BY <1>2, <2>2 DEF Free
    <3>2. r \notin E /\ r \notin RegisteredRegions(x) /\ r \notin TierRegions(x)
      BY <1>6, <2>2 DEF KindsApart
    <3>3. \A t \in Threads : r \notin BatchRegions(x, t)
      BY <1>6, <2>2 DEF KindsApart
    <3> QED
      BY <3>1, <3>2, <3>3
  <2>3. CASE r \notin R
    <3>1. y.regions[r] = x.regions[r]
      BY <1>2, <2>3
    <3>2. Covered(x, E \cup R)
      BY GoodParts
    <3> QED
      BY <2>3, <3>1, <3>2 DEF Covered
  <2> QED
    BY <2>2, <2>3
<1>9. /\ \A s \in Storages : x.registered[s].region # None => y.regions[x.registered[s].region] = x.regions[x.registered[s].region]
      /\ \A e \in ToSet(x.tier) : y.regions[e.region] = x.regions[e.region]
      /\ \A t \in Threads : \A i \in DOMAIN x.batch[t] :
           y.regions[x.batch[t][i].owner.region] = x.regions[x.batch[t][i].owner.region]
  <2>1. \A r \in Regions : r \notin R => y.regions[r] = x.regions[r]
    BY <1>2
  <2>2. \A r \in R : /\ \A s \in Storages : x.registered[s].region # None => x.registered[s].region # r
                     /\ \A e \in ToSet(x.tier) : e.region # r
                     /\ \A t \in Threads : \A i \in DOMAIN x.batch[t] : x.batch[t][i].owner.region # r
    BY <1>1, <1>6, Elsewhere
  <2> QED
    BY SMTT(40), <1>1, <2>1, <2>2, OwnedRegions
<1>10. RegisteredWhole(y, cur)
  BY <1>2, <1>9, GoodParts DEF RegisteredWhole, Whole
<1>11. TierRight(y, cur)
  <2>1. TierRight(x, cur)
    BY GoodParts
  <2> QED
    BY <1>2, <1>9, <2>1 DEF TierRight, Offerable, Mixed
<1>12. BatchRight(y, cur)
  <2>1. ASSUME NEW t \in Threads, NEW i \in DOMAIN x.batch[t]
        PROVE  Offerable(y, x.batch[t][i].owner, cur)
    <3>1. Offerable(x, x.batch[t][i].owner, cur)
      BY GoodParts DEF BatchRight
    <3> QED
      BY ZenonT(60), <1>2, <1>9, <3>1 DEF Offerable, Mixed
  <2> QED
    BY <1>2, <2>1 DEF BatchRight
<1>13. Frame(x, y, E)
  <2>1. \A r \in E \cap Regions : y.regions[r] = x.regions[r]
    BY <1>2
  <2> QED
    BY <1>2, <2>1 DEF Frame
<1> QED
  BY <1>2, <1>3, <1>5, <1>6, <1>7, <1>8, <1>10, <1>11, <1>12, <1>13 DEF Good, y


\* Good does not depend on the pinned budget and on whether the tier is watched.
LEMMA GoodSame ==
  ASSUME NEW x, NEW y \in Memory, NEW E, NEW n, NEW cur, Good(x, E, n, cur),
         y.registered = x.registered, y.idle = x.idle, y.pending = x.pending, y.tier = x.tier,
         y.batch = x.batch, y.regions = x.regions, y.maxOffered = x.maxOffered, y.missed = x.missed
  PROVE  Good(y, E, n, cur)
<1>1. /\ RegisteredRegions(y) = RegisteredRegions(x) /\ TierRegions(y) = TierRegions(x)
      /\ \A t \in Threads : BatchRegions(y, t) = BatchRegions(x, t)
  BY DEF RegisteredRegions, TierRegions, BatchRegions
<1>2. RegisteredApart(y) /\ TierApart(y) /\ BatchApart(y) /\ KindsApart(y, E) /\ Covered(y, E)
  BY <1>1, GoodParts DEF RegisteredApart, TierApart, BatchApart, KindsApart, Covered
<1>3. Booked(y, n) /\ WithinTier(y)
  BY GoodParts DEF Booked, WithinTier, Tiered, Occupied
<1>4. RegisteredWhole(y, cur) /\ TierRight(y, cur)
  <2>1. RegisteredWhole(x, cur) /\ TierRight(x, cur)
    BY GoodParts
  <2>2. RegisteredWhole(y, cur)
    BY <2>1 DEF RegisteredWhole, Whole
  <2>3. TierRight(y, cur)
    BY ZenonT(60), <2>1 DEF TierRight, Offerable, Mixed
  <2> QED
    BY <2>2, <2>3
<1>5. BatchRight(y, cur)
  <2>1. BatchRight(x, cur)
    BY GoodParts
  <2> QED
    BY ZenonT(60), <2>1 DEF BatchRight, Offerable, Mixed
<1> QED
  BY <1>2, <1>3, <1>4, <1>5 DEF Good

\* Who owns a region makes no difference to who else does.
LEMMA GoodSets ==
  ASSUME NEW x, NEW E, NEW D, NEW n, NEW cur, Good(x, E, n, cur),
         \A r \in Regions : r \in E <=> r \in D
  PROVE  Good(x, D, n, cur)
<1>1. KindsApart(x, D)
  BY GoodParts, OwnedRegions DEF KindsApart
<1>2. Covered(x, D)
  BY GoodParts DEF Covered
<1> QED
  BY <1>1, <1>2, GoodParts DEF Good

\* What leaves the tier is the section's own.
LEMMA TierLeaves ==
  ASSUME NEW x, NEW E, NEW n, NEW cur, Good(x, E, n, cur),
         NEW q \in Seq(Owner), IsInjective(q), ToSet(q) \subseteq ToSet(x.tier)
  PROVE  LET y == [x EXCEPT !.tier = q]
             D == {e.region : e \in ToSet(x.tier) \ ToSet(q)}
         IN  Good(y, E \cup D, n, cur) /\ E \cap D = {} /\ Frame(x, y, E)
<1> DEFINE y == [x EXCEPT !.tier = q]
           D == {e.region : e \in ToSet(x.tier) \ ToSet(q)}
<1>1. x \in Memory
  BY GoodParts
<1>2. /\ y.registered = x.registered /\ y.idle = x.idle /\ y.pending = x.pending /\ y.tier = q
      /\ y.batch = x.batch /\ y.maxPinned = x.maxPinned /\ y.maxOffered = x.maxOffered /\ y.missed = x.missed
      /\ y.regions = x.regions
  BY <1>1 DEF Memory
<1>3. y \in Memory
  BY <1>1 DEF Memory
<1> HIDE DEF y
<1>4. /\ RegisteredRegions(y) = RegisteredRegions(x)
      /\ \A t \in Threads : BatchRegions(y, t) = BatchRegions(x, t)
  BY <1>2 DEF RegisteredRegions, BatchRegions
<1>5. TierRegions(x) = TierRegions(y) \cup D /\ TierRegions(y) \cap D = {}
  <2>1. \A d, e \in ToSet(x.tier) : d.region = e.region => d = e
    BY GoodParts DEF TierApart
  <2> QED
    BY <1>2, <2>1 DEF TierRegions
<1>6. RegisteredApart(y) /\ TierApart(y) /\ BatchApart(y)
  BY <1>2, <1>4, GoodParts DEF RegisteredApart, TierApart, BatchApart
<1> HIDE DEF D
<1>7. KindsApart(x, E) /\ KindsApart(y, E \cup D) /\ E \cap D = {}
  BY <1>4, <1>5, GoodParts DEF KindsApart
<1>8. Covered(y, E \cup D)
  BY <1>2, <1>4, <1>5, GoodParts DEF Covered
<1>9. Booked(y, n)
  BY <1>2, GoodParts DEF Booked
<1>10. WithinTier(y)
  <2>1. Total(q) <= Total(x.tier) /\ Total(q) \in Nat /\ Total(x.tier) \in Nat /\ x.maxOffered \in Nat
    BY <1>1, Fields, Totals
  <2>2. Total(x.tier) <= x.maxOffered /\ \A s \in Tiered(x) : ~Occupied(x, s)
    BY GoodParts DEF WithinTier
  <2>3. \A s \in Tiered(y) : s \in Tiered(x) /\ (Occupied(y, s) <=> Occupied(x, s))
    BY <1>2 DEF Tiered, Pointers, Occupied
  <2>4. Total(q) <= x.maxOffered
    BY <2>1, <2>2
  <2> QED
    BY <1>2, <2>2, <2>3, <2>4 DEF WithinTier
<1>11. RegisteredWhole(y, cur) /\ TierRight(y, cur)
  BY <1>2, GoodParts DEF RegisteredWhole, Whole, TierRight, Offerable, Mixed
<1>12. BatchRight(y, cur)
  <2>1. BatchRight(x, cur)
    BY GoodParts
  <2> QED
    BY ZenonT(60), <1>2, <2>1 DEF BatchRight, Offerable, Mixed
<1>13. Frame(x, y, E)
  BY <1>2 DEF Frame
<1> QED
  BY <1>3, <1>6, <1>7, <1>8, <1>9, <1>10, <1>11, <1>12, <1>13 DEF Good, y, D

\* What enters the tier is of a storage that is neither pinned nor in the tier, and fits.
LEMMA TierJoins ==
  ASSUME NEW x, NEW E, NEW n, NEW cur, NEW e \in Owner, NEW M \in SUBSET Storages,
         Good(x, E \cup {e.region}, n, cur), e.region \notin E,
         e.pointer \notin Tiered(x), ~Occupied(x, e.pointer),
         Total(x.tier) + Size[e.pointer] <= x.maxOffered,
         e.retired => e.pointer \in x.missed \cup M,
         e.pointer \notin x.missed \cup M => Mixed(x, e.region, e.pointer, cur)
  PROVE  LET y == [x EXCEPT !.tier = Append(@, e), !.missed = @ \cup M]
         IN  Good(y, E, n, cur) /\ Frame(x, y, E)
<1> DEFINE y == [x EXCEPT !.tier = Append(@, e), !.missed = @ \cup M]
           q == Append(x.tier, e)
<1>1. x \in Memory
  BY GoodParts
<1>2. /\ x.tier \in Seq(Owner) /\ q \in Seq(Owner) /\ ToSet(q) = ToSet(x.tier) \cup {e}
      /\ IsInjective(x.tier) /\ e \notin ToSet(x.tier) => IsInjective(q)
  BY <1>1, Fields, ToSetAppend
<1>3. /\ y.registered = x.registered /\ y.idle = x.idle /\ y.pending = x.pending /\ y.tier = q
      /\ y.batch = x.batch /\ y.maxPinned = x.maxPinned /\ y.maxOffered = x.maxOffered
      /\ y.missed = x.missed \cup M /\ y.regions = x.regions
  BY <1>1 DEF Memory
<1>4. y \in Memory
  BY <1>1, <1>2 DEF Memory
<1> HIDE DEF y, q
<1>5. /\ RegisteredRegions(y) = RegisteredRegions(x)
      /\ \A t \in Threads : BatchRegions(y, t) = BatchRegions(x, t)
  BY <1>3 DEF RegisteredRegions, BatchRegions
<1>6. TierRegions(y) = TierRegions(x) \cup {e.region}
  BY <1>2, <1>3 DEF TierRegions
<1>7. KindsApart(x, E \cup {e.region})
  BY GoodParts
<1>8. e.region \notin TierRegions(x)
  BY <1>7 DEF KindsApart
<1>9. TierApart(y)
  <2>1. e \notin ToSet(x.tier)
    BY <1>8 DEF TierRegions
  <2>2. \A d \in ToSet(x.tier) : d.region # e.region /\ d.pointer # e.pointer
    BY <1>8 DEF TierRegions, Tiered, Pointers
  <2>3. IsInjective(x.tier) /\ \A d, g \in ToSet(x.tier) : d.region = g.region \/ d.pointer = g.pointer => d = g
    BY GoodParts DEF TierApart
  <2> QED
    BY <1>2, <1>3, <2>1, <2>2, <2>3 DEF TierApart
<1>10. RegisteredApart(y) /\ BatchApart(y)
  BY <1>3, <1>5, GoodParts DEF RegisteredApart, BatchApart
<1>11. KindsApart(y, E)
  BY <1>5, <1>6, <1>7 DEF KindsApart
<1>12. Covered(y, E)
  BY <1>3, <1>5, <1>6, GoodParts DEF Covered
<1>13. Booked(y, n)
  BY <1>3, GoodParts DEF Booked
<1>14. WithinTier(y)
  <2>1. e.pointer \in Storages
    BY DEF Owner
  <2>2. Pointers(q) = Pointers(x.tier) \cup {e.pointer}
    BY <1>2 DEF Pointers
  <2>3. Total(q) = Total(x.tier) + Size[e.pointer]
    BY <1>2, <2>1, <2>2, TotalMore DEF Tiered
  <2>4. \A s \in Tiered(y) : s \in Tiered(x) \cup {e.pointer} /\ (Occupied(y, s) <=> Occupied(x, s))
    BY <1>3, <2>2 DEF Tiered, Occupied
  <2> QED
    BY <1>3, <2>3, <2>4, GoodParts DEF WithinTier
<1>15. RegisteredWhole(y, cur)
  BY <1>3, GoodParts DEF RegisteredWhole, Whole
<1>16. TierRight(y, cur)
  <2>1. ASSUME NEW d \in ToSet(x.tier)
        PROVE  Offerable(y, d, cur) /\ (d.retired => d.pointer \in y.missed)
    BY <1>3, <2>1, GoodParts DEF TierRight, Offerable, Mixed
  <2>2. Offerable(y, e, cur) /\ (e.retired => e.pointer \in y.missed)
    BY ZenonT(60), <1>3 DEF Offerable, Mixed
  <2> QED
    BY <1>2, <1>3, <2>1, <2>2 DEF TierRight
<1>17. BatchRight(y, cur)
  <2>1. BatchRight(x, cur)
    BY GoodParts
  <2> QED
    BY ZenonT(60), <1>3, <2>1 DEF BatchRight, Offerable, Mixed
<1>18. Frame(x, y, E)
  BY <1>3 DEF Frame
<1> QED
  BY <1>4, <1>9, <1>10, <1>11, <1>12, <1>13, <1>14, <1>15, <1>16, <1>17, <1>18 DEF Good, y

-----------------------------------------------------------------------------
(* The tier's own steps *)

\* What the tier's steps leave alone besides.
SameBooks(x, y) == y.registered = x.registered /\ y.idle = x.idle /\ y.batch = x.batch

\* Evicting offered copies makes the tier no larger than the target.
LEMMA EvictOfferedKeeps ==
  ASSUME NEW x, NEW E, NEW n, NEW cur, Good(x, E, n, cur), NEW target \in Int
  PROVE  LET y == EvictOffered(x, target)
         IN  /\ Good(y, E, n, cur) /\ Frame(x, y, E) /\ SameBooks(x, y)
             /\ y.tier \in Seq(Owner) /\ ToSet(y.tier) \subseteq ToSet(x.tier)
             /\ target >= 0 => Total(y.tier) <= target
<1> DEFINE q == x.tier
           length == Len(q)
           K == {k \in 0 .. length : k = length \/ Total(SubSeq(q, k + 1, length)) <= target}
           first == Min(K)
           rest == SubSeq(q, first + 1, length)
           D == {q[i].region : i \in 1 .. first}
           z == [x EXCEPT !.tier = rest]
           y == Freed(z, D)
<1>1. EvictOffered(x, target) = y
  BY DEF EvictOffered
<1>2. x \in Memory /\ q \in Seq(Owner) /\ length \in Nat /\ IsInjective(q)
  BY GoodParts, Fields, LenProperties DEF TierApart
<1>3. first \in K
  <2>1. K \in SUBSET (0 .. length) /\ length \in K
    BY <1>2
  <2> HIDE DEF K
  <2> QED
    BY <1>2, <2>1, MinLeast
<1>4. first \in 0 .. length
  BY <1>3
<1>5. /\ rest \in Seq(Owner) /\ IsInjective(rest) /\ ToSet(rest) \subseteq ToSet(q)
      /\ Len(rest) = length - first
      /\ ToSet(q) \ ToSet(rest) = {q[i] : i \in 1 .. first}
  <2> HIDE DEF first
  <2> QED
    BY SMTT(40), <1>2, <1>4, RestElements
<1>6. target >= 0 => Total(rest) <= target
  <2>1. CASE first = length
    <3>1. rest = <<>>
      <4>1. Len(rest) = 0
        BY <1>2, <1>5, <2>1
      <4> HIDE DEF rest
      <4> QED
        BY <1>5, <4>1, EmptySeq
    <3> QED
      BY <3>1, TotalEmpty
  <2>2. CASE first # length
    BY <1>3, <2>2
  <2> QED
    BY <2>1, <2>2
<1> HIDE DEF first, rest
<1>7. {e.region : e \in ToSet(q) \ ToSet(rest)} = D
  BY <1>5
<1>8. Good(z, E \cup D, n, cur) /\ E \cap D = {} /\ Frame(x, z, E)
  BY <1>5, <1>7, TierLeaves
<1>9. z.tier = rest /\ z.registered = x.registered /\ z.idle = x.idle /\ z.batch = x.batch /\ z \in Memory
  BY <1>2, <1>5 DEF Memory
<1> HIDE DEF z, D
<1>10. Good(y, E, n, cur) /\ Frame(z, y, E) /\ y.tier = rest
  BY <1>8, <1>9, FreedKeeps
<1>11. SameBooks(z, y)
  BY <1>9 DEF Freed, SameBooks, Memory
<1> HIDE DEF y
<1>12. Frame(x, y, E) /\ SameBooks(x, y)
  BY <1>8, <1>9, <1>10, <1>11, FrameTwice DEF SameBooks
<1> QED
  BY <1>1, <1>5, <1>6, <1>10, <1>12

\* So does relieving the commitment.
LEMMA RelievedKeeps ==
  ASSUME NEW x, NEW E, NEW n, NEW cur, Good(x, E, n, cur)
  PROVE  LET y == Relieved(x)
         IN  /\ Good(y, E, n, cur) /\ Frame(x, y, E) /\ SameBooks(x, y)
             /\ y.tier \in Seq(Owner) /\ ToSet(y.tier) \subseteq ToSet(x.tier)
<1>1. CASE exhausted
  <2>1. Relieved(x) = EvictOffered(x, 0) /\ 0 \in Int
    BY <1>1 DEF Relieved
  <2> QED
    BY <2>1, EvictOfferedKeeps
<1>2. CASE ~exhausted
  <2>1. Relieved(x) = x
    BY <1>2 DEF Relieved
  <2> QED
    BY <2>1, GoodParts, Fields DEF Frame, SameBooks
<1> QED
  BY <1>1, <1>2


\* _settle_offer puts a copy into the tier or frees it.
LEMMA SettleKeeps ==
  ASSUME NEW x, NEW E, NEW n, NEW cur, NEW owner \in Owner, NEW offered \in BOOLEAN, NEW collected \in BOOLEAN,
         Good(x, E \cup {owner.region}, n, cur), owner.region \notin E, Offerable(x, owner, cur)
  PROVE  LET y == Settle(x, owner, offered, collected)
         IN  Good(y, E, n, cur) /\ Frame(x, y, E) /\ SameBooks(x, y)
<1> DEFINE p == owner.pointer
           R == {owner.region}
           M == IF collected THEN {p} ELSE {}
           e == [owner EXCEPT !.retired = collected]
           made == EvictOffered(x, x.maxOffered - Size[p])
           joined == [made EXCEPT !.tier = Append(@, e), !.missed = @ \cup M]
           kept == Relieved(joined)
           settled == [kept EXCEPT !.watching = @ \/ kept.tier # <<>>]
           Refused == \/ ~offered \/ owner.retired \/ Occupied(x, p) \/ p \in Tiered(x)
                      \/ Size[p] > x.maxOffered
<1>1. Settle(x, owner, offered, collected) = IF Refused THEN Freed(x, R) ELSE settled
  BY DEF Settle
<1>2. p \in Storages /\ Size[p] \in Nat /\ x \in Memory /\ x.maxOffered \in Nat
  BY Sizes, GoodParts, Fields DEF Owner
<1>3. CASE Refused
  <2>1. E \cap R = {}
    OBVIOUS
  <2>2. Good(Freed(x, R), E, n, cur) /\ Frame(x, Freed(x, R), E)
    BY <2>1, FreedKeeps
  <2>3. SameBooks(x, Freed(x, R))
    BY <1>2 DEF SameBooks, Freed, Memory
  <2> QED
    BY <1>1, <1>3, <2>2, <2>3
<1>4. CASE ~Refused
  <2>1. /\ ~owner.retired /\ ~Occupied(x, p) /\ p \notin Tiered(x)
        /\ x.maxOffered - Size[p] \in Int /\ x.maxOffered - Size[p] >= 0
    BY <1>2, <1>4
  <2>2. /\ Good(made, E \cup R, n, cur) /\ Frame(x, made, E \cup R) /\ SameBooks(x, made)
        /\ made.tier \in Seq(Owner) /\ ToSet(made.tier) \subseteq ToSet(x.tier)
        /\ Total(made.tier) <= x.maxOffered - Size[p]
    <3> HIDE DEF made, R
    <3>1. Good(x, E \cup R, n, cur)
      BY DEF R
    <3> QED
      BY <2>1, <3>1, EvictOfferedKeeps DEF made
  <2> HIDE DEF made, Refused
  <2>3. /\ e \in Owner /\ e.region = owner.region /\ e.pointer = p /\ e.retired = collected /\ M \in SUBSET Storages
    BY <1>2 DEF Owner
  <2> HIDE DEF e
  <2>4. p \notin Tiered(made) /\ ~Occupied(made, p) /\ made.maxOffered = x.maxOffered
    BY <2>1, <2>2 DEF Tiered, Pointers, Occupied, Frame, SameBooks
  <2>5. Total(made.tier) + Size[p] <= made.maxOffered
    <3>1. Total(made.tier) \in Nat
      BY <2>2, Totals
    <3> QED
      BY <1>2, <2>2, <2>4, <3>1
  <2>6. p \notin made.missed \cup M => Mixed(made, owner.region, p, cur)
    <3>1. owner.region \in Regions
      BY DEF Owner
    <3>2. made.regions[owner.region] = x.regions[owner.region] /\ x.missed \subseteq made.missed
      BY <2>2, <3>1 DEF Frame
    <3> QED
      BY <2>1, <3>2 DEF Offerable, Mixed
  <2>7. e.retired => e.pointer \in made.missed \cup M
    BY <2>3
  <2>8. Good(joined, E, n, cur) /\ Frame(made, joined, E)
    <3> HIDE DEF M
    <3>1. Good(made, E \cup {e.region}, n, cur) /\ e.region \notin E
      BY <2>2, <2>3
    <3> QED
      BY <2>3, <2>4, <2>5, <2>6, <2>7, <3>1, TierJoins
  <2>9. SameBooks(made, joined)
    BY <2>2, GoodParts DEF SameBooks, Memory
  <2> HIDE DEF joined, M
  <2>10. Good(kept, E, n, cur) /\ Frame(joined, kept, E) /\ SameBooks(joined, kept)
    BY <2>8, RelievedKeeps
  <2> HIDE DEF kept
  <2>11. kept \in Memory
    BY <2>10, GoodParts
  <2>12. /\ settled.registered = kept.registered /\ settled.idle = kept.idle /\ settled.pending = kept.pending
         /\ settled.tier = kept.tier /\ settled.batch = kept.batch /\ settled.regions = kept.regions
         /\ settled.maxPinned = kept.maxPinned /\ settled.maxOffered = kept.maxOffered
         /\ settled.missed = kept.missed /\ settled \in Memory
    BY <2>11 DEF Memory
  <2> HIDE DEF settled
  <2>13. Good(settled, E, n, cur)
    BY <2>10, <2>12, GoodSame
  <2>14. Frame(x, settled, E) /\ SameBooks(x, settled)
    BY <2>2, <2>8, <2>9, <2>10, <2>12 DEF Frame, SameBooks
  <2> QED
    BY <1>1, <1>4, <2>13, <2>14
<1> QED
  BY <1>3, <1>4

-----------------------------------------------------------------------------
(* Registrations and batches *)

\* What is unregistered is the section's own; leases and idleness are as Booked says.
LEMMA RegistrationsLeave ==
  ASSUME NEW x, NEW y \in Memory, NEW E, NEW n, NEW m, NEW cur, Good(x, E, n, cur), Booked(y, m),
         \A s \in Storages : y.registered[s].region \in {None, x.registered[s].region},
         y.pending = x.pending, y.tier = x.tier, y.batch = x.batch, y.regions = x.regions,
         y.maxPinned = x.maxPinned, y.maxOffered = x.maxOffered, y.missed = x.missed
  PROVE  LET D == {x.registered[s].region : s \in {s \in Storages : y.registered[s].region = None}} \ {None}
         IN  Good(y, E \cup D, m, cur) /\ E \cap D = {} /\ Frame(x, y, E)
<1> DEFINE D == {x.registered[s].region : s \in {s \in Storages : y.registered[s].region = None}} \ {None}
<1>1. x \in Memory
  BY GoodParts
<1>2. /\ TierRegions(y) = TierRegions(x)
      /\ \A t \in Threads : BatchRegions(y, t) = BatchRegions(x, t)
  BY DEF TierRegions, BatchRegions
<1>3. \A s, u \in Storages : x.registered[s].region = x.registered[u].region /\ x.registered[s].region # None => s = u
  BY GoodParts DEF RegisteredApart
<1>4. RegisteredRegions(x) = RegisteredRegions(y) \cup D /\ RegisteredRegions(y) \cap D = {}
  <2>1. RegisteredRegions(y) \subseteq RegisteredRegions(x) /\ D \subseteq RegisteredRegions(x)
    BY DEF RegisteredRegions
  <2>2. ASSUME NEW r \in RegisteredRegions(x)
        PROVE  r \in RegisteredRegions(y) \cup D
    BY DEF RegisteredRegions
  <2>3. ASSUME NEW r \in RegisteredRegions(y), r \in D
        PROVE  FALSE
    <3>1. PICK s \in Storages : y.registered[s].region = r /\ r # None
      BY <2>3 DEF RegisteredRegions
    <3>2. PICK u \in Storages : x.registered[u].region = r /\ y.registered[u].region = None
      BY <2>3
    <3>3. x.registered[s].region = r
      BY <3>1
    <3> QED
      BY <1>3, <3>1, <3>2, <3>3
  <2> QED
    BY <2>1, <2>2, <2>3
<1> HIDE DEF D
<1>5. RegisteredApart(y)
  BY <1>3 DEF RegisteredApart
<1>6. TierApart(y) /\ BatchApart(y)
  BY <1>2, GoodParts DEF TierApart, BatchApart
<1>7. KindsApart(x, E) /\ KindsApart(y, E \cup D) /\ E \cap D = {}
  BY <1>2, <1>4, GoodParts DEF KindsApart
<1>8. Covered(y, E \cup D)
  BY <1>2, <1>4, GoodParts DEF Covered
<1>9. WithinTier(y)
  <2>1. \A s \in Storages : Occupied(y, s) => Occupied(x, s)
    BY DEF Occupied
  <2>2. Tiered(y) = Tiered(x) /\ Tiered(x) \subseteq Storages
    BY <1>1, Fields, OwnerPointers DEF Tiered
  <2>3. Total(x.tier) <= x.maxOffered /\ \A s \in Tiered(x) : ~Occupied(x, s)
    BY GoodParts DEF WithinTier
  <2> QED
    BY <2>1, <2>2, <2>3 DEF WithinTier
<1>10. RegisteredWhole(y, cur)
  BY GoodParts DEF RegisteredWhole, Whole
<1>11. TierRight(y, cur)
  <2>1. TierRight(x, cur)
    BY ZenonT(60), GoodParts
  <2> QED
    BY <2>1 DEF TierRight, Offerable, Mixed
<1>12. BatchRight(y, cur)
  <2>1. BatchRight(x, cur)
    BY GoodParts
  <2> QED
    BY ZenonT(60), <2>1 DEF BatchRight, Offerable, Mixed
<1>13. Frame(x, y, E)
  BY DEF Frame
<1> QED
  BY <1>5, <1>6, <1>7, <1>8, <1>9, <1>10, <1>11, <1>12, <1>13 DEF Good, D

\* What is offered belongs to the batch.
LEMMA BatchJoins ==
  ASSUME NEW x, NEW E, NEW n, NEW cur, NEW t \in Threads,
         NEW b \in Offering, NEW y \in Memory,
         Good(x, E \cup {b.owner.region}, n, cur), b.owner.region \notin E, Offerable(x, b.owner, cur),
         y.registered = x.registered, y.idle = x.idle, y.pending = x.pending, y.tier = x.tier,
         y.batch = [x.batch EXCEPT ![t] = Append(x.batch[t], b)], y.regions = x.regions,
         y.maxPinned = x.maxPinned, y.maxOffered = x.maxOffered, y.missed = x.missed
  PROVE  Good(y, E, n, cur) /\ Frame(x, y, E)
<1> DEFINE q == x.batch[t]
<1>1. x \in Memory /\ q \in Seq(Offering) /\ x.batch \in [Threads -> Seq(Offering)]
  BY GoodParts, Fields
<1>2. /\ Append(q, b) \in Seq(Offering) /\ Len(q) \in Nat /\ DOMAIN q = 1 .. Len(q)
      /\ DOMAIN Append(q, b) = 1 .. Len(q) + 1
      /\ \A i \in 1 .. Len(q) : Append(q, b)[i] = q[i]
      /\ Append(q, b)[Len(q) + 1] = b
  BY <1>1, AppendProperties, LenProperties
<1>3. y.batch[t] = Append(q, b) /\ \A u \in Threads : u # t => y.batch[u] = x.batch[u]
  BY <1>1
<1>5. \A i \in 1 .. Len(q) + 1 : i \in 1 .. Len(q) \/ i = Len(q) + 1
  BY <1>2
<1>6. \A i \in DOMAIN y.batch[t] : (i \in DOMAIN q /\ y.batch[t][i] = q[i]) \/ (i = Len(q) + 1 /\ y.batch[t][i].owner = b.owner)
  BY <1>2, <1>3, <1>5
<1>7. RegisteredRegions(y) = RegisteredRegions(x) /\ TierRegions(y) = TierRegions(x)
  BY <1>3 DEF RegisteredRegions, TierRegions
<1>8. /\ BatchRegions(y, t) = BatchRegions(x, t) \cup {b.owner.region}
      /\ \A u \in Threads : u # t => BatchRegions(y, u) = BatchRegions(x, u)
  <2>1. \A i \in DOMAIN q : i \in DOMAIN y.batch[t] /\ y.batch[t][i] = q[i]
    BY <1>2, <1>3
  <2>2. Len(q) + 1 \in DOMAIN y.batch[t] /\ y.batch[t][Len(q) + 1].owner = b.owner
    BY <1>2, <1>3
  <2> QED
    BY <1>3, <1>6, <2>1, <2>2 DEF BatchRegions
<1>9. KindsApart(x, E \cup {b.owner.region})
  BY GoodParts
<1>10. \A u \in Threads : b.owner.region \notin BatchRegions(x, u)
  BY <1>9 DEF KindsApart
<1>11. BatchApart(y)
  <2>1. BatchApart(x)
    BY GoodParts
  <2>2. ASSUME NEW u \in Threads, NEW i \in DOMAIN y.batch[u], NEW j \in DOMAIN y.batch[u],
               y.batch[u][i].owner.region = y.batch[u][j].owner.region
        PROVE  i = j
    <3>1. CASE u # t
      BY <1>3, <2>1, <2>2, <3>1 DEF BatchApart
    <3>2. CASE u = t
      <4>1. \A k \in DOMAIN q : q[k].owner.region # b.owner.region
        BY <1>10 DEF BatchRegions
      <4>2. \A k, l \in DOMAIN q : q[k].owner.region = q[l].owner.region => k = l
        BY <2>1 DEF BatchApart
      <4> QED
        BY <1>6, <2>2, <3>2, <4>1, <4>2
    <3> QED
      BY <3>1, <3>2
  <2>3. ASSUME NEW u \in Threads, NEW w \in Threads, u # w
        PROVE  BatchRegions(y, u) \cap BatchRegions(y, w) = {}
    <3>1. BatchRegions(x, u) \cap BatchRegions(x, w) = {}
      BY <2>1, <2>3 DEF BatchApart
    <3> QED
      BY <1>8, <1>10, <2>3, <3>1
  <2> QED
    BY <2>2, <2>3 DEF BatchApart
<1>12. RegisteredApart(y) /\ TierApart(y)
  BY <1>3, GoodParts DEF RegisteredApart, TierApart
<1>13. KindsApart(y, E)
  <2>1. ASSUME NEW u \in Threads
        PROVE  BatchRegions(y, u) \cap (RegisteredRegions(y) \cup TierRegions(y) \cup E) = {}
    BY <1>7, <1>8, <1>9 DEF KindsApart
  <2> QED
    BY <1>7, <1>9, <2>1 DEF KindsApart
<1>14. Covered(y, E)
  <2>1. SUFFICES ASSUME NEW r \in Regions
                 PROVE  x.regions[r].state # "free" <=>
                          \/ r \in RegisteredRegions(x) \cup TierRegions(x) \cup E
                          \/ \E u \in Threads : r \in BatchRegions(y, u)
    BY <1>3, <1>7 DEF Covered
  <2>2. x.regions[r].state # "free" <=>
          \/ r \in RegisteredRegions(x) \cup TierRegions(x) \cup E \cup {b.owner.region}
          \/ \E u \in Threads : r \in BatchRegions(x, u)
    BY GoodParts DEF Covered
  <2>3. (\E u \in Threads : r \in BatchRegions(y, u)) <=> r = b.owner.region \/ \E u \in Threads : r \in BatchRegions(x, u)
    BY <1>8
  <2> QED
    BY <2>2, <2>3
<1>15. Booked(y, n) /\ WithinTier(y)
  BY <1>3, GoodParts DEF Booked, WithinTier, Tiered, Occupied
<1>16. RegisteredWhole(y, cur) /\ TierRight(y, cur)
  <2>1. RegisteredWhole(y, cur)
    BY GoodParts DEF RegisteredWhole, Whole
  <2>2. TierRight(y, cur)
    BY GoodParts DEF TierRight, Offerable, Mixed
  <2> QED
    BY <2>1, <2>2
<1>17. BatchRight(y, cur)
  <2>1. ASSUME NEW u \in Threads, NEW i \in DOMAIN y.batch[u]
        PROVE  Offerable(y, y.batch[u][i].owner, cur)
    <3>1. Offerable(x, y.batch[u][i].owner, cur)
      <4>1. BatchRight(x, cur)
        BY GoodParts
      <4>2. CASE u # t
        BY <1>3, <4>1, <4>2 DEF BatchRight
      <4>3. CASE u = t
        BY <1>6, <4>1, <4>3 DEF BatchRight
      <4> QED
        BY <4>2, <4>3
    <3> QED
      BY ZenonT(60), <1>3, <3>1 DEF Offerable, Mixed
  <2> QED
    BY ZenonT(60), <2>1 DEF BatchRight
<1>18. Frame(x, y, E)
  BY <1>3 DEF Frame
<1> QED
  BY <1>11, <1>12, <1>13, <1>14, <1>15, <1>16, <1>17, <1>18 DEF Good


\* What the section does to the states of its own regions is its own affair.
LEMMA GoodOwn ==
  ASSUME NEW x, NEW y \in Memory, NEW E, NEW n, NEW cur, Good(x, E, n, cur),
         y.registered = x.registered, y.idle = x.idle, y.pending = x.pending, y.tier = x.tier,
         y.batch = x.batch, y.maxOffered = x.maxOffered, y.missed = x.missed,
         \A r \in Regions : y.regions[r] = x.regions[r] \/ (r \in E /\ y.regions[r].state # "free")
  PROVE  Good(y, E, n, cur)
<1>1. x \in Memory
  BY GoodParts
<1>2. /\ RegisteredRegions(y) = RegisteredRegions(x) /\ TierRegions(y) = TierRegions(x)
      /\ \A t \in Threads : BatchRegions(y, t) = BatchRegions(x, t)
  BY DEF RegisteredRegions, TierRegions, BatchRegions
<1>3. RegisteredApart(y) /\ TierApart(y) /\ BatchApart(y) /\ KindsApart(x, E) /\ KindsApart(y, E)
  BY <1>2, GoodParts DEF RegisteredApart, TierApart, BatchApart, KindsApart
<1>4. Covered(y, E)
  <2>1. Covered(x, E)
    BY GoodParts
  <2> QED
    BY <1>2, <2>1 DEF Covered
<1>5. Booked(y, n) /\ WithinTier(y)
  BY GoodParts DEF Booked, WithinTier, Tiered, Occupied
<1>6. /\ \A s \in Storages : x.registered[s].region # None => y.regions[x.registered[s].region] = x.regions[x.registered[s].region]
      /\ \A e \in ToSet(x.tier) : y.regions[e.region] = x.regions[e.region]
      /\ \A t \in Threads : \A i \in DOMAIN x.batch[t] :
           y.regions[x.batch[t][i].owner.region] = x.regions[x.batch[t][i].owner.region]
  <2>1. \A r \in E : /\ \A s \in Storages : x.registered[s].region # None => x.registered[s].region # r
                     /\ \A e \in ToSet(x.tier) : e.region # r
                     /\ \A t \in Threads : \A i \in DOMAIN x.batch[t] : x.batch[t][i].owner.region # r
    BY SMTT(40), <1>1, <1>3, Elsewhere
  <2> QED
    BY <1>1, <2>1, OwnedRegions
<1>7. RegisteredWhole(y, cur)
  BY <1>6, GoodParts DEF RegisteredWhole, Whole
<1>8. TierRight(y, cur)
  <2>1. TierRight(x, cur)
    BY GoodParts
  <2> QED
    BY <1>6, <2>1 DEF TierRight, Offerable, Mixed
<1>9. BatchRight(y, cur)
  <2>1. ASSUME NEW t \in Threads, NEW i \in DOMAIN x.batch[t]
        PROVE  Offerable(y, x.batch[t][i].owner, cur)
    <3>1. Offerable(x, x.batch[t][i].owner, cur)
      BY GoodParts DEF BatchRight
    <3> QED
      BY ZenonT(60), <1>6, <3>1 DEF Offerable, Mixed
  <2> QED
    BY <2>1 DEF BatchRight
<1> QED
  BY <1>3, <1>4, <1>5, <1>7, <1>8, <1>9 DEF Good


\* What the environment decides for the copies a section evicts.
Outcome == [offered : BOOLEAN, collected : BOOLEAN]

\* A copy has gone from the section's own regions to where a release puts it.
Gone(x, y, E, n, cur, t) ==
  /\ Good(y, E, n, cur) /\ Frame(x, y, E)
  /\ y.registered = x.registered /\ y.idle = x.idle
  /\ t \in Threads => y.tier = x.tier

\* What the release of a copy does to the section's region, its batch and its tier.
LEMMA ReleaseCopyKeeps ==
  ASSUME NEW x, NEW E, NEW n, NEW cur, NEW owner \in Owner, NEW demote, NEW t \in Threads \cup {None},
         NEW o \in Outcome,
         Good(x, E \cup {owner.region}, n, cur), owner.region \notin E, Offerable(x, owner, cur)
  PROVE  Gone(x, ReleaseCopy(x, owner, demote, t, o), E, n, cur, t)
<1> SUFFICES LET y == ReleaseCopy(x, owner, demote, t, o)
             IN  /\ Good(y, E, n, cur) /\ Frame(x, y, E)
                 /\ y.registered = x.registered /\ y.idle = x.idle
                 /\ t \in Threads => y.tier = x.tier
  BY DEF Gone
<1> DEFINE y == ReleaseCopy(x, owner, demote, t, o)
           R == {owner.region}
           Demoted == demote /\ ~owner.retired /\ Size[owner.pointer] <= x.maxOffered
           given == [x EXCEPT !.regions[owner.region].state = "offered"]
           z == IF o.offered THEN given ELSE x
           settled == Settle(z, owner, o.offered, o.collected)
           b == [owner |-> owner, offer |-> "running"]
           batched == [x EXCEPT !.batch[t] = Append(@, b)]
<1>1. y = IF Demoted THEN IF t # None THEN batched ELSE settled ELSE Freed(x, R)
  BY DEF ReleaseCopy
<1>2. x \in Memory
  BY GoodParts
<1>3. CASE ~Demoted
  <2>1. E \cap R = {}
    OBVIOUS
  <2>2. Good(Freed(x, R), E, n, cur) /\ Frame(x, Freed(x, R), E) /\ Freed(x, R).tier = x.tier
    BY <2>1, FreedKeeps
  <2>3. Freed(x, R).registered = x.registered /\ Freed(x, R).idle = x.idle
    BY <1>2 DEF Freed, Memory
  <2> QED
    BY <1>1, <1>3, <2>2, <2>3
<1>4. CASE Demoted /\ t # None
  <2>1. t \in Threads
    BY <1>4
  <2>2. /\ Good(batched, E, n, cur) /\ Frame(x, batched, E) /\ batched.tier = x.tier
        /\ batched.registered = x.registered /\ batched.idle = x.idle
    <3>1. b \in Offering /\ b.owner = owner
      BY DEF Offering
    <3> HIDE DEF b
    <3>2. /\ batched.registered = x.registered /\ batched.idle = x.idle /\ batched.pending = x.pending
          /\ batched.tier = x.tier /\ batched.batch = [x.batch EXCEPT ![t] = Append(x.batch[t], b)]
          /\ batched.regions = x.regions /\ batched.maxPinned = x.maxPinned
          /\ batched.maxOffered = x.maxOffered /\ batched.missed = x.missed
      BY <1>2 DEF Memory
    <3>3. batched \in Memory
      <4>1. x.batch \in [Threads -> Seq(Offering)] /\ x.batch[t] \in Seq(Offering)
        BY <1>2, <2>1, Fields
      <4>2. [x.batch EXCEPT ![t] = Append(x.batch[t], b)] \in [Threads -> Seq(Offering)]
        BY <2>1, <3>1, <4>1, AppendProperties
      <4>3. batched = [x EXCEPT !.batch = [x.batch EXCEPT ![t] = Append(x.batch[t], b)]]
        BY <1>2 DEF Memory
      <4> QED
        BY <1>2, <4>2, <4>3 DEF Memory
    <3> HIDE DEF batched
    <3>4. Good(x, E \cup {b.owner.region}, n, cur) /\ b.owner.region \notin E /\ Offerable(x, b.owner, cur)
      BY <3>1
    <3>5. Good(batched, E, n, cur) /\ Frame(x, batched, E)
      BY <2>1, <3>1, <3>2, <3>3, <3>4, BatchJoins
    <3> QED
      BY <3>2, <3>5
  <2> QED
    BY <1>1, <1>4, <2>2
<1>5. CASE Demoted /\ t = None
  <2>1. o.offered \in BOOLEAN /\ o.collected \in BOOLEAN
    BY DEF Outcome
  <2>2. /\ z \in Memory /\ z.registered = x.registered /\ z.idle = x.idle /\ z.pending = x.pending
        /\ z.tier = x.tier /\ z.batch = x.batch /\ z.maxPinned = x.maxPinned /\ z.maxOffered = x.maxOffered
        /\ z.missed = x.missed
        /\ \A r \in Regions : z.regions[r].data = x.regions[r].data
        /\ \A r \in Regions : \/ z.regions[r] = x.regions[r]
                             \/ (r = owner.region /\ z.regions[r].state # "free")
    <3>1. owner.region \in Regions
      BY DEF Owner
    <3>2. x.regions \in [Regions -> Region]
      BY <1>2, Fields
    <3> DEFINE rs == [x.regions EXCEPT ![owner.region].state = "offered"]
    <3>3. /\ rs \in [Regions -> Region]
          /\ \A r \in Regions : rs[r].data = x.regions[r].data
          /\ \A r \in Regions : r # owner.region => rs[r] = x.regions[r]
          /\ rs[owner.region].state = "offered"
      BY <3>1, <3>2 DEF Region
    <3>4. given = [x EXCEPT !.regions = rs]
      BY <1>2 DEF Memory
    <3> HIDE DEF rs
    <3>5. CASE o.offered
      <4>1. z = [x EXCEPT !.regions = rs]
        BY <3>4, <3>5
      <4> HIDE DEF z
      <4>2. z.regions = rs
        BY <1>2, <4>1 DEF Memory
      <4>3. \A r \in Regions : \/ z.regions[r] = x.regions[r]
                              \/ (r = owner.region /\ z.regions[r].state # "free")
        BY <3>3, <4>2
      <4> QED
        BY <1>2, <3>3, <4>1, <4>2, <4>3 DEF Memory
    <3>6. CASE ~o.offered
      <4>1. z = x
        BY <3>6
      <4> HIDE DEF z
      <4> QED
        BY <1>2, <3>2, <4>1
    <3> QED
      BY <3>5, <3>6
  <2> HIDE DEF z
  <2>3. Good(z, E \cup R, n, cur)
    <3> HIDE DEF R
    <3>1. Good(x, E \cup R, n, cur)
      BY DEF R
    <3>2. \A r \in Regions : z.regions[r] = x.regions[r] \/ (r \in E \cup R /\ z.regions[r].state # "free")
      <4>1. \A r \in Regions : \/ z.regions[r] = x.regions[r]
                              \/ (r = owner.region /\ z.regions[r].state # "free")
        BY <2>2
      <4> QED
        BY <4>1 DEF R
    <3> QED
      BY <2>2, <3>1, <3>2, GoodOwn
  <2>4. Offerable(z, owner, cur)
    BY <2>2 DEF Offerable, Mixed, Owner
  <2>5. Good(settled, E, n, cur) /\ Frame(z, settled, E) /\ SameBooks(z, settled)
    BY <2>1, <2>3, <2>4, SettleKeeps
  <2>6. Frame(x, z, E)
    BY <2>2 DEF Frame
  <2> HIDE DEF settled
  <2>7. Frame(x, settled, E)
    BY <2>5, <2>6, FrameTwice
  <2> QED
    BY <1>1, <1>5, <2>2, <2>5, <2>7, Sizes DEF SameBooks
<1> QED
  BY <1>3, <1>4, <1>5

\* Storage s is registered and idle no longer.
Unregistration(x, y, s, E, n, cur, t) ==
  /\ Good(y, E, n, cur) /\ Frame(x, y, E)
  /\ y.registered = [x.registered EXCEPT ![s] = Unregistered]
  /\ ToSet(y.idle) = ToSet(x.idle) \ {s}
  /\ t \in Threads => y.tier = x.tier

\* An idle registration that is unregistered is idle no longer.
LEMMA UnregisterKeeps ==
  ASSUME NEW x, NEW E, NEW n, NEW cur, NEW s \in Storages, NEW demote, NEW t \in Threads \cup {None},
         NEW o \in Outcome,
         Good(x, E, n, cur), s \in ToSet(x.idle)
  PROVE  Unregistration(x, Unregister(x, s, demote, t, o), s, E, n, cur, t)
<1> DEFINE idle == RemoveFirst(x.idle, s)
           z == [x EXCEPT !.registered[s] = Unregistered, !.idle = RemoveFirst(@, s)]
           r == x.registered[s].region
           owner == [pointer |-> s, region |-> r, retired |-> x.registered[s].retired]
           D == {x.registered[u].region : u \in {u \in Storages : z.registered[u].region = None}} \ {None}
           y == ReleaseCopy(z, owner, demote, t, o)
<1>1. Unregister(x, s, demote, t, o) = y
  BY DEF Unregister
<1>2. x \in Memory /\ Booked(x, n) /\ x.idle \in Seq(Storages) /\ x.registered \in [Storages -> Registration]
  BY GoodParts, Fields
<1>3. IsInjective(x.idle) /\ n[s] = 0 /\ r # None /\ r \in Regions /\ x.registered[s].retired \in BOOLEAN
  <2>1. s \in {u \in Storages : x.registered[u].region # None /\ n[u] = 0} /\ IsInjective(x.idle)
    BY <1>2 DEF Booked
  <2>2. x.registered[s] \in Registration
    BY <1>2
  <2> QED
    BY <2>1, <2>2 DEF Registration
<1>4. idle \in Seq(Storages) /\ ToSet(idle) = ToSet(x.idle) \ {s} /\ IsInjective(idle)
  BY <1>2, <1>3, ToSetRemoveFirst
<1>5. Unregistered \in Registration /\ Unregistered.region = None /\ Unregistered.leases = 0
  BY DEF Unregistered, Registration
<1>6. /\ z.registered = [x.registered EXCEPT ![s] = Unregistered] /\ z.idle = idle /\ z.pending = x.pending
      /\ z.tier = x.tier /\ z.batch = x.batch /\ z.regions = x.regions /\ z.maxPinned = x.maxPinned
      /\ z.maxOffered = x.maxOffered /\ z.missed = x.missed
  BY <1>2 DEF Memory
<1>7. z \in Memory
  <2>1. [x.registered EXCEPT ![s] = Unregistered] \in [Storages -> Registration]
    BY <1>2, <1>5
  <2> HIDE DEF idle
  <2>2. z = [x EXCEPT !.registered = [x.registered EXCEPT ![s] = Unregistered], !.idle = idle]
    BY <1>2 DEF Memory, idle
  <2> QED
    BY <1>2, <1>4, <2>1, <2>2 DEF Memory
<1>8. \A u \in Storages : z.registered[u] = IF u = s THEN Unregistered ELSE x.registered[u]
  BY <1>2, <1>6
<1> HIDE DEF z
<1>9. Booked(z, n)
  <2>1. /\ \A u \in Storages : x.registered[u].leases = n[u] /\ (n[u] > 0 => x.registered[u].region # None)
        /\ ToSet(x.idle) = {u \in Storages : x.registered[u].region # None /\ n[u] = 0}
        /\ \A u \in x.pending : x.registered[u].region = None
    BY <1>2 DEF Booked
  <2>2. \A u \in Storages : z.registered[u].leases = n[u] /\ (n[u] > 0 => z.registered[u].region # None)
    BY <1>3, <1>5, <1>8, <2>1
  <2>3. ToSet(z.idle) = {u \in Storages : z.registered[u].region # None /\ n[u] = 0}
    BY <1>4, <1>5, <1>6, <1>8, <2>1
  <2>4. \A u \in z.pending : z.registered[u].region = None
    <3>1. z.pending \subseteq Storages
      BY <1>2, <1>6, Fields
    <3> QED
      BY <1>5, <1>6, <1>8, <2>1, <3>1
  <2> QED
    BY <1>4, <1>6, <2>2, <2>3, <2>4 DEF Booked
<1>10. Good(z, E \cup D, n, cur) /\ E \cap D = {} /\ Frame(x, z, E)
  <2>1. \A u \in Storages : z.registered[u].region \in {None, x.registered[u].region}
    BY <1>5, <1>8
  <2> QED
    BY <1>6, <1>7, <1>9, <2>1, RegistrationsLeave
<1>11. D = {r}
  BY <1>3, <1>5, <1>8
<1> HIDE DEF D
<1>12. Good(z, E \cup {r}, n, cur) /\ r \notin E
  BY <1>10, <1>11
<1>13. owner \in Owner /\ owner.region = r
  BY <1>3 DEF Owner
<1>14. Offerable(z, owner, cur)
  <2>1. s \notin x.missed => Whole(x, r, s, cur)
    BY <1>3, GoodParts DEF RegisteredWhole
  <2> QED
    BY <1>6, <2>1 DEF Offerable, Mixed, Whole
<1>15. /\ Good(y, E, n, cur) /\ Frame(z, y, E) /\ y.registered = z.registered /\ y.idle = z.idle
       /\ t \in Threads => y.tier = z.tier
  <2> HIDE DEF owner, r
  <2>1. Good(z, E \cup {owner.region}, n, cur) /\ owner.region \notin E
    BY <1>12, <1>13
  <2>2. Gone(z, y, E, n, cur, t)
    BY <1>13, <1>14, <2>1, ReleaseCopyKeeps
  <2> QED
    BY <2>2 DEF Gone
<1> HIDE DEF y
<1>16. Frame(x, y, E)
  BY <1>10, <1>15, FrameTwice
<1> QED
  BY <1>1, <1>4, <1>6, <1>15, <1>16 DEF Unregistration


\* Idle registrations have gone, with the copies that belonged to them.
Shrunk(x, y, E, n, cur, t) ==
  /\ Good(y, E, n, cur) /\ Frame(x, y, E)
  /\ \A s \in Storages : y.registered[s].region \in {None, x.registered[s].region}
  /\ t \in Threads => y.tier = x.tier

\* Evicting idle registrations, least recent first, shrinks what is registered.
LEMMA EvictIdleShrinks ==
  ASSUME NEW x, NEW E, NEW n, NEW cur, NEW limit, NEW t \in Threads \cup {None}, NEW o \in Outcome,
         Good(x, E, n, cur)
  PROVE  Shrunk(x, EvictIdle(x, limit, t, o), E, n, cur, t)
<1> DEFINE q == x.idle
           N == Len(q)
           Rest(k) == {q[i] : i \in k + 1 .. N}
           X == [k \in 0 .. N |-> {y \in Memory : Shrunk(x, y, E, n, cur, t) /\ Rest(k) \subseteq ToSet(y.idle)}]
           step == [k \in 1 .. N |-> [y \in X[k - 1] |-> Evicted(y, q[k], limit, t, o)]]
           Solves(g) == g = [k \in 0 .. N |-> IF k = 0 THEN x ELSE Evicted(g[k - 1], q[k], limit, t, o)]
<1>1. x \in Memory /\ q \in Seq(Storages) /\ IsInjective(q)
  BY GoodParts, Fields DEF Booked
<1>2. N \in Nat /\ DOMAIN q = 1 .. N /\ \A k \in 1 .. N : q[k] \in Storages /\ q[k] \in ToSet(q)
  BY <1>1, ElementsFinite
<1>3. x \in X[0]
  <2>1. Shrunk(x, x, E, n, cur, t)
    BY DEF Shrunk, Frame
  <2>2. Rest(0) \subseteq ToSet(q)
    BY <1>2
  <2>3. 0 \in 0 .. N
    BY <1>2
  <2> HIDE DEF Rest
  <2> QED
    BY <1>1, <2>1, <2>2, <2>3
<1>4. ASSUME NEW k \in 1 .. N, NEW y \in X[k - 1]
      PROVE  Evicted(y, q[k], limit, t, o) \in X[k]
  <2>1. k - 1 \in 0 .. N /\ k \in 0 .. N
    BY <1>2
  <2>2. Shrunk(x, y, E, n, cur, t) /\ Rest(k - 1) \subseteq ToSet(y.idle) /\ y \in Memory
    <3> HIDE DEF Rest
    <3> QED
      BY <2>1
  <2>3. q[k] \in Rest(k - 1) /\ Rest(k) \subseteq Rest(k - 1) /\ q[k] \notin Rest(k)
    <3>1. k \in (k - 1) + 1 .. N /\ \A i \in k + 1 .. N : i \in (k - 1) + 1 .. N /\ i # k /\ i \in DOMAIN q /\ k \in DOMAIN q
      BY <1>2
    <3>2. \A i \in k + 1 .. N : q[i] # q[k]
      BY <1>1, <3>1 DEF IsInjective
    <3> QED
      BY <3>1, <3>2
  <2> HIDE DEF Rest
  <2>4. CASE Pinned(y) <= limit
    <3>1. Evicted(y, q[k], limit, t, o) = y
      BY <2>4 DEF Evicted
    <3>2. Rest(k) \subseteq ToSet(y.idle)
      BY <2>2, <2>3
    <3> QED
      BY <2>1, <2>2, <3>1, <3>2
  <2>5. CASE ~(Pinned(y) <= limit)
    <3> DEFINE z == Unregister(y, q[k], TRUE, t, o)
    <3>1. Evicted(y, q[k], limit, t, o) = z
      BY <2>5 DEF Evicted
    <3>2. Unregistration(y, z, q[k], E, n, cur, t)
      <4>1. Good(y, E, n, cur) /\ q[k] \in ToSet(y.idle) /\ q[k] \in Storages
        BY <1>2, <2>2, <2>3 DEF Shrunk
      <4> QED
        BY <4>1, UnregisterKeeps
    <3> HIDE DEF z
    <3>3. Good(z, E, n, cur) /\ Frame(x, z, E)
      BY <2>2, <3>2, FrameTwice DEF Shrunk, Unregistration
    <3>4. \A s \in Storages : z.registered[s].region \in {None, x.registered[s].region}
      <4>1. y.registered \in [Storages -> Registration] /\ z.registered = [y.registered EXCEPT ![q[k]] = Unregistered]
        BY <2>2, <3>2, Fields DEF Unregistration
      <4>2. \A s \in Storages : y.registered[s].region \in {None, x.registered[s].region}
        BY <2>2 DEF Shrunk
      <4> QED
        BY <4>1, <4>2 DEF Unregistered
    <3>5. t \in Threads => z.tier = x.tier
      BY <2>2, <3>2 DEF Shrunk, Unregistration
    <3>6. Rest(k) \subseteq ToSet(z.idle)
      BY <2>2, <2>3, <3>2 DEF Unregistration
    <3>7. z \in Memory
      BY <3>3, GoodParts
    <3> QED
      BY <2>1, <3>1, <3>3, <3>4, <3>5, <3>6, <3>7 DEF Shrunk
  <2> QED
    BY <2>4, <2>5
<1> HIDE DEF X
<1>5. \A k \in 1 .. N : \A y \in X[k - 1] : step[k][y] = Evicted(y, q[k], limit, t, o)
  OBVIOUS
<1>6. \A k \in 1 .. N : k - 1 \in 0 .. N /\ k # 0
  BY <1>2
<1>7. \E g : Solves(g)
  <2>1. \A k \in 1 .. N : \A y \in X[k - 1] : step[k][y] \in X[k]
    BY <1>4, <1>5
  <2> HIDE DEF step
  <2>2. PICK f : Runs(f, N, x, step, X)
    BY <1>2, <1>3, <2>1, Iterates
  <2>3. \A k \in 0 .. N : k # 0 => k \in 1 .. N
    BY <1>2
  <2>4. \A k \in 0 .. N : k # 0 => step[k][f[k - 1]] = Evicted(f[k - 1], q[k], limit, t, o)
    BY <1>5, <1>6, <2>2, <2>3 DEF Runs
  <2>5. Solves(f)
    BY <2>2, <2>4 DEF Runs
  <2> HIDE DEF Solves
  <2> QED
    BY <2>5
<1> DEFINE g == CHOOSE g : Solves(g)
<1>8. Solves(g)
  BY <1>7
<1>9. EvictIdle(x, limit, t, o) = g[N]
  BY DEF EvictIdle
<1> HIDE DEF g
<1>10. \A k \in 0 .. N : k \in {i \in 0 .. N : g[i] \in X[i]}
  <2> DEFINE G == {i \in 0 .. N : g[i] \in X[i]}
  <2>1. 0 \in G
    BY <1>2, <1>3, <1>8
  <2>2. ASSUME NEW k \in 1 .. N, k - 1 \in G
        PROVE  k \in G
    <3>1. k \in 0 .. N /\ k # 0
      BY <1>2
    <3>2. g[k] = Evicted(g[k - 1], q[k], limit, t, o)
      BY <1>8, <3>1
    <3>3. g[k - 1] \in X[k - 1]
      BY <2>2
    <3> HIDE DEF Solves
    <3>4. g[k] \in X[k]
      BY <1>4, <3>2, <3>3
    <3> QED
      BY <3>1, <3>4
  <2> HIDE DEF G
  <2>3. \A k \in 0 .. N : k \in G
    BY <1>2, <2>1, <2>2, UpTo
  <2> QED
    BY <2>3 DEF G
<1>11. g[N] \in X[N] /\ N \in 0 .. N
  BY <1>2, <1>10
<1> QED
  BY <1>9, <1>11 DEF X

\* So does making room.
LEMMA FitShrinks ==
  ASSUME NEW x, NEW E, NEW n, NEW cur, NEW size, NEW t \in Threads \cup {None}, NEW o \in Outcome,
         Good(x, E, n, cur)
  PROVE  Shrunk(x, Fit(x, size, t, o), E, n, cur, t)
<1>1. Shrunk(x, x, E, n, cur, t)
  BY DEF Shrunk, Frame
<1>2. Shrunk(x, EvictIdle(x, x.maxPinned - size, t, o), E, n, cur, t)
  BY EvictIdleShrinks
<1> QED
  BY <1>1, <1>2 DEF Fit


\* Leases and retirements alone move no copy.
LEMMA RegistrationsStay ==
  ASSUME NEW x, NEW y \in Memory, NEW E, NEW n, NEW m, NEW cur, Good(x, E, n, cur), Booked(y, m),
         \A s \in Storages : y.registered[s].region = x.registered[s].region,
         y.pending = x.pending, y.tier = x.tier, y.batch = x.batch, y.regions = x.regions,
         y.maxPinned = x.maxPinned, y.maxOffered = x.maxOffered, y.missed = x.missed
  PROVE  Good(y, E, m, cur) /\ Frame(x, y, E)
<1> DEFINE D == {x.registered[s].region : s \in {s \in Storages : y.registered[s].region = None}} \ {None}
<1>1. D = {}
  OBVIOUS
<1>2. \A s \in Storages : y.registered[s].region \in {None, x.registered[s].region}
  OBVIOUS
<1>3. Good(y, E \cup D, m, cur) /\ Frame(x, y, E)
  BY <1>2, RegistrationsLeave
<1> HIDE DEF D
<1>4. E \cup D = E
  BY <1>1
<1> QED
  BY <1>3, <1>4

\* A thread takes a lease of each registration it finds.
LEMMA HoldKeeps ==
  ASSUME NEW x, NEW E, NEW n, NEW m, NEW cur, NEW held \in Seq(Storages), Good(x, E, n, cur), IsInjective(held),
         \A s \in ToSet(held) : x.registered[s].region # None,
         \A s \in Storages : m[s] = IF s \in ToSet(held) THEN n[s] + 1 ELSE n[s]
  PROVE  LET y == Hold(x, held)
         IN  /\ Good(y, E, m, cur) /\ Frame(x, y, E) /\ y.tier = x.tier
             /\ \A s \in Storages : y.registered[s].region = x.registered[s].region
<1> DEFINE rs == [s \in Storages |-> IF s \in ToSet(held) THEN [x.registered[s] EXCEPT !.leases = @ + 1]
                                     ELSE x.registered[s]]
           idle == Lacking(x.idle, ToSet(held))
           y == Hold(x, held)
<1>1. /\ x \in Memory /\ x.registered \in [Storages -> Registration] /\ x.idle \in Seq(Storages)
      /\ Booked(x, n) /\ IsInjective(x.idle)
  BY GoodParts, Fields DEF Booked
<1>2. IsFiniteSet(ToSet(held)) /\ ToSet(held) \subseteq Storages
  BY ElementsFinite
<1>3. idle \in Seq(Storages) /\ ToSet(idle) = ToSet(x.idle) \ ToSet(held) /\ IsInjective(idle)
  BY <1>1, <1>2, LackingElements
<1>4. rs \in [Storages -> Registration]
  <2>1. \A s \in Storages : x.registered[s] \in Registration
    BY <1>1
  <2>2. \A s \in Storages : [x.registered[s] EXCEPT !.leases = @ + 1] \in Registration
    BY <2>1 DEF Registration
  <2> QED
    BY <2>1, <2>2
<1>5. \A s \in Storages : /\ rs[s].region = x.registered[s].region
                          /\ rs[s].leases = IF s \in ToSet(held) THEN x.registered[s].leases + 1 ELSE x.registered[s].leases
  <2>1. \A s \in Storages : x.registered[s] \in Registration
    BY <1>1
  <2> QED
    BY <2>1 DEF Registration
<1>6. y = [x EXCEPT !.registered = rs, !.idle = idle]
  BY <1>1 DEF Hold, Memory
<1> HIDE DEF y, rs, idle
<1>7. /\ y.registered = rs /\ y.idle = idle /\ y.pending = x.pending
      /\ y.tier = x.tier /\ y.batch = x.batch /\ y.regions = x.regions /\ y.maxPinned = x.maxPinned
      /\ y.maxOffered = x.maxOffered /\ y.missed = x.missed /\ y \in Memory
  BY <1>1, <1>3, <1>4, <1>6 DEF Memory
<1>8. Booked(y, m)
  <2>1. /\ \A s \in Storages : x.registered[s].leases = n[s] /\ (n[s] > 0 => x.registered[s].region # None)
        /\ ToSet(x.idle) = {s \in Storages : x.registered[s].region # None /\ n[s] = 0}
        /\ \A s \in x.pending : x.registered[s].region = None
    BY <1>1 DEF Booked
  <2>2. \A s \in Storages : n[s] \in Nat
    <3>1. \A s \in Storages : x.registered[s].leases \in Nat
      BY <1>1, OwnedRegions
    <3> QED
      BY <2>1, <3>1
  <2>3. \A s \in Storages : y.registered[s].leases = m[s] /\ (m[s] > 0 => y.registered[s].region # None)
    BY <1>5, <1>7, <2>1
  <2>4. \A s \in Storages : s \in ToSet(y.idle) <=> y.registered[s].region # None /\ m[s] = 0
    <3>1. SUFFICES ASSUME NEW s \in Storages
                   PROVE  s \in ToSet(y.idle) <=> y.registered[s].region # None /\ m[s] = 0
      OBVIOUS
    <3>2. CASE s \in ToSet(held)
      <4>1. m[s] # 0
        BY <2>2, <3>2
      <4> QED
        BY <1>3, <1>7, <3>2, <4>1
    <3>3. CASE s \notin ToSet(held)
      <4>1. m[s] = n[s]
        BY <3>3
      <4> QED
        BY <1>3, <1>5, <1>7, <2>1, <3>3, <4>1
    <3> QED
      BY <3>2, <3>3
  <2>5. ToSet(y.idle) = {s \in Storages : y.registered[s].region # None /\ m[s] = 0}
    <3>1. ToSet(y.idle) \subseteq Storages
      BY <1>3, <1>7, ElementsFinite
    <3> QED
      BY <2>4, <3>1
  <2>6. \A s \in y.pending : y.registered[s].region = None
    <3>1. x.pending \subseteq Storages
      BY <1>1, Fields
    <3> QED
      BY <1>5, <1>7, <2>1, <3>1
  <2> QED
    BY <1>3, <1>7, <2>3, <2>5, <2>6 DEF Booked
<1>9. \A s \in Storages : y.registered[s].region = x.registered[s].region
  BY <1>5, <1>7
<1>10. Good(y, E, m, cur) /\ Frame(x, y, E)
  BY <1>7, <1>8, <1>9, RegistrationsStay
<1> QED
  BY <1>7, <1>9, <1>10 DEF y

\* A thread gives its leases back: what nobody leases is idle, or gone if it is retired.
LEMMA ReleaseKeeps ==
  ASSUME NEW x, NEW E, NEW n, NEW m, NEW cur, NEW held \in Seq(Storages), NEW o \in Outcome,
         Good(x, E, n, cur), IsInjective(held),
         \A s \in ToSet(held) : n[s] > 0,
         \A s \in Storages : m[s] = IF s \in ToSet(held) THEN n[s] - 1 ELSE n[s]
  PROVE  Shrunk(x, Release(x, held, o), E, m, cur, None)
<1> DEFINE last == {s \in ToSet(held) : x.registered[s].leases = 1}
           gone == {s \in last : x.registered[s].retired}
           rest == Lacking(held, ToSet(held) \ (last \ gone))
           rs == [s \in Storages |-> IF s \in gone THEN Unregistered
                                     ELSE IF s \in ToSet(held) THEN [x.registered[s] EXCEPT !.leases = @ - 1]
                                     ELSE x.registered[s]]
           z == [x EXCEPT !.registered = rs, !.idle = @ \o rest]
           R == {x.registered[s].region : s \in gone}
           D == {x.registered[s].region : s \in {s \in Storages : z.registered[s].region = None}} \ {None}
<1>1. Release(x, held, o) = Fit(Freed(z, R), 0, None, o)
  BY DEF Release
<1>2. /\ x \in Memory /\ x.registered \in [Storages -> Registration] /\ x.idle \in Seq(Storages)
      /\ IsInjective(x.idle)
      /\ \A s \in Storages : x.registered[s].leases = n[s] /\ (n[s] > 0 => x.registered[s].region # None)
      /\ ToSet(x.idle) = {s \in Storages : x.registered[s].region # None /\ n[s] = 0}
      /\ \A s \in x.pending : x.registered[s].region = None
  BY GoodParts, Fields DEF Booked
<1>3. /\ IsFiniteSet(ToSet(held)) /\ ToSet(held) \subseteq Storages /\ x.pending \subseteq Storages
      /\ \A s \in Storages : n[s] \in Nat
  BY <1>2, ElementsFinite, OwnedRegions, Fields
<1>4. /\ last \subseteq ToSet(held) /\ gone \subseteq last
      /\ \A s \in last : n[s] = 1 /\ m[s] = 0
      /\ \A s \in ToSet(held) \ last : m[s] > 0
      /\ \A s \in gone : x.registered[s].region # None
  BY <1>2, <1>3
<1> HIDE DEF last
<1> HIDE DEF gone
<1>5. rest \in Seq(Storages) /\ ToSet(rest) = last \ gone /\ IsInjective(rest)
  <2> DEFINE V == ToSet(held) \ (last \ gone)
  <2>1. IsFiniteSet(V)
    BY <1>3, FS_Subset
  <2>2. ToSet(held) \ V = last \ gone
    BY <1>4
  <2> HIDE DEF V
  <2>3. Lacking(held, V) \in Seq(Storages) /\ ToSet(Lacking(held, V)) = ToSet(held) \ V /\ IsInjective(Lacking(held, V))
    BY <2>1, LackingElements
  <2> QED
    BY <2>2, <2>3 DEF V
<1> HIDE DEF rest
<1>6. /\ x.idle \o rest \in Seq(Storages) /\ IsInjective(x.idle \o rest)
      /\ ToSet(x.idle \o rest) = ToSet(x.idle) \cup (last \ gone)
  <2>1. ToSet(x.idle) \cap ToSet(rest) = {}
    BY <1>2, <1>4, <1>5
  <2> QED
    BY <1>2, <1>5, <2>1, BothElements
<1>7. /\ rs \in [Storages -> Registration]
      /\ \A s \in gone : rs[s].region = None /\ rs[s].leases = 0
      /\ \A s \in Storages \ gone :
           /\ rs[s].region = x.registered[s].region
           /\ rs[s].leases = IF s \in ToSet(held) THEN x.registered[s].leases - 1 ELSE x.registered[s].leases
  <2>1. \A s \in Storages : x.registered[s] \in Registration
    BY <1>2
  <2>2. Unregistered \in Registration /\ Unregistered.region = None /\ Unregistered.leases = 0
    BY DEF Unregistered, Registration
  <2>3. \A s \in ToSet(held) : x.registered[s].leases - 1 \in Nat
    <3>1. ASSUME NEW s \in ToSet(held)
          PROVE  x.registered[s].leases - 1 \in Nat
      <4>1. s \in Storages /\ n[s] \in Nat /\ n[s] > 0
        BY <1>3
      <4>2. x.registered[s].leases = n[s]
        BY <1>2, <4>1
      <4> QED
        BY <4>1, <4>2
    <3> QED
      BY <3>1
  <2>4. \A s \in ToSet(held) : /\ [x.registered[s] EXCEPT !.leases = @ - 1] \in Registration
                               /\ [x.registered[s] EXCEPT !.leases = @ - 1].region = x.registered[s].region
                               /\ [x.registered[s] EXCEPT !.leases = @ - 1].leases = x.registered[s].leases - 1
    BY <1>3, <2>1, <2>3 DEF Registration
  <2>5. gone \subseteq Storages
    BY <1>3, <1>4
  <2>6. \A s \in Storages : rs[s] \in Registration
    BY <2>1, <2>2, <2>4
  <2>7. rs \in [Storages -> Registration]
    BY <2>6
  <2>8. \A s \in gone : rs[s].region = None /\ rs[s].leases = 0
    BY <2>2, <2>5
  <2>9. ASSUME NEW s \in Storages \ gone
        PROVE  /\ rs[s].region = x.registered[s].region
               /\ rs[s].leases = IF s \in ToSet(held) THEN x.registered[s].leases - 1 ELSE x.registered[s].leases
    BY <2>4
  <2> QED
    BY <2>7, <2>8, <2>9
<1> HIDE DEF rs
<1>8. /\ z.registered = rs /\ z.idle = x.idle \o rest /\ z.pending = x.pending
      /\ z.tier = x.tier /\ z.batch = x.batch /\ z.regions = x.regions /\ z.maxPinned = x.maxPinned
      /\ z.maxOffered = x.maxOffered /\ z.missed = x.missed /\ z \in Memory
  BY <1>2, <1>6, <1>7 DEF Memory
<1> HIDE DEF z
<1>9. Booked(z, m)
  <2>1. ASSUME NEW s \in Storages
        PROVE  z.registered[s].leases = m[s] /\ (m[s] > 0 => z.registered[s].region # None)
    <3>1. CASE s \in gone
      <4>1. m[s] = 0 /\ rs[s].leases = 0
        BY <1>4, <1>7, <3>1
      <4> QED
        BY <1>8, <4>1
    <3>2. CASE s \notin gone /\ s \in ToSet(held)
      BY <1>2, <1>3, <1>7, <1>8, <3>2
    <3>3. CASE s \notin gone /\ s \notin ToSet(held)
      BY <1>2, <1>3, <1>7, <1>8, <3>3
    <3> QED
      BY <3>1, <3>2, <3>3
  <2>2. ASSUME NEW s \in Storages
        PROVE  s \in ToSet(z.idle) <=> z.registered[s].region # None /\ m[s] = 0
    <3>1. s \in ToSet(z.idle) <=> s \in ToSet(x.idle) \/ s \in last \ gone
      BY <1>6, <1>8
    <3>2. CASE s \in gone
      <4>1. s \notin ToSet(x.idle) /\ z.registered[s].region = None
        BY <1>2, <1>4, <1>7, <1>8, <3>2
      <4> QED
        BY <3>1, <3>2, <4>1
    <3>3. CASE s \in last \ gone
      <4>1. m[s] = 0 /\ n[s] > 0 /\ s \in ToSet(held)
        BY <1>4, <3>3
      <4> QED
        BY <1>2, <1>7, <1>8, <3>1, <3>3, <4>1
    <3>4. CASE s \in ToSet(held) \ last
      <4>1. m[s] # 0 /\ n[s] # 0 /\ s \notin last
        BY <1>3, <1>4, <3>4
      <4> QED
        BY <1>2, <3>1, <4>1
    <3>5. CASE s \notin ToSet(held)
      <4>1. m[s] = n[s] /\ s \notin last /\ s \notin gone
        BY <1>4, <3>5
      <4> QED
        BY <1>2, <1>7, <1>8, <3>1, <4>1
    <3> QED
      BY <1>4, <3>2, <3>3, <3>4, <3>5
  <2>3. ToSet(z.idle) = {s \in Storages : z.registered[s].region # None /\ m[s] = 0}
    <3>1. ToSet(z.idle) \subseteq Storages
      BY <1>6, <1>8, ElementsFinite
    <3> QED
      BY <2>2, <3>1
  <2>4. \A s \in z.pending : z.registered[s].region = None
    <3>1. ASSUME NEW s \in x.pending
          PROVE  rs[s].region = None
      BY <1>2, <1>3, <1>7
    <3> QED
      BY <1>8, <3>1
  <2> QED
    BY <1>6, <1>8, <2>1, <2>3, <2>4 DEF Booked
<1>10. \A s \in Storages : z.registered[s].region \in {None, x.registered[s].region}
  BY <1>7, <1>8
<1>11. Good(z, E \cup D, m, cur) /\ E \cap D = {} /\ Frame(x, z, E)
  BY <1>8, <1>9, <1>10, RegistrationsLeave
<1>12. D = R
  <2>1. \A s \in Storages : z.registered[s].region = None <=> s \in gone \/ x.registered[s].region = None
    BY <1>7, <1>8
  <2>2. gone \subseteq Storages
    BY <1>3, <1>4
  <2> QED
    BY <1>4, <2>1, <2>2
<1> HIDE DEF D, R
<1>13. Good(Freed(z, R), E, m, cur) /\ Frame(z, Freed(z, R), E)
  BY <1>11, <1>12, FreedKeeps
<1>14. Freed(z, R).registered = z.registered
  BY <1>8 DEF Freed, Memory
<1>15. None \in Threads \cup {None}
  OBVIOUS
<1> DEFINE w == Freed(z, R)
           y == Fit(w, 0, None, o)
<1> HIDE DEF w
<1>16. Shrunk(w, y, E, m, cur, None)
  BY <1>13, <1>15, FitShrinks DEF w
<1> HIDE DEF y
<1>17. Frame(x, y, E)
  <2>1. Frame(x, w, E)
    BY <1>11, <1>13, FrameTwice DEF w
  <2> QED
    BY <1>16, <2>1, FrameTwice DEF Shrunk
<1>18. \A s \in Storages : y.registered[s].region \in {None, x.registered[s].region}
  BY <1>10, <1>14, <1>16 DEF Shrunk, w
<1> QED
  BY <1>1, <1>16, <1>17, <1>18, Sizes DEF Shrunk, w, y


-----------------------------------------------------------------------------
(* What an acquisition reserves *)

\* A region no one owns is allocated for the section.
LEMMA AllocatedKeeps ==
  ASSUME NEW x, NEW E, NEW n, NEW cur, NEW s \in Storages, NEW r \in FreeRegions(x), Good(x, E, n, cur)
  PROVE  LET y == Allocated(x, s, r)
         IN  /\ Good(y, E \cup {r}, n, cur) /\ Frame(x, y, E) /\ SameBooks(x, y) /\ y.tier = x.tier
             /\ r \in Regions /\ r \notin E
             /\ y.regions[r].state = "open" /\ DOMAIN y.regions[r].data = 1 .. Size[s]
<1> DEFINE blank == [state |-> "open", data |-> [i \in 1 .. Size[s] |-> Junk]]
           rs == [x.regions EXCEPT ![r] = blank]
           y == Allocated(x, s, r)
<1>1. x \in Memory /\ x.regions \in [Regions -> Region] /\ r \in Regions /\ x.regions[r].state = "free"
  BY GoodParts, Fields DEF FreeRegions
<1>2. Size[s] \in Nat
  BY Sizes
<1>3. blank \in Region /\ blank.state = "open" /\ DOMAIN blank.data = 1 .. Size[s]
  <2>1. [i \in 1 .. Size[s] |-> Junk] \in Seq(Int)
    <3>1. Junk \in Int
      BY DEF Junk
    <3> QED
      BY <1>2, <3>1, IsASeq
  <2> QED
    BY <2>1 DEF Region
<1>4. y = [x EXCEPT !.regions = rs]
  BY <1>1 DEF Allocated, Memory
<1> HIDE DEF blank
<1>5. rs \in [Regions -> Region] /\ rs[r] = blank /\ \A p \in Regions : p # r => rs[p] = x.regions[p]
  BY <1>1, <1>3
<1> HIDE DEF y, rs
<1>6. /\ y.registered = x.registered /\ y.idle = x.idle /\ y.pending = x.pending
      /\ y.tier = x.tier /\ y.batch = x.batch /\ y.regions = rs /\ y.maxPinned = x.maxPinned
      /\ y.maxOffered = x.maxOffered /\ y.missed = x.missed /\ y \in Memory
  BY <1>1, <1>4, <1>5 DEF Memory
<1>7. /\ RegisteredRegions(y) = RegisteredRegions(x) /\ TierRegions(y) = TierRegions(x)
      /\ \A t \in Threads : BatchRegions(y, t) = BatchRegions(x, t)
  BY <1>6 DEF RegisteredRegions, TierRegions, BatchRegions
<1>8. /\ r \notin RegisteredRegions(x) /\ r \notin TierRegions(x) /\ r \notin E
      /\ \A t \in Threads : r \notin BatchRegions(x, t)
  <2>1. Covered(x, E)
    BY GoodParts
  <2> QED
    BY <1>1, <2>1 DEF Covered
<1>9. RegisteredApart(y) /\ TierApart(y) /\ BatchApart(y)
  BY <1>6, <1>7, GoodParts DEF RegisteredApart, TierApart, BatchApart
<1>10. KindsApart(y, E \cup {r})
  <2>1. KindsApart(x, E)
    BY GoodParts
  <2> QED
    BY <1>7, <1>8, <2>1 DEF KindsApart
<1>11. Covered(y, E \cup {r})
  <2>1. Covered(x, E)
    BY GoodParts
  <2>2. ASSUME NEW p \in Regions
        PROVE  y.regions[p].state # "free" <=>
                 \/ p \in RegisteredRegions(x) \cup TierRegions(x) \cup (E \cup {r})
                 \/ \E t \in Threads : p \in BatchRegions(x, t)
    <3>1. CASE p = r
      <4>1. y.regions[p].state = "open"
        BY <1>3, <1>5, <1>6, <3>1
      <4> QED
        BY <3>1, <4>1
    <3>2. CASE p # r
      <4>1. y.regions[p] = x.regions[p]
        BY <1>5, <1>6, <3>2
      <4> QED
        BY <2>1, <3>2, <4>1 DEF Covered
    <3> QED
      BY <3>1, <3>2
  <2> QED
    BY <1>7, <2>2 DEF Covered
<1>12. Booked(y, n) /\ WithinTier(y)
  BY <1>6, GoodParts DEF Booked, WithinTier, Tiered, Occupied
<1>13. /\ \A s1 \in Storages : x.registered[s1].region # None => y.regions[x.registered[s1].region] = x.regions[x.registered[s1].region]
       /\ \A e \in ToSet(x.tier) : y.regions[e.region] = x.regions[e.region]
       /\ \A t \in Threads : \A i \in DOMAIN x.batch[t] :
            y.regions[x.batch[t][i].owner.region] = x.regions[x.batch[t][i].owner.region]
  <2>1. /\ \A s1 \in Storages : x.registered[s1].region # None => x.registered[s1].region # r
        /\ \A e \in ToSet(x.tier) : e.region # r
        /\ \A t \in Threads : \A i \in DOMAIN x.batch[t] : x.batch[t][i].owner.region # r
    BY <1>8 DEF RegisteredRegions, TierRegions, BatchRegions
  <2> QED
    BY <1>1, <1>5, <1>6, <2>1, OwnedRegions
<1>14. RegisteredWhole(y, cur)
  BY <1>6, <1>13, GoodParts DEF RegisteredWhole, Whole
<1>15. TierRight(y, cur)
  <2>1. TierRight(x, cur)
    BY GoodParts
  <2> QED
    BY <1>6, <1>13, <2>1 DEF TierRight, Offerable, Mixed
<1>16. BatchRight(y, cur)
  <2>1. ASSUME NEW t \in Threads, NEW i \in DOMAIN x.batch[t]
        PROVE  Offerable(y, x.batch[t][i].owner, cur)
    <3>1. Offerable(x, x.batch[t][i].owner, cur)
      BY GoodParts DEF BatchRight
    <3> QED
      BY ZenonT(60), <1>6, <1>13, <3>1 DEF Offerable, Mixed
  <2> QED
    BY <1>6, <2>1 DEF BatchRight
<1>17. Frame(x, y, E)
  <2>1. \A p \in E \cap Regions : y.regions[p] = x.regions[p]
    BY <1>5, <1>6, <1>8
  <2> QED
    BY <1>6, <2>1 DEF Frame
<1>18. Good(y, E \cup {r}, n, cur) /\ SameBooks(x, y)
  BY <1>6, <1>9, <1>10, <1>11, <1>12, <1>14, <1>15, <1>16 DEF Good, SameBooks
<1> QED
  BY <1>1, <1>3, <1>5, <1>6, <1>8, <1>17, <1>18 DEF y

\* What Memory.allocate gives: a region of the section's own, or none.
Provided(x, a, s, E, n, cur) ==
  /\ Frame(x, a.x, E) /\ SameBooks(x, a.x)
  /\ ToSet(a.x.tier) \subseteq ToSet(x.tier)
  /\ a.region = None => Good(a.x, E, n, cur)
  /\ a.region # None =>
       /\ a.region \in Regions /\ a.region \notin E /\ Good(a.x, E \cup {a.region}, n, cur)
       /\ a.x.regions[a.region].state = "open" /\ DOMAIN a.x.regions[a.region].data = 1 .. Size[s]

\* However the allocation goes, it gives one or none.
LEMMA AllocationProvides ==
  ASSUME NEW x, NEW E, NEW n, NEW cur, NEW s \in Storages, NEW outcome, Good(x, E, n, cur)
  PROVE  Provided(x, Allocation(x, s, outcome), s, E, n, cur)
<1> DEFINE before == Relieved(x)
           after == EvictOffered(before, Total(before.tier) - Size[s])
           y == IF outcome = "first" \/ before.tier = <<>> THEN before ELSE after
           Failed == outcome = "none" \/ (outcome = "second" /\ before.tier = <<>>) \/ FreeRegions(y) = {}
           a == Allocation(x, s, outcome)
<1>1. a = IF Failed THEN [x |-> y, region |-> None] ELSE [x |-> Allocated(y, s, Fresh(y)), region |-> Fresh(y)]
  BY DEF Allocation
<1>2. Good(before, E, n, cur) /\ Frame(x, before, E) /\ SameBooks(x, before)
      /\ before.tier \in Seq(Owner) /\ ToSet(before.tier) \subseteq ToSet(x.tier)
  <2> HIDE DEF before
  <2> QED
    BY RelievedKeeps DEF before
<1> HIDE DEF before
<1>3. Total(before.tier) - Size[s] \in Int
  <2>1. Total(before.tier) \in Nat
    BY <1>2, Totals
  <2> QED
    BY <2>1, Sizes
<1>4. /\ Good(after, E, n, cur) /\ Frame(before, after, E) /\ SameBooks(before, after)
      /\ ToSet(after.tier) \subseteq ToSet(before.tier)
  <2> DEFINE target == Total(before.tier) - Size[s]
  <2> HIDE DEF target
  <2>1. target \in Int
    BY <1>3 DEF target
  <2>2. /\ Good(EvictOffered(before, target), E, n, cur) /\ Frame(before, EvictOffered(before, target), E)
        /\ SameBooks(before, EvictOffered(before, target))
        /\ ToSet(EvictOffered(before, target).tier) \subseteq ToSet(before.tier)
    BY <1>2, <2>1, EvictOfferedKeeps
  <2> QED
    BY <2>2 DEF target
<1> HIDE DEF after
<1>5. Frame(x, after, E) /\ SameBooks(x, after) /\ ToSet(after.tier) \subseteq ToSet(x.tier)
  BY <1>2, <1>4, FrameTwice DEF SameBooks
<1>6. Good(y, E, n, cur) /\ Frame(x, y, E) /\ SameBooks(x, y) /\ ToSet(y.tier) \subseteq ToSet(x.tier)
  BY <1>2, <1>4, <1>5
<1> HIDE DEF y
<1>7. CASE Failed
  BY <1>1, <1>6, <1>7 DEF Provided
<1>8. CASE ~Failed
  <2> DEFINE r == Fresh(y)
             z == Allocated(y, s, r)
  <2>1. r \in FreeRegions(y)
    BY <1>8 DEF Fresh
  <2>2. a.x = z /\ a.region = r
    BY <1>1, <1>8
  <2> HIDE DEF r
  <2>3. /\ Good(z, E \cup {r}, n, cur) /\ Frame(y, z, E) /\ SameBooks(y, z) /\ z.tier = y.tier
        /\ r \in Regions /\ r \notin E
        /\ z.regions[r].state = "open" /\ DOMAIN z.regions[r].data = 1 .. Size[s]
    BY <1>6, <2>1, AllocatedKeeps
  <2> HIDE DEF z
  <2>4. Frame(x, z, E) /\ SameBooks(x, z)
    BY <1>6, <2>3, FrameTwice DEF SameBooks
  <2> HIDE DEF a
  <2> QED
    BY <1>6, <2>2, <2>3, <2>4, Sizes DEF Provided, a
<1> QED
  BY <1>7, <1>8

\* A storage that is in no tier may become pending.
LEMMA PendingJoins ==
  ASSUME NEW x, NEW E, NEW n, NEW cur, NEW s \in Storages, Good(x, E, n, cur),
         s \notin Tiered(x), x.registered[s].region = None
  PROVE  LET y == [x EXCEPT !.pending = @ \cup {s}]
         IN  /\ Good(y, E, n, cur) /\ y.pending = x.pending \cup {s} /\ y.missed = x.missed
             /\ y.regions = x.regions
<1> DEFINE y == [x EXCEPT !.pending = @ \cup {s}]
<1>1. x \in Memory
  BY GoodParts
<1>2. /\ y.registered = x.registered /\ y.idle = x.idle /\ y.pending = x.pending \cup {s}
      /\ y.tier = x.tier /\ y.batch = x.batch /\ y.regions = x.regions /\ y.maxPinned = x.maxPinned
      /\ y.maxOffered = x.maxOffered /\ y.missed = x.missed /\ y \in Memory
  BY <1>1 DEF Memory
<1> HIDE DEF y
<1>3. /\ RegisteredRegions(y) = RegisteredRegions(x) /\ TierRegions(y) = TierRegions(x)
      /\ \A t \in Threads : BatchRegions(y, t) = BatchRegions(x, t)
  BY <1>2 DEF RegisteredRegions, TierRegions, BatchRegions
<1>4. RegisteredApart(y) /\ TierApart(y) /\ BatchApart(y) /\ KindsApart(y, E) /\ Covered(y, E)
  BY <1>2, <1>3, GoodParts DEF RegisteredApart, TierApart, BatchApart, KindsApart, Covered
<1>5. Booked(y, n)
  BY <1>2, GoodParts DEF Booked
<1>6. WithinTier(y)
  <2>1. \A u \in Tiered(y) : u \in Tiered(x) /\ u # s /\ (Occupied(y, u) <=> Occupied(x, u))
    BY <1>2 DEF Tiered, Occupied
  <2> QED
    BY <1>2, <2>1, GoodParts DEF WithinTier
<1>7. RegisteredWhole(y, cur)
  BY <1>2, GoodParts DEF RegisteredWhole, Whole
<1>8. TierRight(y, cur)
  <2>1. TierRight(x, cur)
    BY ZenonT(60), GoodParts
  <2> QED
    BY <1>2, <2>1 DEF TierRight, Offerable, Mixed
<1>9. BatchRight(y, cur)
  <2>1. BatchRight(x, cur)
    BY GoodParts
  <2> QED
    BY ZenonT(60), <1>2, <2>1 DEF BatchRight, Offerable, Mixed
<1> QED
  BY <1>2, <1>4, <1>5, <1>6, <1>7, <1>8, <1>9 DEF Good, y

\* What a step does to the regions E and the storages missed, if it spares them.
Spares(x, y, E) == x.missed \subseteq y.missed /\ \A r \in E \cap Regions : y.regions[r] = x.regions[r]

\* A section that leaves the loads' regions alone leaves the loads right.
LEMMA LoadsSpared ==
  ASSUME NEW x, NEW y, NEW E, NEW cur, NEW loads \in Seq(CopyLoad), LoadsRight(x, loads, cur),
         LoadRegions(loads) \subseteq E, Spares(x, y, E)
  PROVE  LoadsRight(y, loads, cur)
<1>1. SUFFICES ASSUME NEW i \in DOMAIN loads
               PROVE  LoadRight(y, loads[i], cur)
  BY DEF LoadsRight
<1> DEFINE l == loads[i]
<1>2. LoadRight(x, l, cur) /\ l \in CopyLoad /\ l \in ToSet(loads)
  BY ElementsFinite DEF LoadsRight
<1> HIDE DEF l
<1>3. l.region # None => y.regions[l.region] = x.regions[l.region]
  BY <1>2 DEF LoadRegions, CopyLoad, Spares
<1>4. x.missed \subseteq y.missed
  BY DEF Spares
<1>5. LoadRight(y, l, cur)
  BY <1>2, <1>3, <1>4 DEF LoadRight, Mixed
<1> QED
  BY <1>5 DEF l

\* So does one with a frame.
LEMMA LoadsKept ==
  ASSUME NEW x, NEW y, NEW E, NEW cur, NEW loads \in Seq(CopyLoad), LoadsRight(x, loads, cur),
         LoadRegions(loads) \subseteq E, Frame(x, y, E)
  PROVE  LoadsRight(y, loads, cur)
<1>1. Spares(x, y, E)
  BY DEF Frame, Spares
<1> QED
  BY <1>1, LoadsSpared

\* A load of another storage, with another region, joins the loads.
LEMMA LoadsJoin ==
  ASSUME NEW x, NEW cur, NEW loads \in Seq(CopyLoad), NEW l \in CopyLoad, LoadsApart(loads),
         LoadsRight(x, loads, cur), LoadRight(x, l, cur), l.pointer \notin Pointers(loads),
         l.region \notin LoadRegions(loads)
  PROVE  LET q == Append(loads, l)
         IN  /\ q \in Seq(CopyLoad) /\ LoadsApart(q) /\ LoadsRight(x, q, cur)
             /\ Pointers(q) = Pointers(loads) \cup {l.pointer}
             /\ LoadRegions(q) = LoadRegions(loads) \cup ({l.region} \ {None})
<1> DEFINE q == Append(loads, l)
<1>1. /\ q \in Seq(CopyLoad) /\ Len(loads) \in Nat /\ DOMAIN loads = 1 .. Len(loads)
      /\ DOMAIN q = 1 .. Len(loads) + 1
      /\ \A i \in 1 .. Len(loads) : q[i] = loads[i] /\ q[i] \in ToSet(loads)
      /\ q[Len(loads) + 1] = l
  BY AppendProperties, LenProperties, ElementsFinite
<1>2. ToSet(q) = ToSet(loads) \cup {l}
  BY ToSetAppend
<1> HIDE DEF q
<1>3. \A i \in DOMAIN q : (i \in DOMAIN loads /\ q[i] = loads[i] /\ q[i] \in ToSet(loads)) \/ (i = Len(loads) + 1 /\ q[i] = l)
  <2>1. \A i \in 1 .. Len(loads) + 1 : i \in 1 .. Len(loads) \/ i = Len(loads) + 1
    BY <1>1
  <2> QED
    BY <1>1, <2>1
<1>4. \A d \in ToSet(loads) : d.pointer # l.pointer /\ (d.region = l.region => l.region = None)
  BY DEF Pointers, LoadRegions
<1>5. LoadsApart(q)
  <2>1. SUFFICES ASSUME NEW i \in DOMAIN q, NEW j \in DOMAIN q,
                        q[i].pointer = q[j].pointer \/ (q[i].region = q[j].region /\ q[i].region # None)
                 PROVE  i = j
    BY DEF LoadsApart
  <2>2. CASE i \in DOMAIN loads /\ j \in DOMAIN loads
    <3>1. q[i] = loads[i] /\ q[j] = loads[j]
      BY <1>1, <2>2
    <3> QED
      BY <2>1, <2>2, <3>1 DEF LoadsApart
  <2>3. ASSUME NEW a \in DOMAIN q, NEW b \in DOMAIN q, q[a] \in ToSet(loads), q[b] = l
        PROVE  q[a].pointer # q[b].pointer /\ (q[a].region = q[b].region => q[a].region = None)
    BY <1>4, <2>3
  <2> QED
    BY <1>3, <2>1, <2>2, <2>3
<1>6. LoadsRight(x, q, cur)
  BY <1>3 DEF LoadsRight
<1>7. Pointers(q) = Pointers(loads) \cup {l.pointer} /\ LoadRegions(q) = LoadRegions(loads) \cup ({l.region} \ {None})
  BY <1>2 DEF Pointers, LoadRegions
<1> QED
  BY <1>1, <1>5, <1>6, <1>7 DEF q


\* What an acquisition has when it has seen the storages S: loads, whose regions are
\* its own and whose storages are pending.
Reserving(a, S, n, cur) ==
  /\ a \in [x : Memory, loads : Seq(CopyLoad)] /\ Good(a.x, LoadRegions(a.loads), n, cur)
  /\ a.x.pending = Pointers(a.loads) /\ Pointers(a.loads) \subseteq S
  /\ LoadsApart(a.loads) /\ LoadsRight(a.x, a.loads, cur)

\* A section that reserves nothing.
LEMMA ReservingSame ==
  ASSUME NEW a, NEW S, NEW D, NEW n, NEW cur, NEW y, Reserving(a, S, n, cur), S \subseteq D,
         Good(y, LoadRegions(a.loads), n, cur), Frame(a.x, y, LoadRegions(a.loads))
  PROVE  Reserving([a EXCEPT !.x = y], D, n, cur)
<1> DEFINE b == [a EXCEPT !.x = y]
<1>1. y \in Memory /\ a \in [x : Memory, loads : Seq(CopyLoad)]
  BY GoodParts DEF Reserving
<1>2. b.x = y /\ b.loads = a.loads /\ b \in [x : Memory, loads : Seq(CopyLoad)]
  BY <1>1
<1> HIDE DEF b
<1>3. a.loads \in Seq(CopyLoad)
  BY <1>1
<1>4. LoadsRight(y, a.loads, cur)
  BY <1>3, LoadsKept DEF Reserving
<1>5. y.pending = a.x.pending
  BY DEF Frame
<1> QED
  BY <1>2, <1>4, <1>5 DEF Reserving, b

\* A section that reserves storage s.
LEMMA ReservedKeeps ==
  ASSUME NEW a, NEW S, NEW n, NEW cur, NEW y, NEW s \in Storages, NEW r \in Regions, NEW offered,
         Reserving(a, S, n, cur), s \notin S, r \notin LoadRegions(a.loads),
         Good(y, LoadRegions(a.loads) \cup {r}, n, cur), Frame(a.x, y, LoadRegions(a.loads)),
         s \notin Tiered(y), y.registered[s].region = None,
         Load(s, r, offered) \in CopyLoad, LoadRight(y, Load(s, r, offered), cur)
  PROVE  Reserving(Reserved(a, y, s, r, offered), S \cup {s}, n, cur)
<1> DEFINE l == Load(s, r, offered)
           L == LoadRegions(a.loads)
           z == [y EXCEPT !.pending = @ \cup {s}]
           q == Append(a.loads, l)
           b == Reserved(a, y, s, r, offered)
<1>1. b = [x |-> z, loads |-> q]
  BY DEF Reserved
<1>2. l.pointer = s /\ l.region = r /\ l \in CopyLoad
  BY DEF Load
<1>3. a.loads \in Seq(CopyLoad)
  BY DEF Reserving
<1>4. LoadsRight(y, a.loads, cur)
  BY <1>3, LoadsKept DEF Reserving
<1>5. Good(z, L \cup {r}, n, cur) /\ z.pending = y.pending \cup {s} /\ z.missed = y.missed /\ z.regions = y.regions
  <2> HIDE DEF L
  <2>1. Good(y, L \cup {r}, n, cur)
    BY DEF L
  <2> QED
    BY <2>1, PendingJoins
<1> HIDE DEF z
<1>6. LoadsRight(z, a.loads, cur) /\ LoadRight(z, l, cur)
  <2>1. ASSUME NEW k, LoadRight(y, k, cur)
        PROVE  LoadRight(z, k, cur)
    BY <1>5, <2>1 DEF LoadRight, Mixed
  <2> QED
    BY <1>4, <2>1 DEF LoadsRight
<1> HIDE DEF l
<1>7. /\ q \in Seq(CopyLoad) /\ LoadsApart(q) /\ LoadsRight(z, q, cur)
      /\ Pointers(q) = Pointers(a.loads) \cup {s}
      /\ LoadRegions(q) = L \cup {r}
  <2>1. l.pointer \notin Pointers(a.loads) /\ l.region \notin LoadRegions(a.loads) /\ LoadsApart(a.loads)
    BY <1>2 DEF Reserving
  <2>2. /\ q \in Seq(CopyLoad) /\ LoadsApart(q) /\ LoadsRight(z, q, cur)
        /\ Pointers(q) = Pointers(a.loads) \cup {l.pointer}
        /\ LoadRegions(q) = LoadRegions(a.loads) \cup ({l.region} \ {None})
    BY <1>2, <1>3, <1>6, <2>1, LoadsJoin
  <2>3. {r} \ {None} = {r}
    BY Sizes
  <2> QED
    BY <1>2, <2>2, <2>3
<1> HIDE DEF q
<1>8. z.pending = Pointers(q)
  BY <1>5, <1>7 DEF Frame, Reserving
<1>9. z \in Memory
  BY <1>5, GoodParts
<1>10. b.x = z /\ b.loads = q /\ b \in [x : Memory, loads : Seq(CopyLoad)]
  BY <1>1, <1>7, <1>9
<1> HIDE DEF b
<1>11. Pointers(q) \subseteq S \cup {s}
  BY <1>7 DEF Reserving
<1>12. Reserving(b, S \cup {s}, n, cur)
  BY <1>5, <1>7, <1>8, <1>10, <1>11 DEF Reserving
<1> QED
  BY <1>12 DEF b

\* A new load is of the right type.
LEMMA LoadType ==
  ASSUME NEW s \in Storages, NEW r \in Regions
  PROVE  Load(s, r, TRUE) \in CopyLoad /\ Load(s, r, FALSE) \in CopyLoad
<1>1. 1 .. Size[s] \in SUBSET Nat
  BY Sizes
<1> QED
  BY <1>1 DEF Load, CopyLoad

\* _reserve_copy: a copy from the tier, a new one, or none.
LEMMA ReserveKeeps ==
  ASSUME NEW a, NEW S, NEW n, NEW cur, NEW s \in Storages, NEW t \in Threads, NEW outcome, NEW o \in Outcome,
         Reserving(a, S, n, cur), s \notin S
  PROVE  Reserving(Reserve(a, s, t, outcome, o), S \cup {s}, n, cur)
<1> DEFINE x == a.x
           L == LoadRegions(a.loads)
           entry == Entry(x, s)
           taken == IF s \in Tiered(x) THEN [x EXCEPT !.tier = Lacking(@, {entry})] ELSE x
           made == Fit(taken, Size[s], t, o)
           allocation == Allocation(made, s, outcome)
           Skipped == x.registered[s].region # None \/ Pageable(s)
           b == Reserve(a, s, t, outcome, o)
           D == S \cup {s}
<1>1. b = IF Skipped THEN a
          ELSE IF s \in Tiered(x)
          THEN IF Fits(made, Size[s]) THEN Reserved(a, made, s, entry.region, TRUE)
               ELSE [a EXCEPT !.x = PutBack(made, entry, o)]
          ELSE IF ~Fits(made, Size[s]) THEN [a EXCEPT !.x = made]
          ELSE IF allocation.region = None THEN [a EXCEPT !.x = allocation.x]
          ELSE Reserved(a, allocation.x, s, allocation.region, FALSE)
  BY DEF Reserve
<1> HIDE DEF b
<1>2. /\ x \in Memory /\ Good(x, L, n, cur) /\ x.pending = Pointers(a.loads) /\ Pointers(a.loads) \subseteq S
      /\ S \subseteq D /\ t \in Threads \cup {None}
  BY GoodParts DEF Reserving
<1>3. CASE Skipped
  <2>1. Frame(x, x, L)
    BY DEF Frame
  <2>2. Reserving(a, D, n, cur)
    BY <1>2 DEF Reserving
  <2> QED
    BY <1>1, <1>3, <2>2 DEF b
<1>4. CASE ~Skipped /\ s \in Tiered(x)
  <2> DEFINE R == {entry.region}
             q == Lacking(x.tier, {entry})
  <2>1. entry \in ToSet(x.tier) /\ entry.pointer = s
    <3>1. \E e \in ToSet(x.tier) : e.pointer = s
      BY <1>4 DEF Tiered, Pointers
    <3> QED
      BY <3>1 DEF Entry
  <2> HIDE DEF entry
  <2>2. entry \in Owner /\ entry.region \in Regions /\ x.tier \in Seq(Owner) /\ IsInjective(x.tier)
    BY <1>2, <2>1, OwnedRegions, Fields, GoodParts DEF TierApart
  <2>3. q \in Seq(Owner) /\ ToSet(q) = ToSet(x.tier) \ {entry} /\ IsInjective(q)
    <3>1. IsFiniteSet({entry})
      BY FS_Singleton
    <3> QED
      BY <2>2, <3>1, LackingElements
  <2>4. taken = [x EXCEPT !.tier = q]
    BY <1>2, <1>4 DEF Memory
  <2> HIDE DEF taken, q
  <2>5. taken.tier = q /\ taken.registered = x.registered /\ taken.pending = x.pending
    BY <1>2, <2>4 DEF Memory
  <2>6. Good(taken, L \cup R, n, cur) /\ L \cap R = {} /\ Frame(x, taken, L)
    <3> DEFINE T == {e.region : e \in ToSet(x.tier) \ ToSet(q)}
    <3>1. T = R
      BY <2>1, <2>3
    <3>2. Good(taken, L \cup T, n, cur) /\ L \cap T = {} /\ Frame(x, taken, L)
      <4> HIDE DEF L
      <4>1. ToSet(q) \subseteq ToSet(x.tier)
        BY <2>3
      <4> QED
        BY <1>2, <2>3, <2>4, <4>1, TierLeaves
    <3> QED
      BY <3>1, <3>2
  <2>7. Shrunk(taken, made, L \cup R, n, cur, t)
    <3> HIDE DEF L, R
    <3> QED
      BY <1>2, <2>6, FitShrinks
  <2> HIDE DEF made
  <2>8. /\ Good(made, L \cup R, n, cur) /\ Frame(x, made, L) /\ made.tier = q /\ made.pending = x.pending
        /\ made.registered[s].region = None
        /\ made.regions[entry.region] = taken.regions[entry.region] /\ taken.missed \subseteq made.missed
    <3>1. Frame(taken, made, L \cup R)
      BY <2>7 DEF Shrunk
    <3>2. Frame(taken, made, L)
      BY <3>1 DEF Frame
    <3>3. Frame(x, made, L)
      BY <2>6, <3>2, FrameTwice
    <3> QED
      BY <1>4, <2>2, <2>5, <2>7, <3>1, <3>3 DEF Shrunk, Frame
  <2>9. s \notin Tiered(made) /\ s \notin Pointers(q)
    <3>1. \A d \in ToSet(x.tier) : d.pointer = s => d = entry
      BY <1>2, <2>1, GoodParts DEF TierApart
    <3> QED
      BY <2>3, <2>8, <3>1 DEF Tiered, Pointers
  <2>10. /\ s \notin x.missed /\ ~entry.retired => Mixed(x, entry.region, s, cur)
         /\ entry.retired => s \in x.missed
    BY <1>2, <2>1, GoodParts DEF TierRight, Offerable
  <2>11. s \notin made.missed => Mixed(made, entry.region, s, cur)
    <3>1. taken.regions = x.regions /\ taken.missed = x.missed
      BY <1>2, <2>4 DEF Memory
    <3> QED
      BY <2>8, <2>10, <3>1 DEF Mixed
  <2>12. CASE Fits(made, Size[s])
    <3> DEFINE l == Load(s, entry.region, TRUE)
    <3>1. l \in CopyLoad
      BY <2>2, LoadType
    <3>2. LoadRight(made, l, cur)
      <4>1. entry.region # None
        BY <2>2, Sizes
      <4>2. l.region = entry.region /\ l.pointer = s /\ l.offered /\ l.worker = "queued" /\ l.missing = 1 .. Size[s]
        BY DEF Load
      <4> HIDE DEF l
      <4> QED
        BY <2>11, <4>1, <4>2 DEF LoadRight, Reclaiming
    <3> HIDE DEF L
    <3>3. Reserving(Reserved(a, made, s, entry.region, TRUE), D, n, cur)
      <4>1. entry.region \notin LoadRegions(a.loads) /\ Frame(a.x, made, LoadRegions(a.loads))
            /\ Good(made, LoadRegions(a.loads) \cup {entry.region}, n, cur)
        BY <2>6, <2>8 DEF L
      <4> QED
        BY <2>2, <2>8, <2>9, <3>1, <3>2, <4>1, ReservedKeeps
    <3> QED
      BY <1>1, <1>4, <2>12, <3>3 DEF b
  <2>13. CASE ~Fits(made, Size[s])
    <3> DEFINE e == [entry EXCEPT !.retired = o.collected]
               M == IF o.collected THEN {entry.pointer} ELSE {}
               z == PutBack(made, entry, o)
    <3>1. e \in Owner /\ e.pointer = s /\ e.region = entry.region /\ e.retired = o.collected /\ M \in SUBSET Storages
      BY <2>1, <2>2 DEF Owner, Outcome
    <3>2. z = [made EXCEPT !.tier = Append(@, e), !.missed = @ \cup M]
      BY DEF PutBack
    <3>3. Total(made.tier) + Size[s] <= made.maxOffered
      <4>1. Pointers(x.tier) = Pointers(q) \cup {s}
        <5>1. ToSet(x.tier) = ToSet(q) \cup {entry}
          BY <2>1, <2>3
        <5> QED
          BY <2>1, <5>1 DEF Pointers
      <4>2. Total(x.tier) = Total(q) + Size[s]
        BY <2>2, <2>3, <2>9, <4>1, TotalMore
      <4>3. Total(x.tier) <= x.maxOffered
        BY <1>2, GoodParts DEF WithinTier
      <4>4. made.maxOffered = x.maxOffered
        BY <2>8 DEF Frame
      <4> QED
        BY <2>8, <4>2, <4>3, <4>4
    <3>4. ~Occupied(made, s)
      BY <1>2, <2>8 DEF Occupied
    <3>5. e.retired => s \in made.missed \cup M
      BY <2>1, <3>1
    <3> HIDE DEF e, M, z
    <3>6. Good(z, L, n, cur) /\ Frame(made, z, L)
      <4> HIDE DEF L
      <4>1. Good(made, L \cup {e.region}, n, cur) /\ e.region \notin L
        BY <2>6, <2>8, <3>1
      <4>2. e.pointer \notin made.missed \cup M => Mixed(made, e.region, e.pointer, cur)
        BY <2>11, <3>1
      <4> QED
        BY <2>9, <3>1, <3>2, <3>3, <3>4, <3>5, <4>1, <4>2, TierJoins
    <3>7. Frame(x, z, L)
      BY <2>8, <3>6, FrameTwice
    <3>8. Reserving([a EXCEPT !.x = z], D, n, cur)
      <4> HIDE DEF D
      <4> QED
        BY <1>2, <3>6, <3>7, ReservingSame
    <3> QED
      BY <1>1, <1>4, <2>13, <3>8 DEF b, z
  <2> QED
    BY <2>12, <2>13
<1>5. CASE ~Skipped /\ s \notin Tiered(x)
  <2>1. taken = x
    BY <1>5
  <2>2. Shrunk(x, made, L, n, cur, t)
    <3> HIDE DEF L, taken
    <3> QED
      BY <1>2, <2>1, FitShrinks
  <2> HIDE DEF made
  <2>3. /\ Good(made, L, n, cur) /\ Frame(x, made, L) /\ made.tier = x.tier
        /\ made.registered[s].region = None
    BY <1>5, <2>2 DEF Shrunk
  <2>4. CASE ~Fits(made, Size[s])
    <3>1. Reserving([a EXCEPT !.x = made], D, n, cur)
      <4> HIDE DEF D
      <4> QED
        BY <1>2, <2>3, ReservingSame
    <3> QED
      BY <1>1, <1>5, <2>4, <3>1 DEF b
  <2>5. CASE Fits(made, Size[s])
    <3> DEFINE w == allocation.x
               r == allocation.region
    <3>1. Provided(made, allocation, s, L, n, cur)
      <4> HIDE DEF L
      <4> QED
        BY <2>3, AllocationProvides
    <3> HIDE DEF allocation
    <3>2. Frame(made, w, L) /\ w.registered = made.registered /\ ToSet(w.tier) \subseteq ToSet(made.tier)
      BY <3>1 DEF Provided, SameBooks
    <3>3. Frame(x, w, L) /\ w.registered[s].region = None /\ s \notin Tiered(w)
      <4>1. Frame(x, w, L)
        BY <2>3, <3>2, FrameTwice
      <4> QED
        BY <1>5, <2>3, <3>2, <4>1 DEF Tiered, Pointers
    <3>4. CASE r = None
      <4>1. Good(w, L, n, cur)
        BY <3>1, <3>4 DEF Provided
      <4>2. Reserving([a EXCEPT !.x = w], D, n, cur)
        <5> HIDE DEF D, w
        <5> QED
          BY <1>2, <3>3, <4>1, ReservingSame
      <4> QED
        BY <1>1, <1>5, <2>5, <3>4, <4>2 DEF b
    <3>5. CASE r # None
      <4> DEFINE l == Load(s, r, FALSE)
      <4>1. /\ r \in Regions /\ r \notin L /\ Good(w, L \cup {r}, n, cur)
            /\ w.regions[r].state = "open" /\ DOMAIN w.regions[r].data = 1 .. Size[s]
        BY <3>1, <3>5 DEF Provided
      <4>2. l \in CopyLoad
        BY <4>1, LoadType
      <4>3. LoadRight(w, l, cur)
        <5>1. l.region = r /\ l.pointer = s /\ l.offered = FALSE /\ l.worker = "none" /\ l.missing = 1 .. Size[s]
          BY DEF Load
        <5> HIDE DEF l, r
        <5> QED
          BY <3>5, <4>1, <5>1 DEF LoadRight, Reclaiming
      <4> HIDE DEF w, r
      <4>4. Reserving(Reserved(a, w, s, r, FALSE), D, n, cur)
        BY <3>3, <4>1, <4>2, <4>3, ReservedKeeps
      <4> QED
        BY <1>1, <1>5, <2>5, <3>5, <4>4 DEF b, w, r
    <3> QED
      BY <3>4, <3>5
  <2> QED
    BY <2>4, <2>5
<1> QED
  BY <1>3, <1>4, <1>5


\* An acquisition reserves a copy for each storage it can.
LEMMA ReserveAllKeeps ==
  ASSUME NEW x, NEW n, NEW cur, NEW q \in Seq(Storages), NEW t \in Threads, NEW outcome, NEW o \in Outcome,
         Good(x, {}, n, cur), x.pending = {}, IsInjective(q)
  PROVE  Reserving(ReserveAll(x, q, t, outcome, o), ToSet(q), n, cur)
<1> DEFINE N == Len(q)
           base == [x |-> x, loads |-> <<>>]
           Seen(k) == {q[i] : i \in 1 .. k}
           X == [k \in 0 .. N |-> {a \in [x : Memory, loads : Seq(CopyLoad)] : Reserving(a, Seen(k), n, cur)}]
           step == [k \in 1 .. N |-> [a \in X[k - 1] |-> Reserve(a, q[k], t, outcome, o)]]
           Solves(g) == g = [k \in 0 .. N |-> IF k = 0 THEN base ELSE Reserve(g[k - 1], q[k], t, outcome, o)]
<1>1. N \in Nat /\ DOMAIN q = 1 .. N /\ \A k \in 1 .. N : q[k] \in Storages /\ q[k] \in ToSet(q)
  BY ElementsFinite
<1>2. base \in X[0]
  <2>1. x \in Memory
    BY GoodParts
  <2>2. base.x = x /\ base.loads = <<>> /\ base \in [x : Memory, loads : Seq(CopyLoad)]
    BY <2>1, EmptySeq
  <2> HIDE DEF base
  <2>3. ToSet(<<>>) = {}
    BY ToSetEmpty, EmptySeq
  <2>4. LoadRegions(<<>>) = {} /\ Pointers(<<>>) = {}
    BY <2>3 DEF LoadRegions, Pointers
  <2>5. DOMAIN <<>> = {}
    BY <2>3 DEF ToSet
  <2>6. LoadsApart(<<>>) /\ LoadsRight(x, <<>>, cur)
    BY <2>5 DEF LoadsApart, LoadsRight
  <2>7. Reserving(base, Seen(0), n, cur)
    BY <2>2, <2>4, <2>6 DEF Reserving
  <2>8. 0 \in 0 .. N
    BY <1>1
  <2> HIDE DEF Seen
  <2> QED
    BY <2>2, <2>7, <2>8
<1>3. ASSUME NEW k \in 1 .. N, NEW a \in X[k - 1]
      PROVE  Reserve(a, q[k], t, outcome, o) \in X[k]
  <2>1. k - 1 \in 0 .. N /\ k \in 0 .. N
    BY <1>1
  <2>2. Reserving(a, Seen(k - 1), n, cur)
    <3> HIDE DEF Seen
    <3> QED
      BY <2>1
  <2>3. q[k] \notin Seen(k - 1) /\ Seen(k) = Seen(k - 1) \cup {q[k]}
    <3>1. \A i \in 1 .. k - 1 : i \in DOMAIN q /\ k \in DOMAIN q /\ i # k
      BY <1>1
    <3>2. \A i \in 1 .. k - 1 : q[i] # q[k]
      BY <3>1 DEF IsInjective
    <3>3. \A i : i \in 1 .. k <=> i \in 1 .. k - 1 \/ i = k
      OBVIOUS
    <3> QED
      BY <3>2, <3>3
  <2> DEFINE b == Reserve(a, q[k], t, outcome, o)
             P == Seen(k - 1)
  <2> HIDE DEF Seen
  <2> HIDE DEF P
  <2>4. Reserving(b, P \cup {q[k]}, n, cur)
    <3> HIDE DEF b
    <3>1. q[k] \in Storages /\ q[k] \notin P /\ Reserving(a, P, n, cur)
      BY <1>1, <2>2, <2>3 DEF P
    <3> QED
      BY <3>1, ReserveKeeps DEF b
  <2> HIDE DEF b
  <2>5. Reserving(b, Seen(k), n, cur)
    BY <2>3, <2>4 DEF P
  <2>6. b \in [x : Memory, loads : Seq(CopyLoad)]
    BY <2>5 DEF Reserving
  <2> QED
    BY <2>1, <2>5, <2>6 DEF b
<1> HIDE DEF X
<1>4. \A k \in 1 .. N : \A a \in X[k - 1] : step[k][a] = Reserve(a, q[k], t, outcome, o)
  OBVIOUS
<1>5. \A k \in 1 .. N : k - 1 \in 0 .. N /\ k # 0
  BY <1>1
<1> HIDE DEF base
<1>6. \E g : Solves(g)
  <2>1. \A k \in 1 .. N : \A a \in X[k - 1] : step[k][a] \in X[k]
    BY <1>3, <1>4
  <2> HIDE DEF step
  <2>2. PICK f : Runs(f, N, base, step, X)
    BY <1>1, <1>2, <2>1, Iterates
  <2>3. \A k \in 0 .. N : k # 0 => k \in 1 .. N
    BY <1>1
  <2>4. \A k \in 0 .. N : k # 0 => step[k][f[k - 1]] = Reserve(f[k - 1], q[k], t, outcome, o)
    BY <1>4, <1>5, <2>2, <2>3 DEF Runs
  <2>5. Solves(f)
    BY <2>2, <2>4 DEF Runs
  <2> HIDE DEF Solves
  <2> QED
    BY <2>5
<1> DEFINE g == CHOOSE g : Solves(g)
<1>7. Solves(g)
  BY <1>6
<1>8. ReserveAll(x, q, t, outcome, o) = g[N]
  BY DEF ReserveAll, base
<1> HIDE DEF g
<1> DEFINE G == {i \in 0 .. N : g[i] \in X[i]}
<1>9. 0 \in G
  BY <1>1, <1>2, <1>7
<1>10. ASSUME NEW k \in 1 .. N, k - 1 \in G
       PROVE  k \in G
  <2>1. k \in 0 .. N /\ k # 0
    BY <1>1
  <2>2. g[k] = Reserve(g[k - 1], q[k], t, outcome, o)
    BY <1>7, <2>1
  <2>3. g[k - 1] \in X[k - 1]
    BY <1>10
  <2> HIDE DEF Solves
  <2>4. g[k] \in X[k]
    BY <1>3, <2>2, <2>3
  <2> QED
    BY <2>1, <2>4
<1>11. \A k \in 0 .. N : k \in G
  <2> HIDE DEF G
  <2> QED
    BY <1>1, <1>9, <1>10, UpTo
<1>12. N \in 0 .. N /\ g[N] \in X[N]
  BY <1>1, <1>11
<1>13. Seen(N) = ToSet(q)
  BY <1>1 DEF ToSet
<1> HIDE DEF Seen
<1> QED
  BY <1>8, <1>12, <1>13 DEF X

\* The copies of a batch are settled one after the other.
LEMMA SettleAllKeeps ==
  ASSUME NEW x, NEW E, NEW n, NEW cur, NEW batch \in Seq(Offering), NEW collected \in BOOLEAN,
         Good(x, E \cup {batch[i].owner.region : i \in DOMAIN batch}, n, cur),
         \A i \in DOMAIN batch : batch[i].owner.region \notin E /\ Offerable(x, batch[i].owner, cur),
         \A i, j \in DOMAIN batch : batch[i].owner.region = batch[j].owner.region => i = j
  PROVE  LET y == SettleAll(x, batch, collected) IN Good(y, E, n, cur) /\ Frame(x, y, E)
<1> DEFINE N == Len(batch)
           Rest(k) == {batch[i].owner.region : i \in k + 1 .. N}
           X == [k \in 0 .. N |-> {y \in Memory : /\ Good(y, E \cup Rest(k), n, cur) /\ Frame(x, y, E)
                                                  /\ \A i \in k + 1 .. N : Offerable(y, batch[i].owner, cur)}]
           step == [k \in 1 .. N |-> [y \in X[k - 1] |-> Settle(y, batch[k].owner, batch[k].offer = "offered", collected)]]
           Solves(g) == g = [k \in 0 .. N |-> IF k = 0 THEN x
                                              ELSE Settle(g[k - 1], batch[k].owner, batch[k].offer = "offered", collected)]
<1>1. N \in Nat /\ DOMAIN batch = 1 .. N /\ \A k \in 1 .. N : batch[k] \in Offering
  BY ElementsFinite
<1>2. \A k \in 1 .. N : batch[k].owner \in Owner /\ batch[k].owner.region \in Regions
  BY <1>1 DEF Offering, Owner
<1>3. x \in X[0]
  <2>1. x \in Memory
    BY GoodParts
  <2>2. \A i : i \in 0 + 1 .. N <=> i \in DOMAIN batch
    BY <1>1
  <2>3. Rest(0) = {batch[i].owner.region : i \in DOMAIN batch}
    BY <2>2
  <2>4. Frame(x, x, E)
    BY DEF Frame
  <2>5. 0 \in 0 .. N
    BY <1>1
  <2>6. Good(x, E \cup Rest(0), n, cur)
    BY <2>3
  <2> HIDE DEF Rest
  <2> QED
    BY <2>1, <2>2, <2>4, <2>5, <2>6
<1>4. ASSUME NEW k \in 1 .. N, NEW y \in X[k - 1]
      PROVE  Settle(y, batch[k].owner, batch[k].offer = "offered", collected) \in X[k]
  <2> DEFINE z == Settle(y, batch[k].owner, batch[k].offer = "offered", collected)
             D == E \cup Rest(k)
  <2>1. k - 1 \in 0 .. N /\ k \in 0 .. N
    BY <1>1
  <2>2. /\ Good(y, E \cup Rest(k - 1), n, cur) /\ Frame(x, y, E)
        /\ \A i \in (k - 1) + 1 .. N : Offerable(y, batch[i].owner, cur)
    <3> HIDE DEF Rest
    <3> QED
      BY <2>1
  <2>3. \A i : i \in (k - 1) + 1 .. N <=> i = k \/ i \in k + 1 .. N
    BY <1>1
  <2>4. \A i \in k + 1 .. N : i \in DOMAIN batch /\ i # k /\ k \in DOMAIN batch
    BY <1>1
  <2>5. E \cup Rest(k - 1) = D \cup {batch[k].owner.region} /\ batch[k].owner.region \notin D
    <3>1. Rest(k - 1) = Rest(k) \cup {batch[k].owner.region}
      BY <2>3
    <3>2. batch[k].owner.region \notin Rest(k)
      BY <2>4
    <3>3. batch[k].owner.region \notin E
      BY <1>1
    <3> HIDE DEF Rest
    <3> QED
      BY <3>1, <3>2, <3>3
  <2>6. Rest(k) \subseteq Regions
    BY <1>1, <1>2, <2>4
  <2> HIDE DEF z
  <2>7. Good(z, D, n, cur) /\ Frame(y, z, D)
    <3> DEFINE owner == batch[k].owner
               offered == batch[k].offer = "offered"
    <3>1. owner \in Owner /\ offered \in BOOLEAN /\ Offerable(y, owner, cur)
      BY <1>2, <2>2, <2>3
    <3>2. Good(y, D \cup {owner.region}, n, cur) /\ owner.region \notin D
      BY <2>2, <2>5
    <3> HIDE DEF owner, offered, D
    <3>3. Good(Settle(y, owner, offered, collected), D, n, cur) /\ Frame(y, Settle(y, owner, offered, collected), D)
      BY ZenonT(60), <3>1, <3>2, SettleKeeps
    <3> QED
      BY <3>3 DEF z, owner, offered
  <2>8. ASSUME NEW i \in k + 1 .. N
        PROVE  Offerable(z, batch[i].owner, cur)
    <3>1. Offerable(y, batch[i].owner, cur)
      BY <2>2, <2>3
    <3>2. z.regions[batch[i].owner.region] = y.regions[batch[i].owner.region] /\ y.missed \subseteq z.missed
      BY <2>6, <2>7 DEF Frame
    <3> QED
      BY ZenonT(60), <3>1, <3>2 DEF Offerable, Mixed
  <2>9. Frame(x, z, E)
    <3>1. E \subseteq D
      OBVIOUS
    <3>2. Frame(y, z, E)
      BY <2>7, <3>1 DEF Frame
    <3> QED
      BY <2>2, <3>2, FrameTwice
  <2>10. z \in Memory
    BY <2>7, GoodParts
  <2>11. Good(z, E \cup Rest(k), n, cur)
    BY <2>7
  <2> HIDE DEF Rest, D
  <2> QED
    BY <2>1, <2>8, <2>9, <2>10, <2>11 DEF z
<1> HIDE DEF X
<1>5. \A k \in 1 .. N : \A y \in X[k - 1] : step[k][y] = Settle(y, batch[k].owner, batch[k].offer = "offered", collected)
  OBVIOUS
<1>6. \A k \in 1 .. N : k - 1 \in 0 .. N /\ k # 0
  BY <1>1
<1>7. \E g : Solves(g)
  <2>1. \A k \in 1 .. N : \A y \in X[k - 1] : step[k][y] \in X[k]
    BY <1>4, <1>5
  <2> HIDE DEF step
  <2>2. PICK f : Runs(f, N, x, step, X)
    BY <1>1, <1>3, <2>1, Iterates
  <2>3. \A k \in 0 .. N : k # 0 => k \in 1 .. N
    BY <1>1
  <2>4. \A k \in 0 .. N : k # 0 =>
          step[k][f[k - 1]] = Settle(f[k - 1], batch[k].owner, batch[k].offer = "offered", collected)
    BY <1>5, <1>6, <2>2, <2>3 DEF Runs
  <2>5. Solves(f)
    BY <2>2, <2>4 DEF Runs
  <2> HIDE DEF Solves
  <2> QED
    BY <2>5
<1> DEFINE g == CHOOSE g : Solves(g)
<1>8. Solves(g)
  BY <1>7
<1>9. SettleAll(x, batch, collected) = g[N]
  BY DEF SettleAll
<1> HIDE DEF g
<1> DEFINE G == {i \in 0 .. N : g[i] \in X[i]}
<1>10. 0 \in G
  BY <1>1, <1>3, <1>8
<1>11. ASSUME NEW k \in 1 .. N, k - 1 \in G
       PROVE  k \in G
  <2>1. k \in 0 .. N /\ k # 0
    BY <1>1
  <2>2. g[k] = Settle(g[k - 1], batch[k].owner, batch[k].offer = "offered", collected)
    BY <1>8, <2>1
  <2>3. g[k - 1] \in X[k - 1]
    BY <1>11
  <2> HIDE DEF Solves
  <2>4. g[k] \in X[k]
    BY <1>4, <2>2, <2>3
  <2> QED
    BY <2>1, <2>4
<1>12. \A k \in 0 .. N : k \in G
  <2> HIDE DEF G
  <2> QED
    BY <1>1, <1>10, <1>11, UpTo
<1>13. N \in 0 .. N /\ g[N] \in X[N]
  BY <1>1, <1>12
<1>14. Good(g[N], E \cup Rest(N), n, cur) /\ Frame(x, g[N], E)
  <2> HIDE DEF Rest
  <2> QED
    BY <1>13 DEF X
<1>15. E \cup Rest(N) = E
  <2>1. N + 1 .. N = {}
    BY <1>1
  <2> QED
    BY <2>1
<1> HIDE DEF Rest
<1> QED
  BY <1>9, <1>14, <1>15


-----------------------------------------------------------------------------
(* What an acquisition registers *)

\* The leases of the others, n, and those of what one thread holds.
With(n, held) == [s \in Storages |-> IF s \in ToSet(held) THEN n[s] + 1 ELSE n[s]]

\* A storage is pending no longer.
LEMMA PendingLeaves ==
  ASSUME NEW x, NEW E, NEW n, NEW cur, NEW S, Good(x, E, n, cur)
  PROVE  LET y == [x EXCEPT !.pending = @ \ S]
         IN  /\ Good(y, E, n, cur) /\ y.pending = x.pending \ S /\ y.missed = x.missed
             /\ y.regions = x.regions /\ y.registered = x.registered /\ y.tier = x.tier
<1> DEFINE y == [x EXCEPT !.pending = @ \ S]
<1>1. x \in Memory
  BY GoodParts
<1>2. /\ y.registered = x.registered /\ y.idle = x.idle /\ y.pending = x.pending \ S
      /\ y.tier = x.tier /\ y.batch = x.batch /\ y.regions = x.regions /\ y.maxPinned = x.maxPinned
      /\ y.maxOffered = x.maxOffered /\ y.missed = x.missed /\ y \in Memory
  BY <1>1 DEF Memory
<1> HIDE DEF y
<1>3. /\ RegisteredRegions(y) = RegisteredRegions(x) /\ TierRegions(y) = TierRegions(x)
      /\ \A t \in Threads : BatchRegions(y, t) = BatchRegions(x, t)
  BY <1>2 DEF RegisteredRegions, TierRegions, BatchRegions
<1>4. RegisteredApart(y) /\ TierApart(y) /\ BatchApart(y) /\ KindsApart(y, E) /\ Covered(y, E)
  BY <1>2, <1>3, GoodParts DEF RegisteredApart, TierApart, BatchApart, KindsApart, Covered
<1>5. Booked(y, n)
  BY <1>2, GoodParts DEF Booked
<1>6. WithinTier(y)
  <2>1. \A u \in Tiered(y) : u \in Tiered(x) /\ (Occupied(y, u) => Occupied(x, u))
    BY <1>2 DEF Tiered, Occupied
  <2> QED
    BY <1>2, <2>1, GoodParts DEF WithinTier
<1>7. RegisteredWhole(y, cur)
  BY <1>2, GoodParts DEF RegisteredWhole, Whole
<1>8. TierRight(y, cur)
  <2>1. TierRight(x, cur)
    BY ZenonT(60), GoodParts
  <2> QED
    BY <1>2, <2>1 DEF TierRight, Offerable, Mixed
<1>9. BatchRight(y, cur)
  <2>1. BatchRight(x, cur)
    BY GoodParts
  <2> QED
    BY ZenonT(60), <1>2, <2>1 DEF BatchRight, Offerable, Mixed
<1> QED
  BY <1>2, <1>4, <1>5, <1>6, <1>7, <1>8, <1>9 DEF Good, y

\* What is open and whole may be registered, with one lease.
LEMMA RegistrationJoins ==
  ASSUME NEW x, NEW E, NEW n, NEW m, NEW cur, NEW s \in Storages, NEW r \in Regions,
         Good(x, E \cup {r}, n, cur), r \notin E,
         x.registered[s].region = None, s \notin x.pending, s \notin Tiered(x),
         x.regions[r].state = "open", s \notin x.missed => Whole(x, r, s, cur),
         \A u \in Storages : m[u] = IF u = s THEN 1 ELSE n[u]
  PROVE  LET y == [x EXCEPT !.registered[s] = [region |-> r, leases |-> 1, retired |-> FALSE]]
         IN  /\ Good(y, E, m, cur) /\ Frame(x, y, E)
<1> DEFINE g == [region |-> r, leases |-> 1, retired |-> FALSE]
           rs == [x.registered EXCEPT ![s] = g]
           y == [x EXCEPT !.registered[s] = g]
<1>1. x \in Memory /\ x.registered \in [Storages -> Registration] /\ r # None
  BY GoodParts, Fields, Sizes
<1>2. g \in Registration /\ g.region = r /\ g.leases = 1
  BY DEF Registration
<1>3. y = [x EXCEPT !.registered = rs]
  BY <1>1 DEF Memory
<1> HIDE DEF g
<1>4. rs \in [Storages -> Registration] /\ rs[s] = g /\ \A u \in Storages : u # s => rs[u] = x.registered[u]
  BY <1>1, <1>2
<1> HIDE DEF y, rs
<1>5. /\ y.registered = rs /\ y.idle = x.idle /\ y.pending = x.pending
      /\ y.tier = x.tier /\ y.batch = x.batch /\ y.regions = x.regions /\ y.maxPinned = x.maxPinned
      /\ y.maxOffered = x.maxOffered /\ y.missed = x.missed /\ y \in Memory
  BY <1>1, <1>3, <1>4 DEF Memory
<1>6. /\ TierRegions(y) = TierRegions(x)
      /\ \A t \in Threads : BatchRegions(y, t) = BatchRegions(x, t)
  BY <1>5 DEF TierRegions, BatchRegions
<1>7. RegisteredRegions(y) = RegisteredRegions(x) \cup {r}
  <2>1. \A u \in Storages : y.registered[u].region = IF u = s THEN r ELSE x.registered[u].region
    BY <1>2, <1>4, <1>5
  <2> QED
    BY <1>1, <2>1 DEF RegisteredRegions
<1>8. KindsApart(x, E \cup {r})
  BY GoodParts
<1>9. RegisteredApart(y)
  <2>1. \A u \in Storages : x.registered[u].region # r
    BY <1>1, <1>8 DEF KindsApart, RegisteredRegions
  <2>2. RegisteredApart(x)
    BY GoodParts
  <2>3. \A u \in Storages : y.registered[u].region = IF u = s THEN r ELSE x.registered[u].region
    BY <1>2, <1>4, <1>5
  <2> QED
    BY <2>1, <2>2, <2>3 DEF RegisteredApart
<1>10. TierApart(y) /\ BatchApart(y)
  BY <1>5, <1>6, GoodParts DEF TierApart, BatchApart
<1>11. KindsApart(y, E)
  BY <1>6, <1>7, <1>8 DEF KindsApart
<1>12. Covered(y, E)
  BY <1>5, <1>6, <1>7, GoodParts DEF Covered
<1>13. Booked(y, m)
  <2>1. /\ \A u \in Storages : x.registered[u].leases = n[u] /\ (n[u] > 0 => x.registered[u].region # None)
        /\ IsInjective(x.idle)
        /\ ToSet(x.idle) = {u \in Storages : x.registered[u].region # None /\ n[u] = 0}
        /\ \A u \in x.pending : x.registered[u].region = None
    BY GoodParts DEF Booked
  <2>2. \A u \in Storages : y.registered[u].leases = m[u] /\ (m[u] > 0 => y.registered[u].region # None)
    BY <1>1, <1>2, <1>4, <1>5, <2>1
  <2>3. \A u \in Storages : u \in ToSet(y.idle) <=> y.registered[u].region # None /\ m[u] = 0
    <3>1. s \notin ToSet(y.idle) /\ m[s] # 0
      BY <1>5, <2>1
    <3> QED
      BY <1>4, <1>5, <2>1, <3>1
  <2>4. ToSet(y.idle) = {u \in Storages : y.registered[u].region # None /\ m[u] = 0}
    BY <1>5, <2>1, <2>3
  <2>5. \A u \in y.pending : y.registered[u].region = None
    <3>1. x.pending \subseteq Storages
      BY <1>1, Fields
    <3> QED
      BY <1>4, <1>5, <2>1, <3>1
  <2> QED
    BY <1>5, <2>1, <2>2, <2>4, <2>5 DEF Booked
<1>14. WithinTier(y)
  <2>1. Tiered(x) \subseteq Storages
    BY <1>1, Fields, OwnerPointers DEF Tiered
  <2>2. \A u \in Tiered(y) : u \in Tiered(x) /\ u # s /\ (Occupied(y, u) => Occupied(x, u))
    BY <1>4, <1>5, <2>1 DEF Tiered, Occupied
  <2> QED
    BY <1>5, <2>2, GoodParts DEF WithinTier
<1>15. RegisteredWhole(y, cur)
  <2>1. \A u \in Storages : u # s => y.registered[u] = x.registered[u]
    BY <1>4, <1>5
  <2>2. y.registered[s].region = r
    BY <1>2, <1>4, <1>5
  <2>3. RegisteredWhole(x, cur)
    BY GoodParts
  <2>4. \A u \in Storages : u # s /\ y.registered[u].region # None =>
          /\ y.regions[y.registered[u].region].state = "open"
          /\ u \notin y.missed => Whole(y, y.registered[u].region, u, cur)
    BY <1>5, <2>1, <2>3 DEF RegisteredWhole, Whole
  <2>5. y.regions[r].state = "open" /\ (s \notin y.missed => Whole(y, r, s, cur))
    BY <1>5 DEF Whole
  <2> QED
    BY <2>2, <2>4, <2>5 DEF RegisteredWhole
<1>16. TierRight(y, cur)
  <2>1. TierRight(x, cur)
    BY ZenonT(60), GoodParts
  <2> QED
    BY <1>5, <2>1 DEF TierRight, Offerable, Mixed
<1>17. BatchRight(y, cur)
  <2>1. BatchRight(x, cur)
    BY GoodParts
  <2> QED
    BY ZenonT(60), <1>5, <2>1 DEF BatchRight, Offerable, Mixed
<1>18. Frame(x, y, E)
  BY <1>5 DEF Frame
<1>19. Good(y, E, m, cur)
  BY <1>5, <1>9, <1>10, <1>11, <1>12, <1>13, <1>14, <1>15, <1>16, <1>17 DEF Good
<1> QED
  BY <1>18, <1>19 DEF y, g

\* Trying to register may cost idle registrations.
LEMMA TryRegisterShrinks ==
  ASSUME NEW x, NEW E, NEW n, NEW cur, NEW s, NEW answer, NEW o \in Outcome, Good(x, E, n, cur)
  PROVE  Shrunk(x, TryRegister(x, s, answer, o).x, E, n, cur, None)
<1> DEFINE batch == EvictIdle(x, Pinned(x) - Size[s], None, o)
           all == EvictIdle(x, -1, None, o)
           y == TryRegister(x, s, answer, o)
<1>1. None \in Threads \cup {None}
  OBVIOUS
<1>2. Shrunk(x, batch, E, n, cur, None) /\ Shrunk(x, all, E, n, cur, None)
  BY <1>1, EvictIdleShrinks
<1>3. Shrunk(x, x, E, n, cur, None)
  BY DEF Shrunk, Frame
<1>4. y.x = IF answer = "later" THEN batch ELSE IF answer = "capacity" THEN all ELSE x
  <2>1. CASE answer = "later"
    <3>1. y = [x |-> batch, result |-> IF Pinned(batch) < Pinned(x) THEN "registered" ELSE "capacity"]
      BY <2>1 DEF TryRegister
    <3> QED
      BY <2>1, <3>1
  <2>2. CASE answer = "capacity"
    <3>1. y = [x |-> all, result |-> "capacity"]
      BY <2>2 DEF TryRegister
    <3> QED
      BY <2>2, <3>1
  <2>3. CASE answer # "later" /\ answer # "capacity"
    <3>1. y = [x |-> x, result |-> answer]
      BY <2>3 DEF TryRegister
    <3> QED
      BY <2>3, <3>1
  <2> QED
    BY <2>1, <2>2, <2>3
<1> HIDE DEF y, batch, all
<1> QED
  BY <1>2, <1>3, <1>4 DEF y

\* The loads without one of them.
LEMMA LoadsLeave ==
  ASSUME NEW loads \in Seq(CopyLoad), NEW k \in DOMAIN loads, LoadsApart(loads)
  PROVE  LET q == RemoveAt(loads, k)
         IN  /\ q \in Seq(CopyLoad) /\ LoadsApart(q) /\ Len(q) = Len(loads) - 1
             /\ ToSet(q) = ToSet(loads) \ {loads[k]}
             /\ Pointers(q) = Pointers(loads) \ {loads[k].pointer}
             /\ LoadRegions(q) = LoadRegions(loads) \ {loads[k].region}
<1> DEFINE q == RemoveAt(loads, k)
           N == Len(loads)
           l == loads[k]
<1>1. N \in Nat /\ DOMAIN loads = 1 .. N /\ ToSet(loads) = {loads[i] : i \in 1 .. N}
  BY ElementsFinite DEF ToSet
<1>2. /\ q \in Seq(CopyLoad) /\ Len(q) = N - 1 /\ DOMAIN q = 1 .. N - 1
      /\ \A i \in 1 .. N - 1 : q[i] = IF i < k THEN loads[i] ELSE loads[i + 1]
  BY ZenonT(60), <1>1, RemovedElements
<1> HIDE DEF q
<1> DEFINE At(i) == IF i < k THEN i ELSE i + 1
<1>3. \A i \in 1 .. N - 1 : At(i) \in 1 .. N /\ At(i) # k /\ q[i] = loads[At(i)]
  BY <1>1, <1>2
<1>4. \A i, j \in 1 .. N - 1 : At(i) = At(j) => i = j
  <2>1. SUFFICES ASSUME NEW i \in 1 .. N - 1, NEW j \in 1 .. N - 1, At(i) = At(j)
                 PROVE  i = j
    OBVIOUS
  <2> QED
    BY <1>1, <2>1
<1>5. \A j \in 1 .. N : j # k => \E i \in 1 .. N - 1 : q[i] = loads[j]
  <2>1. SUFFICES ASSUME NEW j \in 1 .. N, j # k
                 PROVE  \E i \in 1 .. N - 1 : q[i] = loads[j]
    OBVIOUS
  <2>2. CASE j < k
    <3>1. j \in 1 .. N - 1
      BY <1>1, <2>2
    <3> QED
      BY <1>2, <2>2, <3>1
  <2>3. CASE j > k
    <3>1. j - 1 \in 1 .. N - 1 /\ ~(j - 1 < k) /\ (j - 1) + 1 = j
      BY <1>1, <2>3
    <3> QED
      BY <1>2, <3>1
  <2> QED
    BY <1>1, <2>1, <2>2, <2>3
<1> HIDE DEF At
<1>6. LoadsApart(q)
  <2>1. SUFFICES ASSUME NEW i \in 1 .. N - 1, NEW j \in 1 .. N - 1,
                        q[i].pointer = q[j].pointer \/ (q[i].region = q[j].region /\ q[i].region # None)
                 PROVE  i = j
    BY <1>2 DEF LoadsApart
  <2>2. At(i) = At(j)
    <3>1. At(i) \in DOMAIN loads /\ At(j) \in DOMAIN loads /\ q[i] = loads[At(i)] /\ q[j] = loads[At(j)]
      BY <1>1, <1>3
    <3> QED
      BY <2>1, <3>1 DEF LoadsApart
  <2> QED
    BY <1>4, <2>2
<1>7. \A i \in 1 .. N : i # k => loads[i].pointer # l.pointer /\ (loads[i].region = l.region => l.region = None)
  BY <1>1 DEF LoadsApart
<1>8. ToSet(q) = {loads[i] : i \in (1 .. N) \ {k}}
  <2>1. ToSet(q) = {q[i] : i \in 1 .. N - 1}
    BY <1>2 DEF ToSet
  <2>2. ASSUME NEW i \in 1 .. N - 1
        PROVE  q[i] \in {loads[j] : j \in (1 .. N) \ {k}}
    BY <1>3
  <2>3. ASSUME NEW j \in (1 .. N) \ {k}
        PROVE  loads[j] \in {q[i] : i \in 1 .. N - 1}
    BY <1>5
  <2> HIDE DEF N
  <2> QED
    BY <2>1, <2>2, <2>3
<1>9. ToSet(q) = ToSet(loads) \ {l}
  BY <1>1, <1>7, <1>8
<1>10. \A d \in ToSet(q) : d \in ToSet(loads) /\ d.pointer # l.pointer /\ (d.region = l.region => l.region = None)
  BY <1>1, <1>7, <1>8
<1>11. l \in ToSet(loads)
  BY <1>1
<1> HIDE DEF l
<1>12. Pointers(q) = Pointers(loads) \ {l.pointer}
  BY <1>9, <1>10, <1>11 DEF Pointers
<1>13. LoadRegions(q) = LoadRegions(loads) \ {l.region}
  BY <1>9, <1>10, <1>11 DEF LoadRegions
<1> QED
  BY <1>2, <1>6, <1>9, <1>12, <1>13 DEF q, l


\* Where _register_pending is: loads that are left of those in L, whose storages are
\* pending, and what is held, of the storages S.  The copy that may go early is ready.
Progress ==
  [x : Memory, loads : Seq(CopyLoad), held : Seq(Storages), created : SUBSET Storages,
   early : Storages \cup {None}, result : {"all", "capacity", "raised"}]
Settling(a, S, L, n, cur) ==
  /\ a \in Progress /\ n \in [Storages -> Nat]
  /\ Good(a.x, LoadRegions(a.loads), With(n, a.held), cur)
  /\ a.x.pending = Pointers(a.loads)
  /\ IsInjective(a.held) /\ ToSet(a.held) \subseteq S /\ Pointers(a.loads) \subseteq S
  /\ LoadsApart(a.loads) /\ LoadsRight(a.x, a.loads, cur) /\ ToSet(a.loads) \subseteq L
  /\ a.early # None => \E l \in ToSet(a.loads) : l.pointer = a.early /\ Ready(l)

Settled(a, b, S, L, n, cur) ==
  /\ Settling(b, S, L, n, cur)
  /\ b.result = "all" => Len(b.loads) = Len(a.loads) - 1

\* A load that is ready is registered, or freed, or stays when the runtime raises.
LEMMA SettlePendingKeeps ==
  ASSUME NEW a, NEW S, NEW L, NEW n, NEW cur, NEW k \in DOMAIN a.loads, NEW answer, NEW o \in Outcome,
         Settling(a, S, L, n, cur), Ready(a.loads[k]), a.early # a.loads[k].pointer
  PROVE  Settled(a, SettlePending(a, k, answer, o), S, L, n, cur)
<1> SUFFICES LET b == SettlePending(a, k, answer, o)
             IN  /\ Settling(b, S, L, n, cur)
                 /\ b.result = "all" => Len(b.loads) = Len(a.loads) - 1
  BY DEF Settled
<1> DEFINE load == a.loads[k]
           s == load.pointer
           r == load.region
           A == LoadRegions(a.loads)
           q == RemoveAt(a.loads, k)
           B == LoadRegions(q)
           h == With(n, a.held)
           try == IF load.error THEN [x |-> a.x, result |-> "refused"] ELSE TryRegister(a.x, s, answer, o)
           x == try.x
           done == [x EXCEPT !.pending = @ \ {s}]
           g == [region |-> r, leases |-> 1, retired |-> FALSE]
           reg == [done EXCEPT !.registered[s] = g]
           raised == [a EXCEPT !.x = x, !.result = "raised"]
           kept == [a EXCEPT !.x = reg, !.loads = q, !.held = Append(@, s), !.created = @ \cup {s}]
           freed == [a EXCEPT !.x = Freed(done, {r}), !.loads = q,
                              !.result = IF try.result = "capacity" THEN "capacity" ELSE @]
           b == SettlePending(a, k, answer, o)
<1>1. b = IF try.result = "raised" THEN raised ELSE IF try.result = "registered" THEN kept ELSE freed
  BY DEF SettlePending
<1>2. /\ a \in Progress /\ a.loads \in Seq(CopyLoad) /\ a.held \in Seq(Storages) /\ a.x \in Memory
      /\ a.created \in SUBSET Storages /\ a.early \in Storages \cup {None}
      /\ a.result \in {"all", "capacity", "raised"}
  BY DEF Settling, Progress
<1>3. /\ load \in CopyLoad /\ load \in ToSet(a.loads) /\ s \in Storages /\ r \in Regions \cup {None}
  <2>1. load \in CopyLoad /\ load \in ToSet(a.loads)
    BY <1>2, ElementsFinite
  <2> HIDE DEF load
  <2> QED
    BY <2>1 DEF CopyLoad
<1>4. /\ q \in Seq(CopyLoad) /\ LoadsApart(q) /\ Len(q) = Len(a.loads) - 1
      /\ ToSet(q) = ToSet(a.loads) \ {load}
      /\ Pointers(q) = Pointers(a.loads) \ {s}
      /\ B = A \ {r}
  BY <1>2, LoadsLeave DEF Settling
<1>5. LoadRight(a.x, load, cur)
  BY DEF Settling, LoadsRight
<1> HIDE DEF load, q
<1>6. s \in Pointers(a.loads) /\ (r # None => r \in A) /\ A \subseteq Regions
  <2>1. \A l \in ToSet(a.loads) : l \in CopyLoad
    BY <1>2, ElementsFinite
  <2> QED
    BY <1>3, <2>1 DEF Pointers, LoadRegions, CopyLoad
<1>7. Shrunk(a.x, x, A, h, cur, None)
  <2>1. Good(a.x, A, h, cur)
    BY DEF Settling
  <2> HIDE DEF A, h, s
  <2>2. Shrunk(a.x, a.x, A, h, cur, None)
    BY <2>1 DEF Shrunk, Frame
  <2>3. Shrunk(a.x, TryRegister(a.x, s, answer, o).x, A, h, cur, None)
    BY <2>1, TryRegisterShrinks
  <2> QED
    BY <2>2, <2>3
<1> HIDE DEF try, A, B, h
<1>8. /\ Good(x, A, h, cur) /\ Frame(a.x, x, A) /\ x.pending = a.x.pending
      /\ x.registered[s].region = None /\ s \notin Tiered(x)
  <2>1. Good(x, A, h, cur) /\ Frame(a.x, x, A) /\ x.pending = a.x.pending
    BY <1>7 DEF Shrunk, Frame
  <2>2. s \in x.pending
    BY <1>6, <2>1 DEF Settling
  <2>3. x.registered[s].region = None
    BY <2>1, <2>2, GoodParts DEF Booked
  <2>4. s \notin Tiered(x)
    BY <2>1, <2>2, GoodParts DEF WithinTier, Occupied
  <2> QED
    BY <2>1, <2>3, <2>4
<1> HIDE DEF x
<1>9. LoadsRight(x, a.loads, cur) /\ LoadRight(x, load, cur)
  <2>1. LoadsRight(x, a.loads, cur)
    BY <1>2, <1>8, LoadsKept DEF A, Settling
  <2> QED
    BY <2>1 DEF LoadsRight, load
<1>10. /\ Good(done, A, h, cur) /\ done.pending = x.pending \ {s} /\ done.missed = x.missed
       /\ done.regions = x.regions /\ done.registered = x.registered /\ done.tier = x.tier
  <2> DEFINE V == {s}
  <2> HIDE DEF V, s
  <2>1. LET y == [x EXCEPT !.pending = @ \ V]
        IN  /\ Good(y, A, h, cur) /\ y.pending = x.pending \ V /\ y.missed = x.missed
            /\ y.regions = x.regions /\ y.registered = x.registered /\ y.tier = x.tier
    BY <1>8, PendingLeaves
  <2> QED
    BY <2>1 DEF V
<1>11. done.pending = Pointers(q)
  BY <1>4, <1>8, <1>10 DEF Settling
<1> HIDE DEF done
<1>12. LoadsRight(done, q, cur)
  <2>1. \A l \in ToSet(a.loads) : LoadRight(x, l, cur)
    BY <1>9 DEF LoadsRight, ToSet
  <2>2. \A l \in ToSet(q) : LoadRight(x, l, cur)
    BY <1>4, <2>1
  <2>3. ASSUME NEW l, LoadRight(x, l, cur)
        PROVE  LoadRight(done, l, cur)
    BY <1>10, <2>3 DEF LoadRight, Mixed
  <2>4. \A i \in DOMAIN q : q[i] \in ToSet(q)
    BY <1>4, ElementsFinite
  <2> QED
    BY <2>2, <2>3, <2>4 DEF LoadsRight
<1>13. B \subseteq A /\ r \notin B /\ (A = B \cup {r} \/ (r = None /\ A = B))
  <2>1. None \notin A
    BY DEF A, LoadRegions
  <2> QED
    BY <1>4, <1>6, <2>1
<1>14. a.early # None => \E l \in ToSet(q) : l.pointer = a.early /\ Ready(l)
  <2>1. a.early # s
    BY DEF load
  <2> QED
    BY <1>4, <2>1 DEF Settling
<1>15. Pointers(q) \subseteq S /\ ToSet(q) \subseteq L
  BY <1>4 DEF Settling
<1>16. CASE try.result = "raised"
  <2>1. x \in Memory
    BY <1>8, GoodParts
  <2>2. /\ raised.x = x /\ raised.loads = a.loads /\ raised.held = a.held /\ raised.created = a.created
        /\ raised.early = a.early /\ raised.result = "raised" /\ raised \in Progress
    BY <1>2, <2>1 DEF Progress
  <2> HIDE DEF raised
  <2>3. Settling(raised, S, L, n, cur)
    BY <1>8, <1>9, <2>2 DEF Settling, A, h
  <2> QED
    BY <1>1, <1>16, <2>2, <2>3
<1>17. CASE try.result = "registered"
  <2>1. ~load.error
    BY <1>17 DEF try
  <2>2. /\ r # None /\ ~Reclaiming(load) /\ load.missing = {} /\ ~load.offered
    BY <1>9, <2>1 DEF Ready, LoadRight, Reclaiming, load
  <2>3. r \in Regions /\ A = B \cup {r}
    BY <1>3, <1>13, <2>2
  <2>4. x.regions[r].state = "open" /\ (s \notin x.missed => Whole(x, r, s, cur))
    BY <1>9, <2>2 DEF LoadRight, Whole
  <2>5. s \notin ToSet(a.held)
    <3>1. h[s] = x.registered[s].leases /\ (h[s] > 0 => x.registered[s].region # None)
      BY <1>3, <1>8, GoodParts DEF Booked
    <3>2. n[s] \in Nat
      BY <1>3 DEF Settling
    <3> QED
      BY <1>3, <1>8, <3>1, <3>2 DEF h, With
  <2> DEFINE held == Append(a.held, s)
             m == With(n, held)
  <2>6. held \in Seq(Storages) /\ IsInjective(held) /\ ToSet(held) = ToSet(a.held) \cup {s}
    BY <1>2, <1>3, <2>5, ToSetAppend DEF Settling
  <2> HIDE DEF held
  <2>7. \A u \in Storages : m[u] = IF u = s THEN 1 ELSE h[u]
    <3>1. n[s] = 0
      <4>1. h[s] = x.registered[s].leases /\ (h[s] > 0 => x.registered[s].region # None)
        BY <1>3, <1>8, GoodParts DEF Booked
      <4>2. x.registered[s].leases \in Nat
        BY <1>3, <1>8, GoodParts, OwnedRegions
      <4>3. h[s] = 0
        BY <1>8, <4>1, <4>2
      <4> QED
        BY <1>3, <2>5, <4>3 DEF h, With
    <3> QED
      BY <1>3, <2>6, <3>1 DEF h, With
  <2> HIDE DEF m
  <2>8. Good(reg, B, m, cur) /\ Frame(done, reg, B)
    <3>1. /\ Good(done, B \cup {r}, h, cur) /\ r \notin B /\ done.registered[s].region = None
          /\ s \notin done.pending /\ s \notin Tiered(done) /\ done.regions[r].state = "open"
          /\ s \notin done.missed => Whole(done, r, s, cur)
      BY <1>4, <1>8, <1>10, <1>11, <1>13, <2>3, <2>4 DEF Tiered, Whole
    <3> HIDE DEF r, s
    <3> QED
      BY SMTT(40), <1>3, <2>3, <2>7, <3>1, RegistrationJoins
  <2> HIDE DEF reg
  <2>9. LoadsRight(reg, q, cur) /\ reg.pending = Pointers(q) /\ reg \in Memory
    <3>1. LoadsRight(reg, q, cur)
      BY <1>4, <1>12, <2>8, LoadsKept DEF B
    <3> QED
      BY <1>11, <2>8, <3>1, GoodParts DEF Frame
  <2>10. /\ kept.x = reg /\ kept.loads = q /\ kept.held = held /\ kept.early = a.early
         /\ kept.result = a.result /\ kept \in Progress
    BY <1>2, <1>3, <1>4, <2>6, <2>9 DEF Progress, held
  <2> HIDE DEF kept
  <2>11. ToSet(held) \subseteq S
    BY <1>6, <2>6 DEF Settling
  <2>12. Settling(kept, S, L, n, cur)
    BY <1>4, <1>14, <1>15, <2>6, <2>8, <2>9, <2>10, <2>11 DEF Settling, B, m
  <2> QED
    BY <1>1, <1>4, <1>17, <2>10, <2>12
<1>18. CASE try.result # "raised" /\ try.result # "registered"
  <2> DEFINE z == Freed(done, {r})
  <2>1. Good(done, B \cup {r}, h, cur) /\ B \cap {r} = {}
    <3>1. \A p \in Regions : p \in A <=> p \in B \cup {r}
      BY <1>13, Sizes
    <3>2. Good(done, B \cup {r}, h, cur)
      <4> DEFINE BB == B \cup {r}
      <4> HIDE DEF BB
      <4>1. Good(done, BB, h, cur)
        BY <1>10, <3>1, GoodSets DEF BB
      <4> QED
        BY <4>1 DEF BB
    <3> QED
      BY <1>13, <3>2
  <2>2. Good(z, B, h, cur) /\ Frame(done, z, B)
    <3> HIDE DEF r
    <3> QED
      BY <2>1, FreedKeeps
  <2> HIDE DEF z
  <2>3. LoadsRight(z, q, cur) /\ z.pending = Pointers(q) /\ z \in Memory
    <3>1. LoadsRight(z, q, cur)
      BY <1>4, <1>12, <2>2, LoadsKept DEF B
    <3> QED
      BY <1>11, <2>2, <3>1, GoodParts DEF Frame
  <2>4. /\ freed.x = z /\ freed.loads = q /\ freed.held = a.held /\ freed.early = a.early /\ freed \in Progress
    BY <1>2, <1>4, <2>3 DEF Progress, z
  <2> HIDE DEF freed
  <2>5. Settling(freed, S, L, n, cur)
    BY <1>4, <1>14, <1>15, <2>2, <2>3, <2>4 DEF Settling, B, h
  <2> QED
    BY <1>1, <1>4, <1>18, <2>4, <2>5
<1> QED
  BY <1>16, <1>17, <1>18


\* The next load that is ready is settled, if there is one.
LEMMA RegisterNextKeeps ==
  ASSUME NEW a, NEW S, NEW L, NEW n, NEW cur, NEW answers, NEW o \in Outcome, Settling(a, S, L, n, cur)
  PROVE  LET b == RegisterNext(a, answers, o)
         IN  /\ Settling(b, S, L, n, cur)
             /\ \/ b.result # "all" \/ b.loads = <<>> \/ Len(b.loads) = Len(a.loads) - 1
                \/ b = a /\ ~Ready(a.loads[1])
<1> DEFINE Stops == a.result # "all" \/ a.loads = <<>> \/ (~Ready(a.loads[1]) /\ a.early = None)
           k == IF Ready(a.loads[1]) THEN 1 ELSE Place(a.loads, a.early)
           load == a.loads[k]
           e == IF load.pointer = a.early THEN None ELSE a.early
           z == [a EXCEPT !.early = IF a.loads[k].pointer = @ THEN None ELSE @]
           b == RegisterNext(a, answers, o)
<1>1. b = IF Stops THEN a ELSE SettlePending(z, k, answers[load.pointer], o)
  BY DEF RegisterNext
<1>2. /\ a \in Progress /\ a.loads \in Seq(CopyLoad) /\ a.early \in Storages \cup {None}
  BY DEF Settling, Progress
<1>3. CASE Stops
  <2>1. b = a
    BY <1>1, <1>3
  <2> QED
    BY <1>3, <2>1
<1>4. CASE ~Stops
  <2>1. Len(a.loads) \in Nat /\ DOMAIN a.loads = 1 .. Len(a.loads) /\ a.loads # <<>>
    BY <1>2, <1>4, LenProperties
  <2>2. 1 \in DOMAIN a.loads
    BY <1>2, <2>1, EmptySeq
  <2>3. k \in DOMAIN a.loads /\ Ready(load)
    <3>1. CASE Ready(a.loads[1])
      BY <2>2, <3>1
    <3>2. CASE ~Ready(a.loads[1])
      <4>1. PICK l \in ToSet(a.loads) : l.pointer = a.early /\ Ready(l)
        BY <1>4, <3>2 DEF Settling
      <4>2. PICK i \in DOMAIN a.loads : a.loads[i] = l
        BY DEF ToSet
      <4>3. k = Place(a.loads, a.early)
        BY <3>2
      <4> HIDE DEF k
      <4>4. k \in DOMAIN a.loads /\ a.loads[k].pointer = a.early
        <5>1. \E j \in DOMAIN a.loads : a.loads[j].pointer = a.early
          BY <4>1, <4>2
        <5> QED
          BY <4>3, <5>1 DEF Place
      <4>5. k = i
        <5>1. LoadsApart(a.loads) /\ a.loads[k].pointer = a.loads[i].pointer
          BY <4>1, <4>2, <4>4 DEF Settling
        <5> QED
          BY <4>4, <5>1 DEF LoadsApart
      <4> QED
        BY <4>1, <4>2, <4>5
    <3> QED
      BY <3>1, <3>2
  <2> HIDE DEF k
  <2>4. load.pointer \in Storages /\ load.pointer # None
    <3>1. load \in CopyLoad
      BY <1>2, <2>3, ElementsFinite
    <3> HIDE DEF load
    <3> QED
      BY <3>1, Sizes DEF CopyLoad
  <2>5. /\ z.x = a.x /\ z.loads = a.loads /\ z.held = a.held /\ z.created = a.created /\ z.result = a.result
        /\ z.early = e /\ z \in Progress
    <3>1. z = [a EXCEPT !.early = e]
      BY <1>2 DEF Progress
    <3>2. e \in Storages \cup {None}
      BY <1>2
    <3> HIDE DEF z, e
    <3> QED
      BY <1>2, <3>1, <3>2 DEF Progress
  <2>6. z.early # load.pointer /\ (z.early # None => z.early = a.early)
    BY <2>4, <2>5
  <2> HIDE DEF z, e
  <2>7. Settling(z, S, L, n, cur)
    BY <2>5, <2>6 DEF Settling
  <2> DEFINE answer == answers[load.pointer]
             c == SettlePending(z, k, answer, o)
  <2> HIDE DEF answer
  <2>8. Settling(c, S, L, n, cur) /\ (c.result = "all" => Len(c.loads) = Len(z.loads) - 1)
    <3>1. k \in DOMAIN z.loads /\ Ready(z.loads[k]) /\ z.early # z.loads[k].pointer
      BY <2>3, <2>5, <2>6
    <3>2. Settled(z, c, S, L, n, cur)
      BY <2>7, <3>1, SettlePendingKeeps
    <3> QED
      BY <3>2 DEF Settled
  <2>9. b = c
    BY <1>1, <1>4 DEF answer
  <2> HIDE DEF b, c
  <2> QED
    BY <2>5, <2>8, <2>9 DEF b
<1> QED
  BY <1>3, <1>4

\* What is left of c's loads, in b, when those that were ready have been settled.
Enlisted(b, c, S, n, cur) ==
  /\ Settling(b, S, ToSet(c.loads), n, cur)
  /\ (\A l \in ToSet(c.loads) : Ready(l)) /\ b.result = "all" => b.loads = <<>>

\* When every load is ready, and none is refused for capacity or raises, none is left.
LEMMA RegisterPendingKeeps ==
  ASSUME NEW x, NEW c, NEW S, NEW n, NEW cur, NEW early, NEW answers, NEW o \in Outcome,
         NEW a, Settling(a, S, ToSet(c.loads), n, cur),
         a = [x |-> x, loads |-> c.loads, held |-> c.held, created |-> c.created, early |-> early, result |-> "all"]
  PROVE  Enlisted(RegisterPending(x, c, early, answers, o), c, S, n, cur)
<1> DEFINE N == Len(c.loads)
           L == ToSet(c.loads)
           AllReady == \A l \in L : Ready(l)
           base == [x |-> x, loads |-> c.loads, held |-> c.held, created |-> c.created, early |-> early, result |-> "all"]
           Few(d, k) == AllReady /\ d.result = "all" => Len(d.loads) <= N - k
           X == [k \in 0 .. N |-> {d \in Progress : Settling(d, S, L, n, cur) /\ Few(d, k)}]
           step == [k \in 1 .. N |-> [d \in X[k - 1] |-> RegisterNext(d, answers, o)]]
           Solves(g) == g = [k \in 0 .. N |-> IF k = 0 THEN base ELSE RegisterNext(g[k - 1], answers, o)]
<1>1. base \in Progress /\ base.loads = c.loads /\ Settling(base, S, L, n, cur)
  <2> HIDE DEF L
  <2>1. Settling(base, S, L, n, cur)
    <3>1. a = base
      OBVIOUS
    <3> HIDE DEF base
    <3> QED
      BY <3>1 DEF L
  <2> QED
    BY <2>1 DEF Settling
<1> HIDE DEF base
<1>2. c.loads \in Seq(CopyLoad) /\ N \in Nat
  <2>1. c.loads \in Seq(CopyLoad)
    BY <1>1 DEF Progress
  <2> QED
    BY <2>1, LenProperties
<1> HIDE DEF L
<1>3. base \in X[0]
  <2>1. Few(base, 0) /\ 0 \in 0 .. N
    BY <1>1, <1>2
  <2> HIDE DEF Few
  <2> QED
    BY <1>1, <2>1
<1>4. ASSUME NEW k \in 1 .. N, NEW d \in X[k - 1]
      PROVE  RegisterNext(d, answers, o) \in X[k]
  <2> DEFINE b == RegisterNext(d, answers, o)
  <2>1. k - 1 \in 0 .. N /\ k \in 0 .. N
    BY <1>2
  <2>2. Settling(d, S, L, n, cur) /\ Few(d, k - 1)
    <3> HIDE DEF Few
    <3> QED
      BY <2>1
  <2>3. /\ Settling(b, S, L, n, cur)
        /\ \/ b.result # "all" \/ b.loads = <<>> \/ Len(b.loads) = Len(d.loads) - 1
           \/ b = d /\ ~Ready(d.loads[1])
    BY <2>2, RegisterNextKeeps
  <2> HIDE DEF b
  <2>4. d.loads \in Seq(CopyLoad) /\ b.loads \in Seq(CopyLoad) /\ Len(d.loads) \in Nat
    <3>1. d.loads \in Seq(CopyLoad) /\ b.loads \in Seq(CopyLoad)
      BY <2>2, <2>3 DEF Settling, Progress
    <3> QED
      BY <3>1, LenProperties
  <2>5. Few(b, k)
    <3>1. SUFFICES ASSUME AllReady, b.result = "all"
                   PROVE  Len(b.loads) <= N - k
      OBVIOUS
    <3>2. CASE b.loads = <<>>
      <4>1. Len(b.loads) = 0
        BY <3>2, EmptySeq
      <4> QED
        BY <1>2, <4>1
    <3>3. CASE b.loads # <<>> /\ Len(b.loads) = Len(d.loads) - 1
      <4>1. d.result = "all"
        <5>1. CASE d.result # "all"
          <6>1. b = d
            BY <5>1 DEF b, RegisterNext
          <6> QED
            BY <3>1, <5>1, <6>1
        <5> QED
          BY <5>1
      <4>2. Len(d.loads) <= N - (k - 1)
        BY <2>2, <3>1, <4>1
      <4> QED
        BY <1>2, <2>4, <3>3, <4>2
    <3>4. CASE b.loads # <<>> /\ b = d /\ ~Ready(d.loads[1])
      <4>1. 1 \in DOMAIN d.loads
        BY <2>4, <3>4, EmptySeq, LenProperties
      <4>2. d.loads[1] \in L
        <5>1. d.loads[1] \in ToSet(d.loads)
          BY <4>1 DEF ToSet
        <5> QED
          BY <2>2, <5>1 DEF Settling
      <4> QED
        BY <3>1, <3>4, <4>2
    <3> QED
      BY <2>3, <3>1, <3>2, <3>3, <3>4
  <2>6. b \in Progress
    BY <2>3 DEF Settling
  <2> HIDE DEF Few
  <2> QED
    BY <2>1, <2>3, <2>5, <2>6 DEF b
<1> HIDE DEF X
<1>5. \A k \in 1 .. N : \A d \in X[k - 1] : step[k][d] = RegisterNext(d, answers, o)
  OBVIOUS
<1>6. \A k \in 1 .. N : k - 1 \in 0 .. N /\ k # 0
  BY <1>2
<1>7. \E g : Solves(g)
  <2>1. \A k \in 1 .. N : \A d \in X[k - 1] : step[k][d] \in X[k]
    BY <1>4, <1>5
  <2> HIDE DEF step
  <2>2. PICK f : Runs(f, N, base, step, X)
    BY <1>2, <1>3, <2>1, Iterates
  <2>3. \A k \in 0 .. N : k # 0 => k \in 1 .. N
    BY <1>2
  <2>4. \A k \in 0 .. N : k # 0 => step[k][f[k - 1]] = RegisterNext(f[k - 1], answers, o)
    BY <1>5, <1>6, <2>2, <2>3 DEF Runs
  <2>5. Solves(f)
    BY <2>2, <2>4 DEF Runs
  <2> HIDE DEF Solves
  <2> QED
    BY <2>5
<1> DEFINE g == CHOOSE g : Solves(g)
<1>8. Solves(g)
  BY <1>7
<1>9. RegisterPending(x, c, early, answers, o) = g[N]
  BY DEF RegisterPending, base
<1> HIDE DEF g
<1> DEFINE G == {i \in 0 .. N : g[i] \in X[i]}
<1>10. 0 \in G
  BY <1>2, <1>3, <1>8
<1>11. ASSUME NEW k \in 1 .. N, k - 1 \in G
       PROVE  k \in G
  <2>1. k \in 0 .. N /\ k # 0
    BY <1>2
  <2>2. g[k] = RegisterNext(g[k - 1], answers, o)
    BY <1>8, <2>1
  <2>3. g[k - 1] \in X[k - 1]
    BY <1>11
  <2> HIDE DEF Solves
  <2>4. g[k] \in X[k]
    BY <1>4, <2>2, <2>3
  <2> QED
    BY <2>1, <2>4
<1>12. \A k \in 0 .. N : k \in G
  <2> HIDE DEF G
  <2> QED
    BY <1>2, <1>10, <1>11, UpTo
<1>13. N \in 0 .. N /\ g[N] \in X[N]
  BY <1>2, <1>12
<1>14. Settling(g[N], S, L, n, cur) /\ Few(g[N], N)
  <2> HIDE DEF Few
  <2> QED
    BY <1>13 DEF X
<1>15. AllReady /\ g[N].result = "all" => g[N].loads = <<>>
  <2>1. SUFFICES ASSUME AllReady, g[N].result = "all"
                 PROVE  g[N].loads = <<>>
    OBVIOUS
  <2>2. Len(g[N].loads) <= 0
    BY <1>2, <1>14, <2>1
  <2>3. g[N].loads \in Seq(CopyLoad)
    BY <1>14 DEF Settling, Progress
  <2>4. Len(g[N].loads) = 0
    BY <2>2, <2>3, LenProperties
  <2> QED
    BY <2>3, <2>4, EmptySeq
<1> QED
  BY <1>9, <1>14, <1>15 DEF L, Enlisted


-----------------------------------------------------------------------------
(* The steps of a thread *)

\* The leases of the other threads, and what those load.
Others(cl, t) == [s \in Storages |-> Cardinality({u \in Threads \ {t} : s \in ToSet(cl[u].held)})]
Apart(cl, t) == UNION {LoadRegions(cl[u].loads) : u \in Threads \ {t}}
Awaited(cl, t) == UNION {Pointers(cl[u].loads) : u \in Threads \ {t}}

\* Nothing is loaded by an empty sequence of loads.
LEMMA NoLoads == LoadRegions(<<>>) = {} /\ Pointers(<<>>) = {} /\ DOMAIN <<>> = {} /\ ToSet(<<>>) = {}
<1>1. ToSet(<<>>) = {}
  BY ToSetEmpty, EmptySeq
<1> QED
  BY <1>1 DEF LoadRegions, Pointers, ToSet

\* A lease is the thread's or another's.
LEMMA LeasesSplit ==
  ASSUME NEW cl, NEW t \in Threads
  PROVE  Leases(cl) = With(Others(cl, t), cl[t].held) /\ Others(cl, t) \in [Storages -> Nat]
<1>1. ASSUME NEW s \in Storages
      PROVE  /\ Cardinality({u \in Threads \ {t} : s \in ToSet(cl[u].held)}) \in Nat
             /\ Cardinality({u \in Threads : s \in ToSet(cl[u].held)})
                  = IF s \in ToSet(cl[t].held) THEN Cardinality({u \in Threads \ {t} : s \in ToSet(cl[u].held)}) + 1
                    ELSE Cardinality({u \in Threads \ {t} : s \in ToSet(cl[u].held)})
  <2> DEFINE U == {u \in Threads \ {t} : s \in ToSet(cl[u].held)}
             V == {u \in Threads : s \in ToSet(cl[u].held)}
  <2>1. IsFiniteSet(U) /\ t \notin U
    <3>1. IsFiniteSet(Threads)
      BY OfferedAssumption
    <3>2. U \subseteq Threads /\ t \notin U
      OBVIOUS
    <3> HIDE DEF U
    <3> QED
      BY <3>1, <3>2, FS_Subset
  <2>2. Cardinality(U) \in Nat /\ Cardinality(U \cup {t}) = Cardinality(U) + 1
    <3> HIDE DEF U
    <3> QED
      BY <2>1, FS_CardinalityType, FS_AddElement
  <2>3. V = IF s \in ToSet(cl[t].held) THEN U \cup {t} ELSE U
    OBVIOUS
  <2> HIDE DEF U, V
  <2>4. Cardinality(U) \in Nat /\ Cardinality(V) = IF s \in ToSet(cl[t].held) THEN Cardinality(U) + 1 ELSE Cardinality(U)
    BY <2>2, <2>3
  <2> QED
    BY <2>4 DEF U, V
<1> QED
  BY <1>1 DEF Leases, With, Others

\* What the threads load is what one of them does and what the others do.
LEMMA LoadingSplit ==
  ASSUME NEW cl, NEW t \in Threads
  PROVE  /\ Loading(cl) = LoadRegions(cl[t].loads) \cup Apart(cl, t)
         /\ UNION {Pointers(cl[u].loads) : u \in Threads} = Pointers(cl[t].loads) \cup Awaited(cl, t)
<1>1. \A f : UNION {f[u] : u \in Threads} = f[t] \cup UNION {f[u] : u \in Threads \ {t}}
  <2>1. ASSUME NEW f
        PROVE  UNION {f[u] : u \in Threads} = f[t] \cup UNION {f[u] : u \in Threads \ {t}}
    <3>1. {f[u] : u \in Threads} = {f[t]} \cup {f[u] : u \in Threads \ {t}}
      OBVIOUS
    <3> QED
      BY <3>1
  <2> QED
    BY <2>1
<1>2. {LoadRegions(cl[u].loads) : u \in Threads} = {LoadRegions(cl[t].loads)} \cup {LoadRegions(cl[u].loads) : u \in Threads \ {t}}
  OBVIOUS
<1>3. {Pointers(cl[u].loads) : u \in Threads} = {Pointers(cl[t].loads)} \cup {Pointers(cl[u].loads) : u \in Threads \ {t}}
  OBVIOUS
<1> QED
  BY <1>2, <1>3 DEF Loading, Apart, Awaited

\* A step of thread t that leaves the others' loads alone.
LEMMA ThreadStep ==
  ASSUME NEW x, NEW y, NEW cl, NEW cur, NEW t \in Threads, NEW c \in Call, Sound(x, cl, cur),
         Good(y, LoadRegions(c.loads) \cup Apart(cl, t), With(Others(cl, t), c.held), cur),
         CallRight(y, c, cur), Spares(x, y, Apart(cl, t)) \/ \A u \in Threads : u # t => cl[u].loads = <<>>,
         y.pending = Pointers(c.loads) \cup Awaited(cl, t),
         c.loads = <<>> \/ \A u \in Threads : u # t => cl[u].loads = <<>>
  PROVE  Sound(y, [cl EXCEPT ![t] = c], cur)
<1> DEFINE d == [cl EXCEPT ![t] = c]
<1>1. cur \in [Storages -> Nat] /\ cl \in [Threads -> Call]
  BY DEF Sound
<1>2. d \in [Threads -> Call] /\ d[t] = c /\ \A u \in Threads : u # t => d[u] = cl[u]
  BY <1>1
<1> HIDE DEF d
<1>3. Others(d, t) = Others(cl, t) /\ Apart(d, t) = Apart(cl, t) /\ Awaited(d, t) = Awaited(cl, t)
  <2>1. \A u \in Threads \ {t} : d[u] = cl[u]
    BY <1>2
  <2>2. \A s \in Storages : {u \in Threads \ {t} : s \in ToSet(d[u].held)} = {u \in Threads \ {t} : s \in ToSet(cl[u].held)}
    BY <2>1
  <2>3. {LoadRegions(d[u].loads) : u \in Threads \ {t}} = {LoadRegions(cl[u].loads) : u \in Threads \ {t}}
    BY <2>1
  <2>4. {Pointers(d[u].loads) : u \in Threads \ {t}} = {Pointers(cl[u].loads) : u \in Threads \ {t}}
    BY <2>1
  <2> QED
    BY <2>2, <2>3, <2>4 DEF Others, Apart, Awaited
<1>4. Leases(d) = With(Others(cl, t), c.held) /\ Loading(d) = LoadRegions(c.loads) \cup Apart(cl, t)
      /\ UNION {Pointers(d[u].loads) : u \in Threads} = Pointers(c.loads) \cup Awaited(cl, t)
  BY <1>2, <1>3, LeasesSplit, LoadingSplit
<1>5. ASSUME NEW u \in Threads, u # t
      PROVE  CallRight(y, cl[u], cur)
  <2>1. CallRight(x, cl[u], cur)
    BY DEF Sound
  <2>2. cl[u].loads \in Seq(CopyLoad)
    BY <1>1 DEF Call
  <2>3. LoadRegions(cl[u].loads) \subseteq Apart(cl, t)
    BY <1>5 DEF Apart
  <2>4. LoadsRight(y, cl[u].loads, cur)
    <3>1. CASE cl[u].loads = <<>>
      BY <3>1, NoLoads DEF LoadsRight
    <3>2. CASE Spares(x, y, Apart(cl, t))
      BY <2>1, <2>2, <2>3, <3>2, LoadsSpared DEF CallRight
    <3> QED
      BY <1>5, <3>1, <3>2
  <2> QED
    BY <2>1, <2>4 DEF CallRight
<1>6. \A u \in Threads : CallRight(y, d[u], cur)
  BY <1>2, <1>5
<1>7. \A u, w \in Threads : u # w => d[u].loads = <<>> \/ d[w].loads = <<>>
  <2>1. \A u, w \in Threads : u # w => cl[u].loads = <<>> \/ cl[w].loads = <<>>
    BY DEF Sound
  <2> QED
    BY <1>2, <2>1
<1>8. Good(y, Loading(d), Leases(d), cur)
  BY <1>4
<1>9. y.pending = UNION {Pointers(d[u].loads) : u \in Threads}
  BY <1>4
<1>10. Sound(y, d, cur)
  BY <1>1, <1>2, <1>6, <1>7, <1>8, <1>9 DEF Sound
<1> QED
  BY <1>10 DEF d

\* A step of no thread.
LEMMA MemoryStep ==
  ASSUME NEW x, NEW y, NEW cl, NEW cur, Sound(x, cl, cur),
         Good(y, Loading(cl), Leases(cl), cur), Spares(x, y, Loading(cl)), y.pending = x.pending
  PROVE  Sound(y, cl, cur)
<1>1. cl \in [Threads -> Call]
  BY DEF Sound
<1>2. ASSUME NEW u \in Threads
      PROVE  CallRight(y, cl[u], cur)
  <2>1. CallRight(x, cl[u], cur)
    BY DEF Sound
  <2>2. cl[u].loads \in Seq(CopyLoad)
    BY <1>1 DEF Call
  <2>3. LoadRegions(cl[u].loads) \subseteq Loading(cl)
    BY DEF Loading
  <2>4. LoadsRight(y, cl[u].loads, cur)
    BY <2>1, <2>2, <2>3, LoadsSpared DEF CallRight
  <2> QED
    BY <2>1, <2>4 DEF CallRight
<1> QED
  BY <1>2 DEF Sound

\* What is known of thread t before its step.
LEMMA SoundParts ==
  ASSUME NEW x, NEW cl, NEW cur, NEW t \in Threads, Sound(x, cl, cur)
  PROVE  /\ cl \in [Threads -> Call] /\ cl[t] \in Call /\ cur \in [Storages -> Nat]
         /\ Good(x, LoadRegions(cl[t].loads) \cup Apart(cl, t), With(Others(cl, t), cl[t].held), cur)
         /\ CallRight(x, cl[t], cur) /\ Others(cl, t) \in [Storages -> Nat]
         /\ x.pending = Pointers(cl[t].loads) \cup Awaited(cl, t)
         /\ cl[t].loads = <<>> \/ (/\ Apart(cl, t) = {} /\ Awaited(cl, t) = {}
                                   /\ \A u \in Threads : u # t => cl[u].loads = <<>>)
<1>1. cl \in [Threads -> Call] /\ cl[t] \in Call /\ cur \in [Storages -> Nat] /\ CallRight(x, cl[t], cur)
  BY DEF Sound
<1>2. Others(cl, t) \in [Storages -> Nat] /\ Leases(cl) = With(Others(cl, t), cl[t].held)
  BY LeasesSplit
<1>3. Good(x, LoadRegions(cl[t].loads) \cup Apart(cl, t), With(Others(cl, t), cl[t].held), cur)
  <2>1. Good(x, Loading(cl), Leases(cl), cur) /\ Loading(cl) = LoadRegions(cl[t].loads) \cup Apart(cl, t)
    BY LoadingSplit DEF Sound
  <2> QED
    BY <1>2, <2>1
<1>4. x.pending = Pointers(cl[t].loads) \cup Awaited(cl, t)
  BY LoadingSplit DEF Sound
<1>5. CASE cl[t].loads # <<>>
  <2>1. \A u \in Threads : u # t => cl[u].loads = <<>>
    BY <1>5 DEF Sound
  <2>2. \A u \in Threads \ {t} : LoadRegions(cl[u].loads) = {} /\ Pointers(cl[u].loads) = {}
    BY <2>1, NoLoads
  <2>3. Apart(cl, t) = {} /\ Awaited(cl, t) = {}
    BY <2>2 DEF Apart, Awaited
  <2> QED
    BY <1>1, <1>2, <1>3, <1>4, <2>1, <2>3
<1>6. CASE cl[t].loads = <<>>
  BY <1>1, <1>2, <1>3, <1>4, <1>6
<1> QED
  BY <1>5, <1>6


\* What the environment may decide.
LEMMA OutcomeType == ASSUME NEW b PROVE Outcomes(b) \subseteq Outcome
<1>1. Undecided \in Outcome
  BY DEF Undecided, Outcome
<1>2. Outcomes(b) = IF b /\ memory.maxOffered > 0 THEN {o \in Outcome : o.collected => o.offered} ELSE {Undecided}
  BY Zenon DEF Outcomes, Outcome
<1> QED
  BY <1>1, <1>2

\* Who loads no storage loads nothing.
LEMMA NoPointers == ASSUME NEW loads \in Seq(CopyLoad), Pointers(loads) = {} PROVE loads = <<>>
<1>1. ASSUME loads # <<>> PROVE FALSE
  <2>1. 1 \in 1 .. Len(loads)
    BY <1>1
  <2>2. loads[1] \in ToSet(loads)
    BY <2>1, ElementsFinite
  <2> QED
    BY <2>2 DEF Pointers
<1> QED
  BY <1>1

\* A sequence over nothing is empty.
LEMMA NoElements == ASSUME NEW S, NEW q \in Seq(S), ToSet(q) = {} PROVE q = <<>>
<1>1. ASSUME q # <<>> PROVE FALSE
  <2>1. 1 \in 1 .. Len(q)
    BY <1>1
  <2>2. q[1] \in ToSet(q)
    BY <2>1, ElementsFinite
  <2> QED
    BY <2>2
<1> QED
  BY <1>1

\* Without a lease of its own, the thread adds nothing to the others' leases.
LEMMA NoHeld == ASSUME NEW n \in [Storages -> Nat] PROVE With(n, <<>>) = n
  BY NoLoads DEF With

\* While nothing is pending, nobody loads.
LEMMA NothingPending ==
  ASSUME NEW x, NEW cl, NEW cur, NEW t \in Threads, Sound(x, cl, cur), x.pending = {}
  PROVE  Apart(cl, t) = {} /\ Awaited(cl, t) = {} /\ \A u \in Threads : cl[u].loads = <<>>
<1>1. ASSUME NEW u \in Threads
      PROVE  cl[u].loads = <<>>
  <2>1. cl[u].loads \in Seq(CopyLoad) /\ Pointers(cl[u].loads) \subseteq x.pending
    BY DEF Sound, Call
  <2> QED
    BY <2>1, NoPointers
<1>2. \A u \in Threads \ {t} : LoadRegions(cl[u].loads) = {} /\ Pointers(cl[u].loads) = {}
  BY <1>1, NoLoads
<1> QED
  BY <1>1, <1>2 DEF Apart, Awaited

\* What an acquisition may request.
LEMMA RequestType == \A q \in Requests : q \in Seq(Storages) /\ IsInjective(q)
  BY OfferedAssumption

\* A thread without a call.
LEMMA NoCallType == NoCall \in Call
  BY DEF NoCall, Call

\* An acquisition leases what it finds and reserves copies of the rest.
LEMMA AcquireSound == ASSUME NEW t \in Threads, IInv, Acquire(t) PROVE IInv'
<1> DEFINE Held(q) == Lacking(q, {s \in ToSet(q) : memory.registered[s].region = None})
           A(q, outcome, o) == ReserveAll(Hold(memory, Held(q)), q, t, outcome, o)
           C(q, a) == [NoCall EXCEPT !.pc = "offering", !.request = q, !.held = Held(q), !.loads = a.loads]
<1>1. PICK q \in Requests, outcome \in Allocations, o \in Outcomes(memory.tier # <<>>) :
        /\ call[t].pc = "idle" /\ memory.pending = {}
        /\ memory' = A(q, outcome, o).x /\ call' = [call EXCEPT ![t] = C(q, A(q, outcome, o))]
        /\ current' = current
  BY ZenonT(60) DEF Acquire
<1> DEFINE held == Held(q)
           a == A(q, outcome, o)
           c == C(q, a)
<1>2. q \in Seq(Storages) /\ IsInjective(q) /\ o \in Outcome
  BY RequestType, OutcomeType
<1>3. Sound(memory, call, current)
  BY DEF IInv
<1>4. /\ call[t] \in Call /\ CallRight(memory, call[t], current) /\ Others(call, t) \in [Storages -> Nat]
      /\ Good(memory, LoadRegions(call[t].loads) \cup Apart(call, t), With(Others(call, t), call[t].held), current)
  BY <1>3, SoundParts
<1>5. Apart(call, t) = {} /\ Awaited(call, t) = {} /\ \A u \in Threads : call[u].loads = <<>>
  BY <1>1, <1>3, NothingPending
<1>6. call[t].held = <<>>
  BY <1>1, <1>4 DEF CallRight
<1>7. Good(memory, {}, Others(call, t), current)
  <2>1. LoadRegions(call[t].loads) \cup Apart(call, t) = {}
    BY <1>5, NoLoads
  <2> QED
    BY <1>4, <1>6, <2>1, NoHeld
<1>8. held \in Seq(Storages) /\ IsInjective(held) /\ ToSet(held) \subseteq ToSet(q)
      /\ \A s \in ToSet(held) : memory.registered[s].region # None
  <2> DEFINE V == {s \in ToSet(q) : memory.registered[s].region = None}
  <2>1. IsFiniteSet(V)
    <3>1. IsFiniteSet(ToSet(q)) /\ V \subseteq ToSet(q)
      BY <1>2, ElementsFinite
    <3> HIDE DEF V
    <3> QED
      BY <3>1, FS_Subset
  <2>2. held = Lacking(q, V)
    OBVIOUS
  <2>3. held \in Seq(Storages) /\ IsInjective(held) /\ ToSet(held) = ToSet(q) \ V
    <3> HIDE DEF V, held
    <3> QED
      BY <1>2, <2>1, <2>2, LackingElements
  <2> HIDE DEF held
  <2> QED
    BY <2>3
<1> DEFINE m == With(Others(call, t), held)
           y == Hold(memory, held)
<1>9. Good(y, {}, m, current) /\ y.pending = {}
  <2>1. \A s \in Storages : m[s] = IF s \in ToSet(held) THEN Others(call, t)[s] + 1 ELSE Others(call, t)[s]
    BY DEF With
  <2> HIDE DEF held, m
  <2>2. Good(y, {}, m, current) /\ Frame(memory, y, {})
    BY <1>7, <1>8, <2>1, HoldKeeps
  <2> QED
    BY <1>1, <2>2 DEF Frame
<1>10. Reserving(a, ToSet(q), m, current)
  <2>1. a = ReserveAll(y, q, t, outcome, o)
    OBVIOUS
  <2> HIDE DEF a, y, m
  <2> QED
    BY <1>2, <1>9, <2>1, ReserveAllKeeps
<1>11. Sound(a.x, [call EXCEPT ![t] = c], current)
  <2>1. c \in Call /\ c.loads = a.loads /\ c.held = held /\ c.request = q /\ c.pc = "offering"
    <3>1. a.loads \in Seq(CopyLoad)
      BY <1>10 DEF Reserving
    <3>2. c = [NoCall EXCEPT !.pc = "offering", !.request = q, !.held = held, !.loads = a.loads]
      OBVIOUS
    <3> HIDE DEF a, held, c
    <3> QED
      BY <1>2, <1>8, <3>1, <3>2, NoCallType DEF Call
  <2> HIDE DEF c, a, held
  <2>2. Good(a.x, LoadRegions(c.loads) \cup Apart(call, t), With(Others(call, t), c.held), current)
    BY <1>5, <1>10, <2>1 DEF Reserving
  <2>3. CallRight(a.x, c, current)
    BY <1>8, <1>10, <2>1 DEF Reserving, CallRight
  <2>4. a.x.pending = Pointers(c.loads) \cup Awaited(call, t)
    BY <1>5, <1>10, <2>1 DEF Reserving
  <2>5. \A u \in Threads : u # t => call[u].loads = <<>>
    BY <1>5
  <2> QED
    BY <1>3, <2>1, <2>2, <2>3, <2>4, <2>5, ThreadStep
<1>12. memory' = a.x /\ call' = [call EXCEPT ![t] = c] /\ current' = current
  BY <1>1
<1> HIDE DEF a, c
<1> QED
  BY ZenonT(60), <1>11, <1>12 DEF IInv


\* Thread t's call is over: its registrations are released.
LEMMA CallEnds ==
  ASSUME NEW x, NEW w, NEW cl, NEW cur, NEW t \in Threads, NEW o \in Outcome, Sound(x, cl, cur),
         Good(w, Apart(cl, t), With(Others(cl, t), cl[t].held), cur), Spares(x, w, Apart(cl, t)),
         w.pending = Awaited(cl, t)
  PROVE  Sound(Release(w, cl[t].held, o), [cl EXCEPT ![t] = NoCall], cur)
<1> DEFINE y == Release(w, cl[t].held, o)
           n == With(Others(cl, t), cl[t].held)
<1>1. cl[t] \in Call /\ CallRight(x, cl[t], cur) /\ Others(cl, t) \in [Storages -> Nat]
  BY SoundParts
<1>2. cl[t].held \in Seq(Storages) /\ IsInjective(cl[t].held) /\ ToSet(cl[t].held) \subseteq Storages
  <2>1. cl[t].held \in Seq(Storages) /\ IsInjective(cl[t].held)
    BY <1>1 DEF Call, CallRight
  <2> QED
    BY <2>1, ElementsFinite
<1>3. /\ \A s \in ToSet(cl[t].held) : n[s] > 0
      /\ \A s \in Storages : Others(cl, t)[s] = IF s \in ToSet(cl[t].held) THEN n[s] - 1 ELSE n[s]
  BY <1>1, <1>2 DEF With
<1> HIDE DEF n, y
<1>4. Shrunk(w, y, Apart(cl, t), Others(cl, t), cur, None)
  BY <1>2, <1>3, ReleaseKeeps DEF y, n
<1>5. Good(y, LoadRegions(NoCall.loads) \cup Apart(cl, t), With(Others(cl, t), NoCall.held), cur)
  <2>1. LoadRegions(NoCall.loads) = {} /\ With(Others(cl, t), NoCall.held) = Others(cl, t)
    BY <1>1, NoLoads, NoHeld DEF NoCall
  <2> QED
    BY <1>4, <2>1 DEF Shrunk
<1>6. CallRight(y, NoCall, cur)
  <2>1. IsInjective(<<>>) /\ ToSet(<<>>) = {} /\ Pointers(<<>>) = {} /\ LoadsApart(<<>>) /\ LoadsRight(y, <<>>, cur)
    BY NoLoads DEF IsInjective, LoadsApart, LoadsRight
  <2> QED
    BY <2>1 DEF CallRight, NoCall
<1>7. Spares(x, y, Apart(cl, t)) /\ y.pending = Awaited(cl, t)
  BY <1>4 DEF Shrunk, Frame, Spares
<1>8. NoCall.loads = <<>> /\ Pointers(NoCall.loads) = {}
  BY NoLoads DEF NoCall
<1>9. Sound(y, [cl EXCEPT ![t] = NoCall], cur)
  BY <1>5, <1>6, <1>7, <1>8, NoCallType, ThreadStep
<1> QED
  BY <1>9 DEF y

\* Closing a lease releases what it holds.
LEMMA CloseLeaseSound == ASSUME NEW t \in Threads, IInv, CloseLease(t) PROVE IInv'
<1>1. PICK o \in Outcomes(OverBudget) :
        /\ call[t].pc = "leased" /\ memory' = Release(memory, call[t].held, o)
        /\ call' = [call EXCEPT ![t] = NoCall] /\ current' = current
  BY DEF CloseLease
<1>2. o \in Outcome
  BY OutcomeType
<1>3. Sound(memory, call, current)
  BY DEF IInv
<1>4. /\ CallRight(memory, call[t], current) /\ memory.pending = Pointers(call[t].loads) \cup Awaited(call, t)
      /\ Good(memory, LoadRegions(call[t].loads) \cup Apart(call, t), With(Others(call, t), call[t].held), current)
  BY <1>3, SoundParts
<1>5. call[t].loads = <<>>
  BY <1>1, <1>4 DEF CallRight
<1>6. /\ Good(memory, Apart(call, t), With(Others(call, t), call[t].held), current)
      /\ memory.pending = Awaited(call, t) /\ Spares(memory, memory, Apart(call, t))
  BY <1>4, <1>5, NoLoads DEF Spares
<1>7. Sound(Release(memory, call[t].held, o), [call EXCEPT ![t] = NoCall], current)
  BY <1>2, <1>3, <1>6, CallEnds
<1> QED
  BY <1>1, <1>7 DEF IInv

\* What is still pending is freed; after an exception the call's registrations go.
LEMMA DiscardPendingSound == ASSUME NEW t \in Threads, IInv, DiscardPending(t) PROVE IInv'
<1> DEFINE loads == call[t].loads
           less == [memory EXCEPT !.pending = @ \ Pointers(loads)]
           freed == Freed(less, {l.region : l \in ToSet(loads)})
           retired == [freed EXCEPT !.registered = [s \in Storages |->
                         IF s \in call[t].created THEN [freed.registered[s] EXCEPT !.retired = TRUE]
                         ELSE freed.registered[s]]]
           c == [call[t] EXCEPT !.pc = "leased", !.loads = <<>>]
           n == With(Others(call, t), call[t].held)
<1>1. PICK o \in Outcomes(OverBudget) :
        /\ \/ (memory' = freed /\ call' = [call EXCEPT ![t] = c])
           \/ (memory' = Release(retired, call[t].held, o) /\ call' = [call EXCEPT ![t] = NoCall])
        /\ current' = current
  BY DEF DiscardPending
<1>2. o \in Outcome
  BY OutcomeType
<1>3. Sound(memory, call, current)
  BY DEF IInv
<1>4. /\ call[t] \in Call /\ CallRight(memory, call[t], current) /\ Others(call, t) \in [Storages -> Nat]
      /\ memory.pending = Pointers(loads) \cup Awaited(call, t)
      /\ Good(memory, LoadRegions(loads) \cup Apart(call, t), n, current)
      /\ loads = <<>> \/ (Apart(call, t) = {} /\ Awaited(call, t) = {})
  BY <1>3, SoundParts
<1>5. Good(freed, Apart(call, t), n, current) /\ Frame(less, freed, Apart(call, t))
  <2> DEFINE R == {l.region : l \in ToSet(loads)}
             E == Apart(call, t)
  <2>1. Good(less, LoadRegions(loads) \cup E, n, current)
    <3> HIDE DEF n, E, loads
    <3> QED
      BY <1>4, PendingLeaves DEF E, loads
  <2>2. LoadRegions(loads) = R \ {None}
    BY DEF LoadRegions
  <2>3. E \cap R = {}
    BY <1>4, NoLoads
  <2>4. \A r \in Regions : r \in LoadRegions(loads) \cup E <=> r \in E \cup R
    BY <2>2, Sizes
  <2> HIDE DEF R, E, less, n
  <2>5. Good(less, E \cup R, n, current)
    BY <2>1, <2>4, GoodSets
  <2> QED
    BY <2>3, <2>5, FreedKeeps DEF R, E
<1>6. Spares(memory, freed, Apart(call, t)) /\ freed.pending = Awaited(call, t)
  <2>1. less.regions = memory.regions /\ less.missed = memory.missed /\ less.pending = Awaited(call, t)
    <3>1. less.regions = memory.regions /\ less.missed = memory.missed /\ less.pending = memory.pending \ Pointers(loads)
      <4> HIDE DEF loads, n
      <4> QED
        BY <1>4, PendingLeaves
    <3>2. memory.pending \ Pointers(loads) = Awaited(call, t)
      BY <1>4, NoLoads
    <3> QED
      BY <3>1, <3>2
  <2> HIDE DEF freed, less
  <2> QED
    BY <1>5, <2>1 DEF Frame, Spares
<1>7. Sound(freed, [call EXCEPT ![t] = c], current)
  <2>1. c \in Call /\ c.loads = <<>> /\ c.held = call[t].held /\ c.request = call[t].request /\ c.pc = "leased"
    <3>1. call[t] \in Call /\ <<>> \in Seq(CopyLoad)
      BY <1>4, EmptySeq
    <3> QED
      BY <3>1 DEF Call
  <2> HIDE DEF c, freed, n
  <2>2. Good(freed, LoadRegions(c.loads) \cup Apart(call, t), With(Others(call, t), c.held), current)
    BY <1>5, <2>1, NoLoads DEF n
  <2>3. CallRight(freed, c, current)
    <3>1. Pointers(<<>>) = {} /\ LoadsApart(<<>>) /\ LoadsRight(freed, <<>>, current)
      BY NoLoads DEF LoadsApart, LoadsRight
    <3> QED
      BY <1>4, <2>1, <3>1 DEF CallRight
  <2>4. freed.pending = Pointers(c.loads) \cup Awaited(call, t)
    BY <1>6, <2>1, NoLoads
  <2> QED
    BY <1>3, <1>6, <2>1, <2>2, <2>3, <2>4, ThreadStep
<1>8. Sound(Release(retired, call[t].held, o), [call EXCEPT ![t] = NoCall], current)
  <2> DEFINE registered == [s \in Storages |->
                IF s \in call[t].created THEN [freed.registered[s] EXCEPT !.retired = TRUE] ELSE freed.registered[s]]
  <2>1. freed \in Memory
    BY <1>5, GoodParts
  <2> HIDE DEF freed
  <2>2. \A s \in Storages : freed.registered[s] \in Registration
    BY <2>1, Fields
  <2>3. /\ registered \in [Storages -> Registration]
        /\ \A s \in Storages : /\ registered[s].region = freed.registered[s].region
                               /\ registered[s].leases = freed.registered[s].leases
    BY <2>2 DEF Registration
  <2> HIDE DEF registered
  <2>4. /\ retired \in Memory /\ retired.registered = registered
        /\ retired.idle = freed.idle /\ retired.pending = freed.pending /\ retired.tier = freed.tier
        /\ retired.batch = freed.batch /\ retired.regions = freed.regions /\ retired.maxPinned = freed.maxPinned
        /\ retired.maxOffered = freed.maxOffered /\ retired.missed = freed.missed
    <3>1. retired = [freed EXCEPT !.registered = registered]
      BY DEF registered
    <3> HIDE DEF retired
    <3> QED
      BY <2>1, <2>3, <3>1 DEF Memory
  <2> HIDE DEF retired, n
  <2>5. Booked(retired, n)
    <3>1. Booked(freed, n)
      BY <1>5, GoodParts
    <3>2. \A s \in Storages : /\ retired.registered[s].region = freed.registered[s].region
                              /\ retired.registered[s].leases = freed.registered[s].leases
      BY <2>3, <2>4
    <3>3. \A s \in freed.pending : s \in Storages
      BY <2>1, Fields
    <3>4. \A s \in Storages : retired.registered[s].leases = n[s] /\ (n[s] > 0 => retired.registered[s].region # None)
      BY <3>1, <3>2 DEF Booked
    <3>5. {s \in Storages : retired.registered[s].region # None /\ n[s] = 0}
            = {s \in Storages : freed.registered[s].region # None /\ n[s] = 0}
      BY <3>2
    <3>6. \A s \in retired.pending : retired.registered[s].region = None
      BY <2>4, <3>1, <3>2, <3>3 DEF Booked
    <3> QED
      BY <2>4, <3>1, <3>4, <3>5, <3>6 DEF Booked
  <2>6. Good(retired, Apart(call, t), n, current) /\ Frame(freed, retired, Apart(call, t))
    BY <1>5, <2>3, <2>4, <2>5, RegistrationsStay
  <2>7. Spares(memory, retired, Apart(call, t)) /\ retired.pending = Awaited(call, t)
    BY <1>6, <2>6 DEF Spares, Frame
  <2> QED
    BY <1>2, <1>3, <2>6, <2>7, CallEnds DEF n
<1> HIDE DEF freed, retired, c
<1> QED
  BY <1>1, <1>7, <1>8 DEF IInv


\* Setting the pinned budget evicts idle registrations into the thread's batch.
LEMMA SetPinnedSound == ASSUME NEW t \in Threads, IInv, SetPinned(t) PROVE IInv'
<1>1. PICK v \in PinnedBudgets :
        /\ call[t].pc = "idle" /\ memory' = Fit([memory EXCEPT !.maxPinned = v], 0, t, Undecided)
        /\ call' = [call EXCEPT ![t].pc = "offering"] /\ current' = current
  BY DEF SetPinned
<1> DEFINE set == [memory EXCEPT !.maxPinned = v]
           y == Fit(set, 0, t, Undecided)
           c == [call[t] EXCEPT !.pc = "offering"]
           E == LoadRegions(call[t].loads) \cup Apart(call, t)
           n == With(Others(call, t), call[t].held)
<1>2. Undecided \in Outcome /\ v \in Nat
  BY OfferedAssumption DEF Undecided, Outcome
<1>3. Sound(memory, call, current)
  BY DEF IInv
<1>4. /\ call[t] \in Call /\ CallRight(memory, call[t], current)
      /\ memory.pending = Pointers(call[t].loads) \cup Awaited(call, t) /\ Good(memory, E, n, current)
  BY <1>3, SoundParts
<1>5. call[t].loads = <<>>
  BY <1>1, <1>4 DEF CallRight
<1>6. Good(set, E, n, current) /\ set.regions = memory.regions /\ set.missed = memory.missed
      /\ set.pending = memory.pending
  <2>1. memory \in Memory
    BY <1>4, GoodParts
  <2>2. /\ set \in Memory /\ set.registered = memory.registered /\ set.idle = memory.idle
        /\ set.pending = memory.pending /\ set.tier = memory.tier /\ set.batch = memory.batch
        /\ set.regions = memory.regions /\ set.maxOffered = memory.maxOffered /\ set.missed = memory.missed
    BY <1>2, <2>1 DEF Memory
  <2> HIDE DEF set, E, n
  <2> QED
    BY <1>4, <2>2, GoodSame
<1>7. Shrunk(set, y, E, n, current, t)
  <2> HIDE DEF set, E, n
  <2> QED
    BY <1>2, <1>6, FitShrinks
<1>8. c \in Call /\ c.loads = call[t].loads /\ c.held = call[t].held /\ c.request = call[t].request /\ c.pc = "offering"
  BY <1>4 DEF Call
<1> HIDE DEF y, c, set, n
<1>9. Spares(memory, y, E) /\ y.pending = memory.pending /\ Good(y, E, n, current)
  BY <1>6, <1>7 DEF Shrunk, Frame, Spares
<1>10. Spares(memory, y, Apart(call, t))
  BY <1>9 DEF Spares
<1>11. CallRight(y, c, current)
  <2>1. LoadsRight(y, <<>>, current)
    BY NoLoads DEF LoadsRight
  <2> QED
    BY <1>4, <1>5, <1>8, <2>1 DEF CallRight
<1>12. Good(y, LoadRegions(c.loads) \cup Apart(call, t), With(Others(call, t), c.held), current)
  BY <1>8, <1>9 DEF n
<1>13. Sound(y, [call EXCEPT ![t] = c], current)
  BY <1>3, <1>4, <1>5, <1>8, <1>9, <1>10, <1>11, <1>12, ThreadStep
<1>14. memory' = y /\ call' = [call EXCEPT ![t] = c] /\ current' = current
  BY <1>1 DEF y, c, set
<1> QED
  BY <1>13, <1>14 DEF IInv

\* A section that only changes the tier, and what no owner has to know.
LEMMA TierStep ==
  ASSUME NEW y, IInv, Good(y, Loading(call), Leases(call), current), Frame(memory, y, Loading(call)),
         memory' = y, call' = call, current' = current
  PROVE  IInv'
<1>1. Sound(y, call, current)
  BY MemoryStep DEF IInv, Frame, Spares
<1> QED
  BY <1>1 DEF IInv

\* The watcher's turn.
LEMMA WatchSound == ASSUME IInv, Watch PROVE IInv'
<1> DEFINE x == Relieved(memory)
           y == [x EXCEPT !.watching = x.tier # <<>>]
           E == Loading(call)
           n == Leases(call)
<1>1. memory' = y /\ call' = call /\ current' = current
  BY DEF Watch
<1>2. Good(memory, E, n, current)
  BY DEF IInv, Sound
<1>3. Good(x, E, n, current) /\ Frame(memory, x, E) /\ x \in Memory
  <2> HIDE DEF E, n
  <2> QED
    BY <1>2, RelievedKeeps, GoodParts
<1> HIDE DEF x
<1>4. /\ y \in Memory /\ y.registered = x.registered /\ y.idle = x.idle
      /\ y.pending = x.pending /\ y.tier = x.tier /\ y.batch = x.batch
      /\ y.regions = x.regions /\ y.maxOffered = x.maxOffered /\ y.missed = x.missed /\ y.maxPinned = x.maxPinned
  BY <1>3 DEF Memory
<1> HIDE DEF y, E, n
<1>5. Good(y, E, n, current) /\ Frame(memory, y, E)
  BY <1>3, <1>4, GoodSame DEF Frame
<1> QED
  BY <1>1, <1>5, TierStep DEF E, n

\* With another budget, the tier keeps to that one.
LEMMA BudgetKeeps ==
  ASSUME NEW x, NEW y \in Memory, NEW E, NEW n, NEW cur, Good(x, E, n, cur), Total(x.tier) <= y.maxOffered,
         y.registered = x.registered, y.idle = x.idle, y.pending = x.pending, y.tier = x.tier,
         y.batch = x.batch, y.regions = x.regions, y.missed = x.missed
  PROVE  Good(y, E, n, cur)
<1>1. /\ RegisteredRegions(y) = RegisteredRegions(x) /\ TierRegions(y) = TierRegions(x)
      /\ \A t \in Threads : BatchRegions(y, t) = BatchRegions(x, t)
  BY DEF RegisteredRegions, TierRegions, BatchRegions
<1>2. RegisteredApart(y) /\ TierApart(y) /\ BatchApart(y) /\ KindsApart(y, E) /\ Covered(y, E)
  BY <1>1, GoodParts DEF RegisteredApart, TierApart, BatchApart, KindsApart, Covered
<1>3. Booked(y, n) /\ WithinTier(y)
  BY GoodParts DEF Booked, WithinTier, Tiered, Occupied
<1>4. RegisteredWhole(y, cur) /\ TierRight(y, cur)
  <2>1. RegisteredWhole(x, cur) /\ TierRight(x, cur)
    BY GoodParts
  <2>2. RegisteredWhole(y, cur)
    BY <2>1 DEF RegisteredWhole, Whole
  <2>3. TierRight(y, cur)
    BY ZenonT(60), <2>1 DEF TierRight, Offerable, Mixed
  <2> QED
    BY <2>2, <2>3
<1>5. BatchRight(y, cur)
  <2>1. BatchRight(x, cur)
    BY GoodParts
  <2> QED
    BY ZenonT(60), <2>1 DEF BatchRight, Offerable, Mixed
<1> QED
  BY <1>2, <1>3, <1>4, <1>5 DEF Good

\* Setting the offered budget evicts down to it.
LEMMA SetOfferedSound == ASSUME IInv, SetOffered PROVE IInv'
<1>1. PICK v \in OfferedBudgets : /\ memory' = EvictOffered([memory EXCEPT !.maxOffered = v], v)
                                  /\ call' = call /\ current' = current
  BY DEF SetOffered
<1> DEFINE set == [memory EXCEPT !.maxOffered = v]
           z == EvictOffered(memory, v)
           y == EvictOffered(set, v)
           E == Loading(call)
           n == Leases(call)
<1>2. v \in Nat
  BY OfferedAssumption
<1>3. Good(memory, E, n, current) /\ memory \in Memory
  BY GoodParts DEF IInv, Sound
<1>4. Good(z, E, n, current) /\ Frame(memory, z, E) /\ Total(z.tier) <= v /\ z \in Memory
  <2>1. v \in Int /\ v >= 0
    BY <1>2
  <2>2. Good(z, E, n, current) /\ Frame(memory, z, E) /\ Total(z.tier) <= v
    <3> HIDE DEF E, n
    <3> QED
      BY <1>3, <2>1, EvictOfferedKeeps
  <2> QED
    BY <2>2, GoodParts
<1>5. /\ y \in Memory /\ y.registered = z.registered /\ y.idle = z.idle /\ y.pending = z.pending /\ y.tier = z.tier
      /\ y.batch = z.batch /\ y.regions = z.regions /\ y.missed = z.missed /\ y.maxOffered = v
      /\ y.maxPinned = z.maxPinned
  <2>1. y = [z EXCEPT !.maxOffered = v]
    <3>1. set.tier = memory.tier /\ set.regions = memory.regions
      BY <1>3 DEF Memory
    <3>2. PICK T, G : /\ z = [[memory EXCEPT !.tier = T] EXCEPT !.regions = G]
                      /\ y = [[set EXCEPT !.tier = T] EXCEPT !.regions = G]
      <4> DEFINE First(q) == Min({k \in 0 .. Len(q) : k = Len(q) \/ Total(SubSeq(q, k + 1, Len(q))) <= v})
                 T(q) == SubSeq(q, First(q) + 1, Len(q))
                 R(q) == {q[i].region : i \in 1 .. First(q)}
                 Kept(x) == [x EXCEPT !.tier = T(x.tier)]
                 G(x) == [r \in Regions |-> IF r \in R(x.tier) THEN Free ELSE Kept(x).regions[r]]
      <4>1. ASSUME NEW x PROVE EvictOffered(x, v) = [Kept(x) EXCEPT !.regions = G(x)]
        BY DEF EvictOffered, Freed
      <4>2. Kept(memory).regions = memory.regions /\ Kept(set).regions = set.regions
        <5>1. set \in Memory
          BY <1>2, <1>3 DEF Memory
        <5> HIDE DEF T, set
        <5> QED
          BY <1>3, <5>1 DEF Memory
      <4>3. G(set) = G(memory)
        <5> HIDE DEF Kept, R, set
        <5> QED
          BY <3>1, <4>2
      <4>4. z = [[memory EXCEPT !.tier = T(memory.tier)] EXCEPT !.regions = G(memory)]
        BY <4>1
      <4>5. y = [[set EXCEPT !.tier = T(memory.tier)] EXCEPT !.regions = G(memory)]
        <5>1. y = [Kept(set) EXCEPT !.regions = G(set)]
          BY <4>1
        <5>2. Kept(set) = [set EXCEPT !.tier = T(memory.tier)]
          <6> HIDE DEF T, set
          <6> QED
            BY <3>1
        <5> HIDE DEF y, Kept, G, T, set
        <5> QED
          BY <4>3, <5>1, <5>2
      <4> HIDE DEF z, y, G, T, set
      <4> QED
        BY <4>4, <4>5
    <3> HIDE DEF z, y
    <3> QED
      BY <1>3, <3>2 DEF Memory
  <2> HIDE DEF y, z
  <2> QED
    BY <1>2, <1>4, <2>1 DEF Memory
<1> HIDE DEF E, n, y, z
<1>6. Good(y, E, n, current)
  BY <1>4, <1>5, BudgetKeeps
<1>7. Spares(memory, y, E) /\ y.pending = memory.pending
  BY <1>4, <1>5 DEF Frame, Spares
<1>8. Sound(y, call, current)
  BY <1>6, <1>7, MemoryStep DEF IInv, E, n
<1> QED
  BY <1>1, <1>8 DEF IInv, y, set


\* Clearing frees what is idle and what is in the tier.
LEMMA ClearSound == ASSUME IInv, Clear PROVE IInv'
<1> DEFINE gone == ToSet(memory.idle)
           registered == [s \in Storages |-> IF s \in gone THEN Unregistered ELSE memory.registered[s]]
           kept == [memory EXCEPT !.registered = registered, !.idle = <<>>]
           R == {memory.registered[s].region : s \in gone}
           y == EvictOffered(Freed(kept, R), 0)
           E == Loading(call)
           n == Leases(call)
<1>1. memory' = y /\ call' = call /\ current' = current
  BY DEF Clear
<1>2. Good(memory, E, n, current) /\ memory \in Memory /\ Booked(memory, n)
  BY GoodParts DEF IInv, Sound
<1>3. gone = {s \in Storages : memory.registered[s].region # None /\ n[s] = 0} /\ gone \subseteq Storages
  BY <1>2 DEF Booked
<1>4. Unregistered \in Registration /\ Unregistered.region = None /\ Unregistered.leases = 0
  BY DEF Unregistered, Registration
<1>5. registered \in [Storages -> Registration]
  BY <1>2, <1>4, Fields
<1>6. /\ kept \in Memory /\ kept.registered = registered /\ kept.idle = <<>>
      /\ kept.pending = memory.pending /\ kept.tier = memory.tier /\ kept.batch = memory.batch
      /\ kept.regions = memory.regions /\ kept.maxPinned = memory.maxPinned
      /\ kept.maxOffered = memory.maxOffered /\ kept.missed = memory.missed
  <2>1. <<>> \in Seq(Storages)
    BY EmptySeq
  <2> HIDE DEF registered
  <2> QED
    BY <1>2, <1>5, <2>1 DEF Memory
<1>7. \A s \in Storages : kept.registered[s] = IF s \in gone THEN Unregistered ELSE memory.registered[s]
  BY <1>6
<1> HIDE DEF kept, gone, registered, n
<1>8. Booked(kept, n)
  <2>1. \A s \in Storages : kept.registered[s].leases = n[s] /\ (n[s] > 0 => kept.registered[s].region # None)
    BY <1>2, <1>3, <1>4, <1>7 DEF Booked
  <2>2. IsInjective(kept.idle) /\ ToSet(kept.idle) = {}
    BY <1>6, NoLoads DEF IsInjective
  <2>3. {s \in Storages : kept.registered[s].region # None /\ n[s] = 0} = {}
    BY <1>3, <1>4, <1>7
  <2>4. \A s \in kept.pending : kept.registered[s].region = None
    <3>1. \A s \in kept.pending : s \in Storages /\ memory.registered[s].region = None
      BY <1>2, <1>6, Fields DEF Booked
    <3> QED
      BY <1>4, <1>7, <3>1
  <2> QED
    BY <2>1, <2>2, <2>3, <2>4 DEF Booked
<1>9. \A s \in Storages : kept.registered[s].region \in {None, memory.registered[s].region}
  BY <1>4, <1>7
<1> DEFINE D == {memory.registered[s].region : s \in {s \in Storages : kept.registered[s].region = None}} \ {None}
<1>10. Good(kept, E \cup D, n, current) /\ E \cap D = {} /\ Frame(memory, kept, E)
  <2> HIDE DEF E
  <2> QED
    BY <1>2, <1>6, <1>8, <1>9, RegistrationsLeave
<1>11. D = R
  <2>1. \A s \in Storages : kept.registered[s].region = None /\ memory.registered[s].region # None <=> s \in gone
    BY <1>3, <1>4, <1>7
  <2> QED
    BY <1>3, <2>1
<1>12. Good(Freed(kept, R), E, n, current) /\ Frame(kept, Freed(kept, R), E)
  <2> HIDE DEF D, R, E
  <2> QED
    BY <1>10, <1>11, FreedKeeps
<1>13. Good(y, E, n, current) /\ Frame(Freed(kept, R), y, E)
  <2> HIDE DEF R, E
  <2>1. 0 \in Int
    OBVIOUS
  <2> QED
    BY <1>12, <2>1, EvictOfferedKeeps
<1> HIDE DEF y, E, R, D
<1>14. Frame(memory, y, E)
  BY <1>10, <1>12, <1>13, FrameTwice
<1> QED
  BY <1>1, <1>13, <1>14, TierStep DEF n, E

\* A region in whose data Windows discarded a span holds no other bytes than before.
LEMMA DiscardKeeps ==
  ASSUME NEW x, NEW y \in Memory, NEW E, NEW n, NEW cur, NEW r \in Regions, Good(x, E, n, cur),
         y.registered = x.registered, y.idle = x.idle, y.pending = x.pending, y.tier = x.tier,
         y.batch = x.batch, y.maxOffered = x.maxOffered, y.missed = x.missed,
         x.regions[r].state = "offered", y.regions[r].state = "offered",
         DOMAIN y.regions[r].data = DOMAIN x.regions[r].data,
         \A i \in DOMAIN x.regions[r].data : y.regions[r].data[i] \in {Junk, x.regions[r].data[i]},
         \A q \in Regions : q # r => y.regions[q] = x.regions[q]
  PROVE  Good(y, E, n, cur)
<1>1. /\ RegisteredRegions(y) = RegisteredRegions(x) /\ TierRegions(y) = TierRegions(x)
      /\ \A t \in Threads : BatchRegions(y, t) = BatchRegions(x, t)
  BY DEF RegisteredRegions, TierRegions, BatchRegions
<1>2. RegisteredApart(y) /\ TierApart(y) /\ BatchApart(y) /\ KindsApart(y, E)
  BY <1>1, GoodParts DEF RegisteredApart, TierApart, BatchApart, KindsApart
<1>3. Covered(y, E)
  <2>1. \A q \in Regions : y.regions[q].state = x.regions[q].state
    OBVIOUS
  <2> QED
    BY <1>1, <2>1, GoodParts DEF Covered
<1>4. Booked(y, n) /\ WithinTier(y)
  BY GoodParts DEF Booked, WithinTier, Tiered, Occupied
<1>5. RegisteredWhole(y, cur)
  <2>1. ASSUME NEW s \in Storages, x.registered[s].region # None
        PROVE  y.regions[x.registered[s].region] = x.regions[x.registered[s].region]
    <3>1. x.regions[x.registered[s].region].state = "open" /\ x.registered[s].region \in Regions
      BY <2>1, GoodParts, Fields DEF RegisteredWhole, Registration
    <3> QED
      BY <3>1
  <2>2. ASSUME NEW s \in Storages, x.registered[s].region # None
        PROVE  /\ y.regions[x.registered[s].region].state = "open"
               /\ s \notin x.missed => Whole(y, x.registered[s].region, s, cur)
    <3>1. /\ x.regions[x.registered[s].region].state = "open"
          /\ s \notin x.missed => Whole(x, x.registered[s].region, s, cur)
      BY <2>2, GoodParts DEF RegisteredWhole
    <3> QED
      BY <2>1, <2>2, <3>1 DEF Whole
  <2> QED
    BY <2>2 DEF RegisteredWhole
<1>6. \A q \in Regions, s \in Storages : Mixed(x, q, s, cur) => Mixed(y, q, s, cur)
  BY DEF Mixed
<1>7. x \in Memory
  BY GoodParts
<1>8. \A e : e \in Owner /\ Offerable(x, e, cur) => Offerable(y, e, cur)
  BY <1>6 DEF Offerable, Owner
<1>9. TierRight(y, cur)
  BY <1>7, <1>8, GoodParts, OwnedRegions DEF TierRight
<1>10. BatchRight(y, cur)
  BY <1>7, <1>8, GoodParts, OwnedRegions DEF BatchRight
<1> QED
  BY <1>2, <1>3, <1>4, <1>5, <1>9, <1>10 DEF Good

\* Windows discards a span of what is offered.
LEMMA DiscardSound ==
  ASSUME NEW r \in Regions, NEW i \in DOMAIN memory.regions[r].data, IInv, Discard(r, i)
  PROVE  IInv'
<1> DEFINE y == [memory EXCEPT !.regions[r].data[i] = Junk]
           E == Loading(call)
           n == Leases(call)
<1>1. memory.regions[r].state = "offered" /\ memory' = y /\ call' = call /\ current' = current
  BY DEF Discard
<1>2. Good(memory, E, n, current) /\ memory \in Memory
  BY GoodParts DEF IInv, Sound
<1>3. memory.regions \in [Regions -> Region] /\ memory.regions[r].data \in Seq(Int)
  BY <1>2, Fields DEF Region
<1> DEFINE data == [memory.regions[r].data EXCEPT ![i] = Junk]
           region == [memory.regions[r] EXCEPT !.data = data]
           regions == [memory.regions EXCEPT ![r] = region]
<1>4. data \in Seq(Int) /\ DOMAIN data = DOMAIN memory.regions[r].data
      /\ \A j \in DOMAIN memory.regions[r].data : data[j] \in {Junk, memory.regions[r].data[j]}
  BY <1>3 DEF Junk
<1> HIDE DEF data
<1>5. region \in Region /\ region.state = "offered" /\ region.data = data
  BY <1>1, <1>3, <1>4 DEF Region
<1> HIDE DEF region
<1>6. regions \in [Regions -> Region] /\ regions[r] = region
      /\ \A q \in Regions : q # r => regions[q] = memory.regions[q]
  BY <1>3, <1>5
<1> HIDE DEF regions
<1>7. /\ y \in Memory /\ y.registered = memory.registered /\ y.idle = memory.idle /\ y.pending = memory.pending
      /\ y.tier = memory.tier /\ y.batch = memory.batch /\ y.maxOffered = memory.maxOffered
      /\ y.missed = memory.missed /\ y.regions = regions
  <2>1. y = [memory EXCEPT !.regions = regions]
    BY DEF regions, region, data
  <2> HIDE DEF y
  <2> QED
    BY <1>2, <1>6, <2>1 DEF Memory
<1> HIDE DEF y
<1>8. Good(y, E, n, current)
  <2> HIDE DEF E, n
  <2> QED
    BY SMTT(40), <1>1, <1>2, <1>4, <1>5, <1>6, <1>7, DiscardKeeps
<1>9. ASSUME NEW t \in Threads
      PROVE  CallRight(y, call[t], current)
  <2>1. CallRight(memory, call[t], current) /\ call[t].loads \in Seq(CopyLoad)
    BY SMTT(40) DEF IInv, Sound, Call
  <2>2. ASSUME NEW j \in DOMAIN call[t].loads
        PROVE  LoadRight(y, call[t].loads[j], current)
    <3> DEFINE l == call[t].loads[j]
    <3>1. l \in CopyLoad /\ LoadRight(memory, l, current)
      BY <2>1, <2>2 DEF CallRight, LoadsRight
    <3> HIDE DEF l
    <3>2. l.region # None => l.region \in Regions
      BY <3>1 DEF CopyLoad
    <3>3. ASSUME Reclaiming(l), l.pointer \notin y.missed
          PROVE  Mixed(y, l.region, l.pointer, current)
      <4>1. Mixed(memory, l.region, l.pointer, current) /\ l.region \in Regions
        BY <1>7, <3>1, <3>2, <3>3 DEF LoadRight
      <4>2. CASE l.region # r
        BY <1>6, <1>7, <4>1, <4>2 DEF Mixed
      <4>3. CASE l.region = r
        <5>1. y.regions[l.region].data = data
          BY <1>5, <1>6, <1>7, <4>3
        <5>2. \A k \in DOMAIN data : data[k] \in {Junk, current[l.pointer]}
          BY <1>4, <4>1, <4>3 DEF Mixed
        <5> QED
          BY <5>1, <5>2 DEF Mixed
      <4> QED
        BY <4>2, <4>3
    <3>4. ASSUME ~Reclaiming(l), l.region # None
          PROVE  y.regions[l.region] = memory.regions[l.region]
      <4>1. memory.regions[l.region].state = "open" /\ l.region \in Regions
        BY <3>1, <3>2, <3>4 DEF LoadRight
      <4>2. l.region # r
        BY <1>1, <4>1
      <4> QED
        BY <1>6, <1>7, <4>1, <4>2
    <3> QED
      BY <1>7, <3>1, <3>3, <3>4 DEF LoadRight, l
  <2> QED
    BY <2>1, <2>2 DEF CallRight, LoadsRight
<1>10. Sound(y, call, current)
  BY <1>7, <1>8, <1>9 DEF IInv, Sound
<1> QED
  BY <1>1, <1>10 DEF IInv


\* A worker has offered a region of a batch, or has tried to.
LEMMA OfferedKeeps ==
  ASSUME NEW x, NEW y \in Memory, NEW E, NEW n, NEW cur, NEW t \in Threads, NEW r \in BatchRegions(x, t),
         Good(x, E, n, cur),
         y.registered = x.registered, y.idle = x.idle, y.pending = x.pending, y.tier = x.tier,
         y.maxPinned = x.maxPinned, y.maxOffered = x.maxOffered, y.missed = x.missed,
         \A u \in Threads : /\ DOMAIN y.batch[u] = DOMAIN x.batch[u]
                            /\ \A i \in DOMAIN x.batch[u] : y.batch[u][i].owner = x.batch[u][i].owner,
         y.regions[r].state # "free", y.regions[r].data = x.regions[r].data,
         \A q \in Regions : q # r => y.regions[q] = x.regions[q]
  PROVE  Good(y, E, n, cur) /\ Frame(x, y, E)
<1>1. \A u \in Threads : BatchRegions(y, u) = BatchRegions(x, u)
  BY DEF BatchRegions
<1>2. RegisteredRegions(y) = RegisteredRegions(x) /\ TierRegions(y) = TierRegions(x)
  BY DEF RegisteredRegions, TierRegions
<1>3. RegisteredApart(y) /\ TierApart(y) /\ KindsApart(y, E)
  BY <1>1, <1>2, GoodParts DEF RegisteredApart, TierApart, KindsApart
<1>4. BatchApart(y)
  <2>1. BatchApart(x)
    BY GoodParts
  <2>2. ASSUME NEW u \in Threads, NEW i \in DOMAIN y.batch[u], NEW j \in DOMAIN y.batch[u],
               y.batch[u][i].owner.region = y.batch[u][j].owner.region
        PROVE  i = j
    <3>1. /\ i \in DOMAIN x.batch[u] /\ j \in DOMAIN x.batch[u]
          /\ x.batch[u][i].owner.region = x.batch[u][j].owner.region
      BY <2>2
    <3> QED
      BY <2>1, <3>1 DEF BatchApart
  <2> QED
    BY <1>1, <2>1, <2>2 DEF BatchApart
<1>5. Covered(y, E)
  <2>1. Covered(x, E)
    BY GoodParts
  <2>2. ASSUME NEW q \in Regions
        PROVE  y.regions[q].state # "free" <=> x.regions[q].state # "free"
    <3>1. CASE q = r
      BY <2>1, <3>1 DEF Covered
    <3>2. CASE q # r
      BY <3>2
    <3> QED
      BY <3>1, <3>2
  <2> QED
    BY <1>1, <1>2, <2>1, <2>2 DEF Covered
<1>6. Booked(y, n) /\ WithinTier(y)
  BY GoodParts DEF Booked, WithinTier, Tiered, Occupied
<1>7. x \in Memory /\ KindsApart(x, E)
  BY GoodParts
<1>8. RegisteredWhole(y, cur)
  <2>1. ASSUME NEW s \in Storages, x.registered[s].region # None
        PROVE  /\ y.regions[x.registered[s].region].state = "open"
               /\ s \notin x.missed => Whole(y, x.registered[s].region, s, cur)
    <3>1. /\ x.regions[x.registered[s].region].state = "open"
          /\ s \notin x.missed => Whole(x, x.registered[s].region, s, cur)
      BY <2>1, GoodParts DEF RegisteredWhole
    <3>2. x.registered[s].region \in Regions /\ x.registered[s].region # r
      <4>1. x.registered[s].region \in RegisteredRegions(x) /\ x.registered[s].region \in Regions \cup {None}
        BY <1>7, <2>1, OwnedRegions DEF RegisteredRegions
      <4> QED
        BY <1>7, <2>1, <4>1 DEF KindsApart
    <3> QED
      BY <3>1, <3>2 DEF Whole
  <2> QED
    BY <2>1 DEF RegisteredWhole
<1>9. \A q \in Regions, s \in Storages : Mixed(x, q, s, cur) => Mixed(y, q, s, cur)
  <2>1. ASSUME NEW q \in Regions PROVE y.regions[q].data = x.regions[q].data
    BY <2>1
  <2> QED
    BY <2>1 DEF Mixed
<1>10. \A e : e \in Owner /\ Offerable(x, e, cur) => Offerable(y, e, cur)
  BY <1>9 DEF Offerable, Owner
<1>11. TierRight(y, cur)
  BY <1>7, <1>10, GoodParts, OwnedRegions DEF TierRight
<1>12. BatchRight(y, cur)
  <2>1. ASSUME NEW u \in Threads, NEW i \in DOMAIN y.batch[u]
        PROVE  Offerable(y, y.batch[u][i].owner, cur)
    <3>1. i \in DOMAIN x.batch[u] /\ y.batch[u][i].owner = x.batch[u][i].owner
      OBVIOUS
    <3>2. x.batch[u][i].owner \in Owner /\ Offerable(x, x.batch[u][i].owner, cur)
      BY <1>7, <3>1, GoodParts, OwnedRegions DEF BatchRight
    <3> QED
      BY <1>10, <3>1, <3>2
  <2> QED
    BY <2>1 DEF BatchRight
<1>13. Good(y, E, n, cur)
  BY <1>3, <1>4, <1>5, <1>6, <1>8, <1>11, <1>12 DEF Good
<1>14. Frame(x, y, E)
  BY ZenonT(60), <1>7 DEF Frame, KindsApart
<1> QED
  BY <1>13, <1>14

\* A worker of a batch has offered its copy.
LEMMA OfferEndsSound ==
  ASSUME NEW t \in Threads, NEW i \in DOMAIN memory.batch[t], IInv, OfferEnds(t, i)
  PROVE  IInv'
<1> DEFINE b == memory.batch[t][i]
           r == b.owner.region
<1>1. PICK offered \in BOOLEAN :
        /\ memory' = [memory EXCEPT !.batch[t][i].offer = IF offered THEN "offered" ELSE "refused",
                                    !.regions[r].state = IF offered THEN "offered" ELSE @]
        /\ call' = call /\ current' = current
  BY ZenonT(60) DEF OfferEnds
<1> DEFINE y == [memory EXCEPT !.batch[t][i].offer = IF offered THEN "offered" ELSE "refused",
                               !.regions[r].state = IF offered THEN "offered" ELSE @]
           entry == [b EXCEPT !.offer = IF offered THEN "offered" ELSE "refused"]
           entries == [memory.batch[t] EXCEPT ![i] = entry]
           batch == [memory.batch EXCEPT ![t] = entries]
           region == [memory.regions[r] EXCEPT !.state = IF offered THEN "offered" ELSE @]
           regions == [memory.regions EXCEPT ![r] = region]
           E == Loading(call)
           n == Leases(call)
<1>2. Good(memory, E, n, current) /\ memory \in Memory /\ Covered(memory, E)
  BY GoodParts DEF IInv, Sound
<1>3. b \in Offering /\ b.owner \in Owner /\ r \in Regions /\ r \in BatchRegions(memory, t)
  BY <1>2, OwnedRegions DEF BatchRegions
<1>4. memory.batch \in [Threads -> Seq(Offering)] /\ memory.regions \in [Regions -> Region]
  BY <1>2, Fields
<1>5. memory.regions[r] \in Region /\ memory.regions[r].state # "free"
  BY <1>2, <1>3, <1>4 DEF Covered
<1>6. entry \in Offering /\ entry.owner = b.owner
  <2> HIDE DEF b
  <2> QED
    BY <1>3 DEF Offering
<1> HIDE DEF entry
<1>7. entries \in Seq(Offering) /\ DOMAIN entries = DOMAIN memory.batch[t]
      /\ \A j \in DOMAIN memory.batch[t] : entries[j].owner = memory.batch[t][j].owner
  BY <1>4, <1>6
<1> HIDE DEF entries
<1>8. batch \in [Threads -> Seq(Offering)]
      /\ \A u \in Threads : /\ DOMAIN batch[u] = DOMAIN memory.batch[u]
                            /\ \A j \in DOMAIN memory.batch[u] : batch[u][j].owner = memory.batch[u][j].owner
  BY ZenonT(60), <1>4, <1>7
<1>9. region \in Region /\ region.state # "free" /\ region.data = memory.regions[r].data
  BY ZenonT(60), <1>5 DEF Region
<1> HIDE DEF batch, region
<1>10. regions \in [Regions -> Region] /\ regions[r] = region
       /\ \A q \in Regions : q # r => regions[q] = memory.regions[q]
  BY <1>3, <1>4, <1>9
<1> HIDE DEF regions
<1>11. /\ y \in Memory /\ y.registered = memory.registered /\ y.idle = memory.idle
       /\ y.pending = memory.pending /\ y.tier = memory.tier /\ y.batch = batch /\ y.regions = regions
       /\ y.maxPinned = memory.maxPinned /\ y.maxOffered = memory.maxOffered /\ y.missed = memory.missed
  <2>1. y = [memory EXCEPT !.batch = batch, !.regions = regions]
    BY <1>2 DEF batch, entries, entry, regions, region, Memory
  <2> HIDE DEF y
  <2> QED
    BY <1>2, <1>8, <1>10, <2>1 DEF Memory
<1> HIDE DEF y
<1>12. Good(y, E, n, current) /\ Frame(memory, y, E)
  <2> HIDE DEF E, n, r, b
  <2>1. y.regions[r].state # "free" /\ y.regions[r].data = memory.regions[r].data
        /\ \A q \in Regions : q # r => y.regions[q] = memory.regions[q]
    BY <1>9, <1>10, <1>11
  <2>2. \A u \in Threads : /\ DOMAIN y.batch[u] = DOMAIN memory.batch[u]
                           /\ \A j \in DOMAIN memory.batch[u] : y.batch[u][j].owner = memory.batch[u][j].owner
    BY <1>8, <1>11
  <2> QED
    BY <1>2, <1>3, <1>11, <2>1, <2>2, OfferedKeeps
<1>13. memory' = y
  BY <1>1 DEF y
<1> QED
  BY ZenonT(60), <1>1, <1>12, <1>13, TierStep


\* A batch that is settled holds its copies no longer.
LEMMA BatchLeaves ==
  ASSUME NEW x, NEW y \in Memory, NEW E, NEW n, NEW cur, NEW t \in Threads, Good(x, E, n, cur),
         y.registered = x.registered, y.idle = x.idle, y.pending = x.pending, y.tier = x.tier,
         y.batch = [x.batch EXCEPT ![t] = <<>>], y.regions = x.regions,
         y.maxPinned = x.maxPinned, y.maxOffered = x.maxOffered, y.missed = x.missed
  PROVE  Good(y, E \cup BatchRegions(x, t), n, cur) /\ E \cap BatchRegions(x, t) = {} /\ Frame(x, y, E)
<1> DEFINE B == BatchRegions(x, t)
<1>1. x \in Memory /\ x.batch \in [Threads -> Seq(Offering)] /\ BatchApart(x) /\ KindsApart(x, E)
  BY GoodParts, Fields
<1>2. y.batch[t] = <<>> /\ \A u \in Threads : u # t => y.batch[u] = x.batch[u]
  BY <1>1
<1>3. BatchRegions(y, t) = {} /\ \A u \in Threads : u # t => BatchRegions(y, u) = BatchRegions(x, u)
  BY <1>2, NoLoads DEF BatchRegions
<1>4. RegisteredRegions(y) = RegisteredRegions(x) /\ TierRegions(y) = TierRegions(x)
  BY DEF RegisteredRegions, TierRegions
<1>5. RegisteredApart(y) /\ TierApart(y)
  BY GoodParts DEF RegisteredApart, TierApart
<1>6. BatchApart(y)
  <2>1. ASSUME NEW u \in Threads, NEW i \in DOMAIN y.batch[u], NEW j \in DOMAIN y.batch[u],
               y.batch[u][i].owner.region = y.batch[u][j].owner.region
        PROVE  i = j
    <3>1. CASE u = t
      BY <1>2, <2>1, <3>1, NoLoads
    <3>2. CASE u # t
      BY <1>1, <1>2, <2>1, <3>2 DEF BatchApart
    <3> QED
      BY <3>1, <3>2
  <2>2. \A u, w \in Threads : u # w => BatchRegions(y, u) \cap BatchRegions(y, w) = {}
    BY <1>1, <1>3 DEF BatchApart
  <2> QED
    BY <2>1, <2>2 DEF BatchApart
<1>7. KindsApart(y, E \cup B) /\ E \cap B = {}
  <2>1. \A u \in Threads : u # t => BatchRegions(x, u) \cap B = {}
    BY <1>1 DEF BatchApart
  <2>2. B \cap (RegisteredRegions(x) \cup TierRegions(x) \cup E) = {}
    BY <1>1 DEF KindsApart
  <2> HIDE DEF B
  <2>3. \A u \in Threads : BatchRegions(y, u) \cap (RegisteredRegions(y) \cup TierRegions(y) \cup (E \cup B)) = {}
    <3>1. ASSUME NEW u \in Threads
          PROVE  BatchRegions(y, u) \cap (RegisteredRegions(y) \cup TierRegions(y) \cup (E \cup B)) = {}
      <4>1. CASE u = t
        BY <1>3, <4>1
      <4>2. CASE u # t
        BY <1>1, <1>3, <1>4, <2>1, <4>2 DEF KindsApart
      <4> QED
        BY <4>1, <4>2
    <3> QED
      BY <3>1
  <2>4. /\ RegisteredRegions(y) \cap TierRegions(y) = {} /\ RegisteredRegions(y) \cap (E \cup B) = {}
        /\ TierRegions(y) \cap (E \cup B) = {} /\ E \cap B = {}
    BY <1>1, <1>4, <2>2 DEF KindsApart
  <2> QED
    BY <2>3, <2>4 DEF KindsApart
<1>8. Covered(y, E \cup B)
  <2>1. ASSUME NEW r \in Regions
        PROVE  y.regions[r].state # "free" <=>
                 \/ r \in RegisteredRegions(y) \cup TierRegions(y) \cup (E \cup B)
                 \/ \E u \in Threads : r \in BatchRegions(y, u)
    <3>1. x.regions[r].state # "free" <=>
            \/ r \in RegisteredRegions(x) \cup TierRegions(x) \cup E
            \/ \E u \in Threads : r \in BatchRegions(x, u)
      BY GoodParts DEF Covered
    <3>2. (\E u \in Threads : r \in BatchRegions(x, u)) <=> (r \in B \/ \E u \in Threads : r \in BatchRegions(y, u))
      BY <1>3
    <3> HIDE DEF B
    <3> QED
      BY <1>4, <3>1, <3>2
  <2> QED
    BY <2>1 DEF Covered
<1>9. Booked(y, n) /\ WithinTier(y)
  BY GoodParts DEF Booked, WithinTier, Tiered, Occupied
<1>10. RegisteredWhole(y, cur) /\ TierRight(y, cur)
  BY GoodParts DEF RegisteredWhole, Whole, TierRight, Offerable, Mixed
<1>11. BatchRight(y, cur)
  <2>1. ASSUME NEW u \in Threads, NEW i \in DOMAIN y.batch[u]
        PROVE  Offerable(y, y.batch[u][i].owner, cur)
    <3>1. u # t /\ i \in DOMAIN x.batch[u] /\ y.batch[u][i] = x.batch[u][i]
      BY <1>2, NoLoads
    <3>2. Offerable(x, x.batch[u][i].owner, cur)
      BY <3>1, GoodParts DEF BatchRight
    <3> QED
      BY ZenonT(60), <3>1, <3>2 DEF Offerable, Mixed
  <2> QED
    BY ZenonT(60), <2>1 DEF BatchRight
<1>12. Frame(x, y, E)
  BY DEF Frame
<1> QED
  BY <1>5, <1>6, <1>7, <1>8, <1>9, <1>10, <1>11, <1>12 DEF Good

\* Finishing a batch settles each of its copies.
LEMMA FinishSound == ASSUME NEW t \in Threads, IInv, Finish(t) PROVE IInv'
<1>1. PICK collected \in BOOLEAN :
        /\ memory' = SettleAll([memory EXCEPT !.batch[t] = <<>>], memory.batch[t], collected)
        /\ call[t].pc = "offering"
        /\ call' = [call EXCEPT ![t].pc = IF call[t].request = <<>> THEN "idle" ELSE "preparing"]
        /\ current' = current
  BY DEF Finish
<1> DEFINE batch == memory.batch[t]
           x == [memory EXCEPT !.batch[t] = <<>>]
           y == SettleAll(x, batch, collected)
           c == [call[t] EXCEPT !.pc = IF call[t].request = <<>> THEN "idle" ELSE "preparing"]
           E == LoadRegions(call[t].loads) \cup Apart(call, t)
           n == With(Others(call, t), call[t].held)
<1>2. Sound(memory, call, current)
  BY DEF IInv
<1>3. /\ call[t] \in Call /\ CallRight(memory, call[t], current)
      /\ memory.pending = Pointers(call[t].loads) \cup Awaited(call, t) /\ Good(memory, E, n, current)
      /\ (call[t].loads = <<>> \/ \A u \in Threads : u # t => call[u].loads = <<>>)
  <2>1. call[t].loads = <<>> \/ \A u \in Threads : u # t => call[u].loads = <<>>
    BY <1>2 DEF Sound
  <2> QED
    BY <1>2, <2>1, SoundParts
<1>4. memory \in Memory /\ memory.batch \in [Threads -> Seq(Offering)] /\ batch \in Seq(Offering)
      /\ BatchApart(memory) /\ BatchRight(memory, current)
  <2>1. memory \in Memory /\ BatchApart(memory) /\ BatchRight(memory, current)
    BY <1>3, GoodParts
  <2> QED
    BY <2>1, Fields
<1>5. /\ x \in Memory /\ x.registered = memory.registered /\ x.idle = memory.idle /\ x.pending = memory.pending
      /\ x.tier = memory.tier /\ x.batch = [memory.batch EXCEPT ![t] = <<>>] /\ x.regions = memory.regions
      /\ x.maxPinned = memory.maxPinned /\ x.maxOffered = memory.maxOffered /\ x.missed = memory.missed
  <2> DEFINE left == [memory.batch EXCEPT ![t] = <<>>]
  <2>1. left \in [Threads -> Seq(Offering)]
    <3>1. <<>> \in Seq(Offering)
      BY EmptySeq
    <3> QED
      BY <1>4, <3>1
  <2>2. x = [memory EXCEPT !.batch = left]
    BY <1>4 DEF Memory
  <2> HIDE DEF left, x
  <2>3. /\ x \in Memory /\ x.registered = memory.registered /\ x.idle = memory.idle /\ x.pending = memory.pending
        /\ x.tier = memory.tier /\ x.batch = left /\ x.regions = memory.regions
        /\ x.maxPinned = memory.maxPinned /\ x.maxOffered = memory.maxOffered /\ x.missed = memory.missed
    BY <1>4, <2>1, <2>2 DEF Memory
  <2> QED
    BY <2>3 DEF left
<1> HIDE DEF x
<1>6. Good(x, E \cup BatchRegions(memory, t), n, current) /\ E \cap BatchRegions(memory, t) = {} /\ Frame(memory, x, E)
  <2> HIDE DEF E, n
  <2> QED
    BY <1>3, <1>5, BatchLeaves
<1>7. Good(y, E, n, current) /\ Frame(x, y, E)
  <2>1. BatchRegions(memory, t) = {batch[i].owner.region : i \in DOMAIN batch}
    BY DEF BatchRegions
  <2>2. \A i \in DOMAIN batch : batch[i].owner.region \notin E /\ Offerable(x, batch[i].owner, current)
    <3>1. \A i \in DOMAIN batch : batch[i].owner.region \notin E
      BY <1>6, <2>1
    <3>2. \A i \in DOMAIN batch : Offerable(memory, batch[i].owner, current)
      BY <1>4 DEF BatchRight
    <3> QED
      BY ZenonT(60), <1>5, <3>1, <3>2 DEF Offerable, Mixed
  <2>3. \A i, j \in DOMAIN batch : batch[i].owner.region = batch[j].owner.region => i = j
    BY <1>4 DEF BatchApart
  <2> HIDE DEF E, n, batch
  <2>4. Good(x, E \cup {batch[i].owner.region : i \in DOMAIN batch}, n, current)
    BY <1>6, <2>1
  <2> QED
    BY ZenonT(60), <1>4, <2>2, <2>3, <2>4, SettleAllKeeps
<1>8. c \in Call /\ c.loads = call[t].loads /\ c.held = call[t].held /\ c.request = call[t].request
      /\ c.pc = IF call[t].request = <<>> THEN "idle" ELSE "preparing"
  BY <1>3 DEF Call
<1> HIDE DEF y, c
<1>9. Frame(memory, y, E)
  BY <1>6, <1>7, FrameTwice
<1>10. CallRight(y, c, current)
  <2>1. call[t].loads \in Seq(CopyLoad) /\ call[t].held \in Seq(Storages)
    BY <1>3 DEF Call
  <2>2. LoadsRight(y, c.loads, current)
    <3>1. LoadsRight(memory, call[t].loads, current) /\ LoadRegions(call[t].loads) \subseteq E
      BY <1>3 DEF CallRight
    <3> HIDE DEF E
    <3> QED
      BY <1>8, <1>9, <2>1, <3>1, LoadsKept
  <2>3. c.pc = "idle" => c.held = <<>> /\ c.loads = <<>>
    <3>1. CASE call[t].request = <<>>
      <4>1. ToSet(call[t].held) = {} /\ Pointers(call[t].loads) = {}
        BY <1>3, <3>1, NoLoads DEF CallRight
      <4> QED
        BY <1>8, <2>1, <4>1, NoElements, NoPointers
    <3>2. CASE call[t].request # <<>>
      BY <1>8, <3>2
    <3> QED
      BY <3>1, <3>2
  <2>4. c.pc # "leased" /\ c.pc # "filling"
    BY <1>8
  <2> QED
    BY <1>3, <1>8, <2>2, <2>3, <2>4 DEF CallRight
<1>11. Spares(memory, y, Apart(call, t)) /\ y.pending = memory.pending
  BY <1>9 DEF Spares, Frame
<1>12. Good(y, LoadRegions(c.loads) \cup Apart(call, t), With(Others(call, t), c.held), current)
  BY <1>7, <1>8
<1>13. Sound(y, [call EXCEPT ![t] = c], current)
  <2> HIDE DEF E, n
  <2> QED
    BY <1>2, <1>3, <1>8, <1>10, <1>11, <1>12, ThreadStep
<1>14. memory' = y /\ call' = [call EXCEPT ![t] = c] /\ current' = current
  BY <1>1 DEF y, c, x
<1> QED
  BY <1>13, <1>14 DEF IInv


\* A sequence of loads, one of which is replaced by another of the same storage.
LEMMA LoadReplaced ==
  ASSUME NEW loads \in Seq(CopyLoad), NEW i \in DOMAIN loads, NEW l \in CopyLoad, LoadsApart(loads),
         l.pointer = loads[i].pointer,
         l.region \notin LoadRegions(loads) \ {loads[i].region}
  PROVE  LET q == [loads EXCEPT ![i] = l]
         IN  /\ q \in Seq(CopyLoad) /\ DOMAIN q = DOMAIN loads /\ LoadsApart(q) /\ q[i] = l
             /\ \A j \in DOMAIN loads : j # i => q[j] = loads[j]
             /\ Pointers(q) = Pointers(loads)
             /\ LoadRegions(q) = (LoadRegions(loads) \ {loads[i].region}) \cup ({l.region} \ {None})
<1> DEFINE q == [loads EXCEPT ![i] = l]
<1>1. q \in Seq(CopyLoad) /\ DOMAIN q = DOMAIN loads /\ q[i] = l /\ \A j \in DOMAIN loads : j # i => q[j] = loads[j]
  OBVIOUS
<1> HIDE DEF q
<1>2. /\ ToSet(q) = {q[j] : j \in DOMAIN loads} /\ ToSet(loads) = {loads[j] : j \in DOMAIN loads}
  BY <1>1 DEF ToSet
<1>3. \A j \in DOMAIN loads : j # i => loads[j].region = None \/ loads[j].region \in LoadRegions(loads) \ {loads[i].region}
  BY <1>2 DEF LoadsApart, LoadRegions
<1>4. LoadsApart(q)
  <2>1. ASSUME NEW j \in DOMAIN loads, NEW k \in DOMAIN loads,
               \/ q[j].pointer = q[k].pointer
               \/ (q[j].region = q[k].region /\ q[j].region # None)
        PROVE  j = k
    <3>1. \A h \in DOMAIN loads : q[h].pointer = loads[h].pointer
      BY <1>1
    <3>2. CASE q[j].pointer = q[k].pointer
      BY <3>1, <3>2 DEF LoadsApart
    <3>3. CASE q[j].region = q[k].region /\ q[j].region # None
      <4>1. CASE j # i /\ k # i
        BY <1>1, <3>3, <4>1 DEF LoadsApart
      <4>2. CASE j = i /\ k # i
        BY <1>1, <1>3, <3>3, <4>2
      <4>3. CASE j # i /\ k = i
        BY <1>1, <1>3, <3>3, <4>3
      <4> QED
        BY <4>1, <4>2, <4>3
    <3> QED
      BY <2>1, <3>2, <3>3
  <2> QED
    BY <1>1, <2>1 DEF LoadsApart
<1>5. Pointers(q) = Pointers(loads)
  <2>1. \A h \in DOMAIN loads : q[h].pointer = loads[h].pointer
    BY <1>1
  <2> QED
    BY <1>2, <2>1 DEF Pointers
<1>6. LoadRegions(q) = (LoadRegions(loads) \ {loads[i].region}) \cup ({l.region} \ {None})
  <2>1. \A r : r \in LoadRegions(q) => r \in (LoadRegions(loads) \ {loads[i].region}) \cup ({l.region} \ {None})
    <3>1. ASSUME NEW r \in LoadRegions(q)
          PROVE  r \in (LoadRegions(loads) \ {loads[i].region}) \cup ({l.region} \ {None})
      <4>1. PICK j \in DOMAIN loads : r = q[j].region /\ r # None
        BY <1>2 DEF LoadRegions
      <4> QED
        BY <1>1, <1>3, <4>1
    <3> QED
      BY <3>1
  <2>2. \A r : r \in LoadRegions(loads) \ {loads[i].region} => r \in LoadRegions(q)
    <3>1. ASSUME NEW r \in LoadRegions(loads) \ {loads[i].region}
          PROVE  r \in LoadRegions(q)
      <4>1. PICK j \in DOMAIN loads : r = loads[j].region /\ r # None /\ j # i
        BY <1>2 DEF LoadRegions
      <4>2. q[j] \in ToSet(q) /\ q[j].region = r
        BY <1>1, <1>2, <4>1
      <4> QED
        BY <4>1, <4>2 DEF LoadRegions
    <3> QED
      BY <3>1
  <2>3. l.region # None => l.region \in LoadRegions(q)
    <3>1. l \in ToSet(q)
      BY <1>1, <1>2
    <3> QED
      BY <3>1 DEF LoadRegions
  <2> QED
    BY <2>1, <2>2, <2>3
<1>7. /\ q \in Seq(CopyLoad) /\ DOMAIN q = DOMAIN loads /\ LoadsApart(q) /\ q[i] = l
      /\ \A j \in DOMAIN loads : j # i => q[j] = loads[j]
      /\ Pointers(q) = Pointers(loads)
      /\ LoadRegions(q) = (LoadRegions(loads) \ {loads[i].region}) \cup ({l.region} \ {None})
  BY <1>1, <1>4, <1>5, <1>6
<1> QED
  BY <1>7 DEF q

\* A worker of thread t changes its load.
LEMMA LoadChanges ==
  ASSUME NEW x, NEW y, NEW cl, NEW cur, NEW t \in Threads, NEW i \in DOMAIN cl[t].loads, NEW l \in CopyLoad,
         NEW D, Sound(x, cl, cur), cl[t].pc # "filling",
         l.pointer = cl[t].loads[i].pointer,
         D = LoadRegions(cl[t].loads) \ {cl[t].loads[i].region}, l.region \notin D,
         Good(y, D \cup ({l.region} \ {None}), With(Others(cl, t), cl[t].held), cur),
         LoadRight(y, l, cur), Spares(x, y, D), y.pending = x.pending
  PROVE  Sound(y, [cl EXCEPT ![t].loads[i] = l], cur)
<1> DEFINE loads == cl[t].loads
           q == [loads EXCEPT ![i] = l]
           c == [cl[t] EXCEPT !.loads = q]
<1>1. /\ cl \in [Threads -> Call] /\ cl[t] \in Call /\ CallRight(x, cl[t], cur)
      /\ x.pending = Pointers(loads) \cup Awaited(cl, t)
  BY SoundParts
<1>2. loads \in Seq(CopyLoad) /\ loads # <<>>
  <2>1. loads \in Seq(CopyLoad)
    BY <1>1 DEF Call
  <2> QED
    BY <2>1, NoLoads
<1>3. Apart(cl, t) = {} /\ Awaited(cl, t) = {} /\ \A u \in Threads : u # t => cl[u].loads = <<>>
  <2>1. \A u \in Threads : u # t => cl[u].loads = <<>>
    BY <1>2 DEF Sound
  <2> QED
    BY <1>2, <2>1, SoundParts
<1>4. LoadsApart(loads) /\ LoadsRight(x, loads, cur) /\ cl[t].pc \notin {"idle", "leased"}
  BY <1>1, <1>2 DEF CallRight
<1>5. /\ q \in Seq(CopyLoad) /\ DOMAIN q = DOMAIN loads /\ LoadsApart(q) /\ q[i] = l
      /\ \A j \in DOMAIN loads : j # i => q[j] = loads[j]
      /\ Pointers(q) = Pointers(loads)
      /\ LoadRegions(q) = D \cup ({l.region} \ {None})
  <2> HIDE DEF loads
  <2> QED
    BY <1>2, <1>4, LoadReplaced DEF loads
<1> HIDE DEF q
<1>6. LoadsRight(y, q, cur)
  <2>1. ASSUME NEW j \in DOMAIN loads, j # i
        PROVE  LoadRight(y, loads[j], cur)
    <3> DEFINE k == loads[j]
    <3>1. LoadRight(x, k, cur) /\ k \in CopyLoad
      BY <1>2, <1>4 DEF LoadsRight
    <3>2. k.region # None => k.region \in D /\ k.region \in Regions
      <4>1. k \in ToSet(loads) /\ k.region \in Regions \cup {None}
        BY <1>2, <3>1, ElementsFinite DEF CopyLoad
      <4>2. k.region # None => k.region # loads[i].region
        BY <1>4, <2>1 DEF LoadsApart
      <4> QED
        BY <4>1, <4>2 DEF LoadRegions
    <3> HIDE DEF k
    <3>3. k.region # None => y.regions[k.region] = x.regions[k.region]
      BY <3>2 DEF Spares
    <3>4. k.pointer \notin y.missed => k.pointer \notin x.missed
      BY DEF Spares
    <3>5. Reclaiming(k) => k.region # None
      BY <3>1 DEF LoadRight
    <3> QED
      BY ZenonT(60), <3>1, <3>3, <3>4, <3>5 DEF LoadRight, Mixed, k
  <2> QED
    BY <1>5, <2>1 DEF LoadsRight
<1>7. c \in Call /\ c.loads = q /\ c.held = cl[t].held /\ c.request = cl[t].request /\ c.pc = cl[t].pc
  BY <1>1, <1>5 DEF Call
<1> HIDE DEF c
<1>8. CallRight(y, c, cur)
  BY <1>1, <1>4, <1>5, <1>6, <1>7 DEF CallRight
<1>9. Good(y, LoadRegions(c.loads) \cup Apart(cl, t), With(Others(cl, t), c.held), cur)
  BY <1>3, <1>5, <1>7
<1>10. y.pending = Pointers(c.loads) \cup Awaited(cl, t)
  BY <1>1, <1>5, <1>7
<1>11. Sound(y, [cl EXCEPT ![t] = c], cur)
  BY <1>3, <1>7, <1>8, <1>9, <1>10, ThreadStep
<1>12. [cl EXCEPT ![t].loads[i] = l] = [cl EXCEPT ![t] = c]
  BY <1>1 DEF c, q
<1> QED
  BY <1>11, <1>12

\* A worker begins to reclaim a copy.
LEMMA ReclaimStartsSound ==
  ASSUME NEW t \in Threads, NEW i \in DOMAIN call[t].loads, IInv, ReclaimStarts(t, i)
  PROVE  IInv'
<1> DEFINE load == call[t].loads[i]
           l == [load EXCEPT !.worker = "running"]
           D == LoadRegions(call[t].loads) \ {load.region}
<1>1. /\ call[t].pc = "preparing" /\ load.worker = "queued" /\ memory' = memory /\ current' = current
      /\ call' = [call EXCEPT ![t].loads[i].worker = "running"]
  BY DEF ReclaimStarts
<1>2. Sound(memory, call, current)
  BY DEF IInv
<1>3. /\ call \in [Threads -> Call] /\ call[t] \in Call /\ CallRight(memory, call[t], current)
      /\ Good(memory, LoadRegions(call[t].loads) \cup Apart(call, t), With(Others(call, t), call[t].held), current)
  BY <1>2, SoundParts
<1>4. call[t].loads \in Seq(CopyLoad) /\ load \in CopyLoad /\ load \in ToSet(call[t].loads)
  <2>1. call[t].loads \in Seq(CopyLoad)
    BY <1>3 DEF Call
  <2> QED
    BY <2>1, ElementsFinite
<1>5. Apart(call, t) = {}
  <2>1. call[t].loads # <<>>
    BY <1>4, NoLoads
  <2> QED
    BY <1>2, <2>1, SoundParts
<1>6. LoadRight(memory, load, current)
  BY <1>3 DEF CallRight, LoadsRight
<1>7. load.region # None /\ load.offered
  BY <1>1, <1>6 DEF LoadRight, Reclaiming
<1>8. l \in CopyLoad /\ l.pointer = load.pointer /\ l.region = load.region /\ l.missing = load.missing
      /\ l.offered = load.offered /\ l.error = load.error /\ l.worker = "running"
  <2> HIDE DEF load
  <2> QED
    BY SMTT(40), <1>4 DEF CopyLoad
<1> HIDE DEF l
<1>9. LoadRight(memory, l, current)
  BY <1>1, <1>6, <1>7, <1>8 DEF LoadRight, Reclaiming
<1>10. LoadRegions(call[t].loads) \cup Apart(call, t) = D \cup ({l.region} \ {None})
  <2>1. load.region \in LoadRegions(call[t].loads)
    BY <1>4, <1>7 DEF LoadRegions
  <2> QED
    BY <1>5, <1>7, <1>8, <2>1
<1>11. Sound(memory, [call EXCEPT ![t].loads[i] = l], current)
  <2>1. Spares(memory, memory, D) /\ l.region \notin D /\ call[t].pc # "filling"
    BY <1>1, <1>8 DEF Spares
  <2>2. Good(memory, D \cup ({l.region} \ {None}), With(Others(call, t), call[t].held), current)
    BY <1>3, <1>10
  <2>3. D = LoadRegions(call[t].loads) \ {call[t].loads[i].region}
    OBVIOUS
  <2> HIDE DEF D
  <2> QED
    BY <1>2, <1>8, <1>9, <2>1, <2>2, <2>3, LoadChanges
<1>12. call' = [call EXCEPT ![t].loads[i] = l]
  BY <1>1, <1>3 DEF l
<1> QED
  BY <1>1, <1>11, <1>12 DEF IInv


LEMMA DomainNat == ASSUME NEW q \in Seq(Int) PROVE DOMAIN q \subseteq Nat
<1>1. DOMAIN q = 1 .. Len(q) /\ Len(q) \in Nat
  BY LenProperties
<1> QED
  BY <1>1

\* y is x but for region r, which is accessible.
Reopened(x, y, r) ==
  /\ y \in Memory /\ y.registered = x.registered /\ y.idle = x.idle /\ y.pending = x.pending
  /\ y.tier = x.tier /\ y.batch = x.batch /\ y.maxOffered = x.maxOffered /\ y.missed = x.missed
  /\ y.regions[r].state = "open" /\ y.regions[r].data = x.regions[r].data
  /\ \A q \in Regions \ {r} : y.regions[q] = x.regions[q]
\* l is what becomes of a load whose worker is done.
Handed(load, l, r, missing) ==
  /\ l.pointer = load.pointer /\ l.region = r /\ l.missing = missing
  /\ l.offered = load.offered /\ l.worker = "back"

LEMMA OpenedFields ==
  ASSUME NEW x \in Memory, NEW r \in Regions, NEW y, y = [x EXCEPT !.regions[r].state = "open"]
  PROVE  Reopened(x, y, r)
<1> DEFINE regions == [x.regions EXCEPT ![r].state = "open"]
<1>1. /\ regions \in [Regions -> Region] /\ regions[r].state = "open" /\ regions[r].data = x.regions[r].data
      /\ \A q \in Regions \ {r} : regions[q] = x.regions[q]
  <2>1. x.regions \in [Regions -> Region] /\ x.regions[r] \in Region
    BY Fields
  <2>2. [x.regions[r] EXCEPT !.state = "open"] \in Region
    BY <2>1 DEF Region
  <2> QED
    BY <2>1, <2>2 DEF Region
<1>2. y = [x EXCEPT !.regions = regions]
  BY DEF Memory
<1> HIDE DEF regions
<1>3. [x EXCEPT !.regions = regions] \in Memory /\ [x EXCEPT !.regions = regions].regions = regions
  BY <1>1 DEF Memory
<1> QED
  BY <1>1, <1>2, <1>3 DEF Memory, Reopened

LEMMA DiscardedNat ==
  ASSUME NEW r, memory.regions[r] \in Region
  PROVE  Discarded(r) \subseteq DOMAIN memory.regions[r].data /\ Discarded(r) \in SUBSET Nat
<1> DEFINE data == memory.regions[r].data
<1>1. data \in Seq(Int)
  BY DEF Region
<1>2. Discarded(r) \subseteq DOMAIN data
  BY DEF Discarded
<1> HIDE DEF data
<1>3. DOMAIN data \subseteq Nat
  BY <1>1, DomainNat
<1> QED
  BY <1>2, <1>3 DEF data

\* What is to be known of a load that is being reclaimed.
LEMMA ReclaimParts ==
  ASSUME NEW t \in Threads, NEW i \in DOMAIN call[t].loads, NEW load, IInv,
         load = call[t].loads[i], Reclaiming(load)
  PROVE  /\ load \in CopyLoad /\ load.region \in Regions /\ load.region # None
         /\ load.region \in LoadRegions(call[t].loads) /\ load.offered /\ load.missing = 1 .. Size[load.pointer]
         /\ LoadRight(memory, load, current) /\ memory \in Memory
         /\ Good(memory, LoadRegions(call[t].loads), With(Others(call, t), call[t].held), current)
<1>1. Sound(memory, call, current)
  BY DEF IInv
<1>2. /\ call[t] \in Call /\ CallRight(memory, call[t], current)
      /\ Good(memory, LoadRegions(call[t].loads) \cup Apart(call, t), With(Others(call, t), call[t].held), current)
  BY <1>1, SoundParts
<1>3. call[t].loads \in Seq(CopyLoad)
  BY <1>2 DEF Call
<1>4. load \in CopyLoad /\ load \in ToSet(call[t].loads)
  BY <1>3, ElementsFinite
<1>5. Apart(call, t) = {}
  <2>1. call[t].loads # <<>>
    BY <1>4, NoLoads
  <2> QED
    BY <1>1, <2>1, SoundParts
<1>6. LoadRight(memory, load, current)
  BY <1>2 DEF CallRight, LoadsRight
<1>7. load.region # None /\ load.offered /\ load.missing = 1 .. Size[load.pointer]
  BY <1>6 DEF LoadRight
<1>8. load.region \in Regions
  BY <1>4, <1>7 DEF CopyLoad
<1>9. load.region \in LoadRegions(call[t].loads)
  BY <1>4, <1>7 DEF LoadRegions
<1>10. Good(memory, LoadRegions(call[t].loads), With(Others(call, t), call[t].held), current)
  BY <1>2, <1>5
<1>11. memory \in Memory
  BY <1>10, GoodParts
<1> QED
  BY <1>4, <1>6, <1>7, <1>8, <1>9, <1>10, <1>11

\* The region of a load that was reclaimed is accessible, and what Windows discarded is missing.
LEMMA ReclaimedRight ==
  ASSUME NEW x, NEW y, NEW load, NEW l, NEW missing, NEW cur,
         LoadRight(x, load, cur), Reclaiming(load), load.region # None, Reopened(x, y, load.region),
         Handed(load, l, load.region, missing),
         \A j \in DOMAIN x.regions[load.region].data \ missing : x.regions[load.region].data[j] # Junk
  PROVE  LoadRight(y, l, cur)
<1>1. /\ l.pointer = load.pointer /\ l.region = load.region /\ l.missing = missing
      /\ l.offered = load.offered /\ l.worker = "back"
  BY DEF Handed
<1>2. ~Reclaiming(l)
  BY <1>1 DEF Reclaiming
<1>3. load.offered
  BY DEF LoadRight
<1>4. y.regions[load.region].state = "open" /\ y.regions[load.region].data = x.regions[load.region].data
      /\ y.missed = x.missed
  BY DEF Reopened
<1>5. ASSUME l.pointer \notin y.missed, NEW j \in DOMAIN x.regions[load.region].data \ missing
      PROVE  x.regions[load.region].data[j] = cur[l.pointer]
  <2>1. Mixed(x, load.region, load.pointer, cur)
    BY <1>1, <1>4, <1>5 DEF LoadRight
  <2> QED
    BY <1>1, <1>5, <2>1 DEF Mixed
<1>6. l.worker # "none"
  BY <1>1
<1> QED
  BY <1>1, <1>2, <1>3, <1>4, <1>5, <1>6 DEF LoadRight

LEMMA ReopenedGood ==
  ASSUME NEW x \in Memory, NEW y, NEW r, NEW E, NEW n, NEW cur, Good(x, E, n, cur), r \in E, Reopened(x, y, r)
  PROVE  Good(y, E, n, cur)
<1>1. /\ y \in Memory /\ y.registered = x.registered /\ y.idle = x.idle /\ y.pending = x.pending
      /\ y.tier = x.tier /\ y.batch = x.batch /\ y.maxOffered = x.maxOffered /\ y.missed = x.missed
  BY DEF Reopened
<1>2. \A q \in Regions : y.regions[q] = x.regions[q] \/ (q \in E /\ y.regions[q].state # "free")
  <2>1. y.regions[r].state # "free" /\ \A q \in Regions \ {r} : y.regions[q] = x.regions[q]
    BY SMTT(40) DEF Reopened
  <2> QED
    BY <2>1
<1> QED
  BY <1>1, <1>2, GoodOwn

LEMMA ReclaimedSound ==
  ASSUME NEW t \in Threads, NEW i \in DOMAIN call[t].loads, NEW x, NEW load, NEW l \in CopyLoad,
         IInv, call[t].pc # "filling", load = call[t].loads[i], Reclaiming(load),
         Reopened(memory, x, load.region), Handed(load, l, load.region, Discarded(load.region))
  PROVE  Sound(x, [call EXCEPT ![t].loads[i] = l], current)
<1> DEFINE E == LoadRegions(call[t].loads)
           n == With(Others(call, t), call[t].held)
           D == E \ {load.region}
<1>1. /\ load.region \in Regions /\ load.region # None /\ load.region \in E
      /\ LoadRight(memory, load, current) /\ memory \in Memory /\ Good(memory, E, n, current)
  BY ReclaimParts
<1>2. D = LoadRegions(call[t].loads) \ {call[t].loads[i].region}
  OBVIOUS
<1> HIDE DEF E, n
<1>3. l.pointer = call[t].loads[i].pointer /\ l.region = load.region
  BY DEF Handed
<1>4. Sound(memory, call, current)
  BY DEF IInv
<1>5. Good(x, E, n, current)
  BY <1>1, ReopenedGood
<1>6. LoadRight(x, l, current)
  <2>1. \A r : \A j \in DOMAIN memory.regions[r].data \ Discarded(r) : memory.regions[r].data[j] # Junk
    BY ZenonT(20) DEF Discarded
  <2> QED
    BY <1>1, <2>1, ReclaimedRight
<1>7. D \cup ({l.region} \ {None}) = E /\ l.region \notin D
  BY <1>1, <1>3
<1>8. Spares(memory, x, D) /\ x.pending = memory.pending
  BY DEF Spares, Reopened
<1>9. Good(x, D \cup ({l.region} \ {None}), With(Others(call, t), call[t].held), current)
  BY <1>5, <1>7 DEF n
<1> HIDE DEF D
<1> QED
  BY <1>2, <1>3, <1>4, <1>6, <1>7, <1>8, <1>9, LoadChanges

\* What is to be known of a copy Windows did not give back.
LEMMA LostParts ==
  ASSUME NEW t \in Threads, NEW i \in DOMAIN call[t].loads, NEW load, NEW y, NEW D, IInv,
         load = call[t].loads[i], Reclaiming(load), y = Freed(memory, {load.region}),
         D = LoadRegions(call[t].loads) \ {load.region}
  PROVE  /\ load.region \in FreeRegions(y)
         /\ Good(y, D, With(Others(call, t), call[t].held), current) /\ Frame(memory, y, D)
<1> DEFINE n == With(Others(call, t), call[t].held)
           E == LoadRegions(call[t].loads)
<1>1. load.region \in Regions /\ load.region \in E /\ memory \in Memory /\ Good(memory, E, n, current)
  BY ReclaimParts
<1> HIDE DEF n, E
<1>2. D = E \ {load.region}
  BY DEF E
<1>3. \A r : r = load.region => r \in FreeRegions(y) /\ Good(y, D, n, current) /\ Frame(memory, y, D)
  <2> SUFFICES ASSUME NEW r, r = load.region
               PROVE  r \in FreeRegions(y) /\ Good(y, D, n, current) /\ Frame(memory, y, D)
    OBVIOUS
  <2> DEFINE V == {r}
  <2>1. D \cup V = E /\ D \cap V = {} /\ y = Freed(memory, V)
    BY <1>1, <1>2
  <2>2. Good(memory, D \cup V, n, current)
    BY <1>1, <2>1
  <2>3. y.regions[r] = Free
    BY <1>1, <2>1 DEF Freed, Memory
  <2>4. r \in FreeRegions(y)
    <3>1. y.regions[r].state = "free" /\ r \in Regions
      BY <1>1, <2>3 DEF Free
    <3> QED
      BY <3>1 DEF FreeRegions
  <2> HIDE DEF V
  <2> QED
    BY <2>1, <2>2, <2>4, FreedKeeps
<1> QED
  BY <1>3 DEF n

\* A copy that was lost is allocated again, all of it missing, or is given up.
LEMMA AgainRight ==
  ASSUME NEW y, NEW load, NEW l, NEW r, NEW cur, load.offered, r # None, Handed(load, l, r, load.missing),
         y.regions[r].state = "open", DOMAIN y.regions[r].data = load.missing
  PROVE  LoadRight(y, l, cur)
<1>1. l.region = r /\ l.missing = load.missing /\ l.offered /\ l.worker = "back"
  BY DEF Handed
<1>2. ~Reclaiming(l) /\ l.worker # "none"
  BY <1>1 DEF Reclaiming
<1> QED
  BY <1>1, <1>2 DEF LoadRight

LEMMA GivenUpRight ==
  ASSUME NEW y, NEW load, NEW l, NEW cur, load.offered, Handed(load, l, None, load.missing), l.error
  PROVE  LoadRight(y, l, cur)
<1>1. l.region = None /\ l.offered /\ l.worker = "back"
  BY DEF Handed
<1>2. ~Reclaiming(l) /\ l.worker # "none"
  BY <1>1 DEF Reclaiming
<1> QED
  BY <1>1, <1>2 DEF LoadRight

LEMMA AgainSound ==
  ASSUME NEW t \in Threads, NEW i \in DOMAIN call[t].loads, NEW load, NEW x, NEW l \in CopyLoad,
         IInv, call[t].pc # "filling", load = call[t].loads[i], Reclaiming(load),
         x = Freed(memory, {load.region}), Handed(load, l, Fresh(x), load.missing)
  PROVE  Sound(Allocated(x, load.pointer, Fresh(x)), [call EXCEPT ![t].loads[i] = l], current)
<1> DEFINE D == LoadRegions(call[t].loads) \ {load.region}
           n == With(Others(call, t), call[t].held)
           s == load.pointer
           r == Fresh(x)
           y == Allocated(x, s, r)
<1>1. /\ s \in Storages /\ load.offered /\ load.missing = 1 .. Size[s] /\ load.region \in FreeRegions(x)
      /\ Good(x, D, n, current) /\ Frame(memory, x, D)
  <2>1. load \in CopyLoad /\ load.offered /\ load.missing = 1 .. Size[load.pointer]
    BY ReclaimParts
  <2>2. load.region \in FreeRegions(x) /\ Good(x, D, n, current) /\ Frame(memory, x, D)
    BY LostParts
  <2>3. load.pointer \in Storages
    BY <2>1 DEF CopyLoad
  <2> QED
    BY <2>1, <2>2, <2>3
<1>2. Sound(memory, call, current) /\ None \notin Regions
  BY Sizes DEF IInv
<1>3. r \in FreeRegions(x)
  BY <1>1 DEF Fresh
<1>4. l.pointer = call[t].loads[i].pointer /\ l.region = r /\ D = LoadRegions(call[t].loads) \ {call[t].loads[i].region}
      /\ Handed(load, l, r, load.missing)
  BY DEF Handed
<1> HIDE DEF D, n, s, r
<1>5. /\ Good(y, D \cup {r}, n, current) /\ Frame(x, y, D) /\ r \in Regions /\ r \notin D
      /\ y.regions[r].state = "open" /\ DOMAIN y.regions[r].data = 1 .. Size[s]
  BY <1>1, <1>3, AllocatedKeeps
<1> HIDE DEF y
<1>6. Spares(memory, y, D) /\ y.pending = memory.pending
  <2>1. Frame(memory, y, D)
    BY <1>1, <1>5, FrameTwice
  <2> QED
    BY <2>1 DEF Frame, Spares
<1>7. LoadRight(y, l, current)
  BY <1>1, <1>2, <1>4, <1>5, AgainRight
<1>8. D \cup ({l.region} \ {None}) = D \cup {r} /\ l.region \notin D
  BY <1>2, <1>4, <1>5
<1>9. Good(y, D \cup ({l.region} \ {None}), With(Others(call, t), call[t].held), current)
  BY <1>5, <1>8 DEF n
<1>10. Sound(y, [call EXCEPT ![t].loads[i] = l], current)
  BY <1>2, <1>4, <1>6, <1>7, <1>8, <1>9, LoadChanges
<1> QED
  BY <1>10 DEF y, s, r

LEMMA GivenUpSound ==
  ASSUME NEW t \in Threads, NEW i \in DOMAIN call[t].loads, NEW load, NEW x, NEW l \in CopyLoad,
         IInv, call[t].pc # "filling", load = call[t].loads[i], Reclaiming(load),
         x = Freed(memory, {load.region}), Handed(load, l, None, load.missing), l.error
  PROVE  Sound(x, [call EXCEPT ![t].loads[i] = l], current)
<1> DEFINE D == LoadRegions(call[t].loads) \ {load.region}
           n == With(Others(call, t), call[t].held)
<1>1. load.offered /\ Good(x, D, n, current) /\ Frame(memory, x, D)
  BY ReclaimParts, LostParts
<1>2. Sound(memory, call, current)
  BY DEF IInv
<1>3. l.pointer = call[t].loads[i].pointer /\ l.region = None /\ D = LoadRegions(call[t].loads) \ {call[t].loads[i].region}
  BY DEF Handed
<1>4. None \notin D
  BY SMTT(40) DEF LoadRegions
<1> HIDE DEF D, n
<1>5. Spares(memory, x, D) /\ x.pending = memory.pending
  BY <1>1 DEF Frame, Spares
<1>6. LoadRight(x, l, current)
  BY <1>1, GivenUpRight
<1>7. D \cup ({l.region} \ {None}) = D /\ l.region \notin D
  BY <1>3, <1>4
<1>8. Good(x, D \cup ({l.region} \ {None}), With(Others(call, t), call[t].held), current)
  BY <1>1, <1>7 DEF n
<1> QED
  BY <1>2, <1>3, <1>5, <1>6, <1>7, <1>8, LoadChanges

\* A reclaim ends: the copy is back, lost and allocated again, or given up.
LEMMA ReclaimEndsSound ==
  ASSUME NEW t \in Threads, NEW i \in DOMAIN call[t].loads, IInv, ReclaimEnds(t, i)
  PROVE  IInv'
<1> DEFINE load == call[t].loads[i]
           freed == Freed(memory, {load.region})
           r == Fresh(freed)
           open == [memory EXCEPT !.regions[load.region].state = "open"]
           Back(l) == [l EXCEPT !.worker = "back"]
           Rest(l) == [Back(l) EXCEPT !.missing = Discarded(load.region)]
           Lost(l) == [Back(l) EXCEPT !.region = r]
           Failed(l) == [Back(l) EXCEPT !.region = None, !.error = TRUE]
<1>1. load.worker = "running" /\ current' = current
  BY SMTT(40) DEF ReclaimEnds
<1>2. \/ (memory' = open /\ call' = [call EXCEPT ![t].loads[i] = Rest(load)])
      \/ (memory' = Allocated(freed, load.pointer, r) /\ call' = [call EXCEPT ![t].loads[i] = Lost(load)])
      \/ (memory' = freed /\ call' = [call EXCEPT ![t].loads[i] = Failed(load)])
  BY DEF ReclaimEnds
<1>3. Reclaiming(load)
  BY <1>1 DEF Reclaiming
<1>4. /\ load \in CopyLoad /\ load.region \in Regions /\ load.offered /\ memory \in Memory
      /\ load.region \in FreeRegions(freed)
  BY <1>3, ReclaimParts, LostParts
<1>5. call[t].pc # "filling"
  <2>1. CallRight(memory, call[t], current)
    BY SoundParts DEF IInv
  <2> QED
    BY <1>4, <2>1 DEF CallRight
<1>6. load = call[t].loads[i] /\ freed = Freed(memory, {load.region}) /\ r = Fresh(freed)
  OBVIOUS
<1> HIDE DEF load
<1>7. CASE memory' = open /\ call' = [call EXCEPT ![t].loads[i] = Rest(load)]
  <2> DEFINE whole == Rest(load)
  <2>1. Discarded(load.region) \in SUBSET Nat
    BY <1>4, Fields, DiscardedNat
  <2>2. whole \in CopyLoad /\ Handed(load, whole, load.region, Discarded(load.region))
    BY <1>4, <2>1 DEF CopyLoad, Handed
  <2> HIDE DEF whole
  <2>3. Reopened(memory, open, load.region)
    BY <1>4, OpenedFields
  <2> HIDE DEF open
  <2>4. Sound(open, [call EXCEPT ![t].loads[i] = whole], current)
    BY <1>3, <1>5, <1>6, <2>2, <2>3, ReclaimedSound
  <2> QED
    BY <1>1, <1>7, <2>4 DEF IInv, whole
<1>8. CASE memory' = Allocated(freed, load.pointer, r) /\ call' = [call EXCEPT ![t].loads[i] = Lost(load)]
  <2> DEFINE lost == Lost(load)
             y == Allocated(freed, load.pointer, r)
  <2> HIDE DEF freed
  <2>1. r \in Regions
    BY <1>4 DEF Fresh, FreeRegions
  <2> HIDE DEF r
  <2>2. lost \in CopyLoad /\ Handed(load, lost, r, load.missing)
    BY <1>4, <2>1 DEF CopyLoad, Handed
  <2> HIDE DEF lost
  <2>3. y = Allocated(freed, load.pointer, Fresh(freed)) /\ Handed(load, lost, Fresh(freed), load.missing)
    BY <1>6, <2>2
  <2> HIDE DEF y
  <2>4. Sound(y, [call EXCEPT ![t].loads[i] = lost], current)
    BY <1>3, <1>5, <1>6, <2>2, <2>3, AgainSound
  <2> QED
    BY <1>1, <1>8, <2>4 DEF IInv, y, lost
<1>9. CASE memory' = freed /\ call' = [call EXCEPT ![t].loads[i] = Failed(load)]
  <2> DEFINE failed == Failed(load)
  <2> HIDE DEF freed, r
  <2>1. failed \in CopyLoad /\ Handed(load, failed, None, load.missing) /\ failed.error
    BY <1>4 DEF CopyLoad, Handed
  <2> HIDE DEF failed
  <2>2. Sound(freed, [call EXCEPT ![t].loads[i] = failed], current)
    BY <1>3, <1>5, <1>6, <2>1, GivenUpSound
  <2> QED
    BY <1>1, <1>9, <2>2 DEF IInv, failed
<1> QED
  BY SMTT(40), <1>2, <1>7, <1>8, <1>9

\* A thread whose loads are settled goes on to `next`, or discards what is pending.
LEMMA RegisteringSound ==
  ASSUME NEW t \in Threads, NEW a, NEW L, NEW next \in {"preparing", "filling", "leased"},
         IInv, call[t].loads # <<>>,
         Settling(a, ToSet(call[t].request), L, Others(call, t), current),
         next = "filling" => \A l \in L : ~l.offered,
         next = "leased" /\ a.result = "all" => a.loads = <<>>,
         Registering(t, a, next)
  PROVE  IInv'
<1> DEFINE pc == CASE a.result = "all" -> next [] a.result = "capacity" -> "closing" [] a.result = "raised" -> "raising"
           c == [call[t] EXCEPT !.loads = a.loads, !.held = a.held, !.created = a.created, !.pc = pc]
<1>1. memory' = a.x /\ call' = [call EXCEPT ![t] = c] /\ current' = current
  <2>1. call \in [Threads -> Call]
    BY DEF IInv, Sound
  <2> QED
    BY <2>1 DEF Registering
<1>2. Sound(memory, call, current)
  BY DEF IInv
<1>3. call[t] \in Call /\ CallRight(memory, call[t], current) /\ Apart(call, t) = {} /\ Awaited(call, t) = {}
  BY <1>2, SoundParts
<1>4. \A u \in Threads : u # t => call[u].loads = <<>>
  BY <1>2 DEF Sound
<1>5. a.loads \in Seq(CopyLoad) /\ a.held \in Seq(Storages) /\ a.created \in SUBSET Storages
      /\ a.result \in {"all", "capacity", "raised"}
  BY DEF Settling, Progress
<1>6. pc \in {"preparing", "filling", "leased", "closing", "raising"}
      /\ (pc \in {"filling", "leased"} => next = pc /\ a.result = "all")
  BY <1>5
<1> HIDE DEF pc
<1>7. c \in Call /\ c.loads = a.loads /\ c.held = a.held /\ c.request = call[t].request /\ c.pc = pc
  BY <1>3, <1>5, <1>6 DEF Call
<1> HIDE DEF c
<1>8. CallRight(a.x, c, current)
  <2>1. c.pc # "idle" /\ (c.pc = "leased" => c.loads = <<>>)
    BY <1>6, <1>7
  <2>2. c.pc = "filling" => \A i \in DOMAIN c.loads : ~c.loads[i].offered
    <3>1. ASSUME c.pc = "filling", NEW i \in DOMAIN c.loads
          PROVE  ~c.loads[i].offered
      <4>1. c.loads[i] \in ToSet(a.loads)
        BY <1>5, <1>7, <3>1, ElementsFinite
      <4> QED
        BY <1>6, <1>7, <3>1, <4>1 DEF Settling
    <3> QED
      BY <3>1
  <2>3. /\ IsInjective(c.held) /\ ToSet(c.held) \subseteq ToSet(c.request) /\ Pointers(c.loads) \subseteq ToSet(c.request)
        /\ LoadsApart(c.loads) /\ LoadsRight(a.x, c.loads, current)
    BY <1>7 DEF Settling
  <2> QED
    BY <2>1, <2>2, <2>3 DEF CallRight
<1>9. Good(a.x, LoadRegions(c.loads) \cup Apart(call, t), With(Others(call, t), c.held), current)
  BY <1>3, <1>7 DEF Settling
<1>10. a.x.pending = Pointers(c.loads) \cup Awaited(call, t)
  BY <1>3, <1>7 DEF Settling
<1>11. Sound(a.x, [call EXCEPT ![t] = c], current)
  BY <1>2, <1>4, <1>7, <1>8, <1>9, <1>10, ThreadStep
<1> QED
  BY <1>1, <1>11 DEF IInv

\* Thread t, with its call as c, registers what is ready of its loads.
LEMMA RegisteredSound ==
  ASSUME NEW t \in Threads, NEW x, NEW c \in Call, NEW early \in Storages \cup {None}, NEW answers,
         NEW o \in Outcome, NEW next \in {"preparing", "filling", "leased"}, IInv,
         call[t].loads # <<>>, c.held = call[t].held,
         Good(x, LoadRegions(c.loads), With(Others(call, t), call[t].held), current),
         x.pending = Pointers(c.loads), Pointers(c.loads) \subseteq ToSet(call[t].request),
         LoadsApart(c.loads), LoadsRight(x, c.loads, current),
         early # None => \E l \in ToSet(c.loads) : l.pointer = early /\ Ready(l),
         next = "filling" => \A l \in ToSet(c.loads) : ~l.offered,
         next = "leased" => \A l \in ToSet(c.loads) : Ready(l),
         Registering(t, RegisterPending(x, c, early, answers, o), next)
  PROVE  IInv'
<1> DEFINE base == [x |-> x, loads |-> c.loads, held |-> c.held, created |-> c.created, early |-> early, result |-> "all"]
           b == RegisterPending(x, c, early, answers, o)
           S == ToSet(call[t].request)
           n == Others(call, t)
<1>1. /\ n \in [Storages -> Nat] /\ IsInjective(call[t].held) /\ ToSet(call[t].held) \subseteq S
  BY SoundParts DEF IInv, CallRight
<1>2. c.loads \in Seq(CopyLoad) /\ c.held \in Seq(Storages) /\ c.created \in SUBSET Storages /\ x \in Memory
  BY GoodParts DEF Call
<1>3. base \in Progress
  BY <1>2 DEF Progress
<1>4. /\ base.x = x /\ base.loads = c.loads /\ base.held = c.held /\ base.early = early
  OBVIOUS
<1> HIDE DEF S, n
<1>5. Settling(base, S, ToSet(c.loads), n, current)
  <2> HIDE DEF base
  <2> QED
    BY <1>1, <1>3, <1>4 DEF Settling, S, n
<1>6. /\ Settling(b, S, ToSet(c.loads), n, current)
      /\ (\A l \in ToSet(c.loads) : Ready(l)) /\ b.result = "all" => b.loads = <<>>
  <2>1. base = [x |-> x, loads |-> c.loads, held |-> c.held, created |-> c.created, early |-> early, result |-> "all"]
    OBVIOUS
  <2> HIDE DEF base
  <2>2. Enlisted(RegisterPending(x, c, early, answers, o), c, S, n, current)
    BY <1>5, <2>1, RegisterPendingKeeps
  <2> QED
    BY <2>2 DEF Enlisted
<1> HIDE DEF b
<1>7. Registering(t, b, next)
  BY DEF b
<1> QED
  BY <1>6, <1>7, RegisteringSound DEF S, n

\* The first reclaimed copy that is back is handed on, and registered if it is whole.
LEMMA YieldSound == ASSUME NEW t \in Threads, IInv, Yield(t) PROVE IInv'
<1> DEFINE loads == call[t].loads
           first == SelectInSeq(loads, LAMBDA l : l.offered)
           load == loads[first]
           l == [load EXCEPT !.offered = FALSE, !.worker = "none"]
           q == [loads EXCEPT ![first] = l]
           given == [call[t] EXCEPT !.loads[first] = [@ EXCEPT !.offered = FALSE, !.worker = "none"]]
           early == IF Ready(given.loads[first]) THEN load.pointer ELSE None
           n == With(Others(call, t), call[t].held)
<1>1. PICK o \in Evictions, answers \in Answering(t, {i \in DOMAIN loads : i = first \/ ~loads[i].offered}) :
        /\ first # 0 /\ load.worker = "back"
        /\ Registering(t, RegisterPending(memory, given, early, answers, o), "preparing")
  BY DEF Yield
<1>2. o \in Outcome
  BY OutcomeType DEF Evictions
<1>3. Sound(memory, call, current)
  BY DEF IInv
<1>4. call[t] \in Call /\ CallRight(memory, call[t], current) /\ loads \in Seq(CopyLoad)
  <2>1. call[t] \in Call /\ CallRight(memory, call[t], current)
    BY <1>3, SoundParts
  <2> QED
    BY <2>1 DEF Call
<1>5. first \in DOMAIN loads /\ load \in CopyLoad
  <2> DEFINE I == {i \in 1 .. Len(loads) : loads[i].offered}
  <2>1. first = IF I # {} THEN Min(I) ELSE 0
    BY DEF SelectInSeq
  <2>2. I # {}
    BY <1>1, <2>1
  <2>3. Len(loads) \in Nat /\ DOMAIN loads = 1 .. Len(loads)
    BY <1>4, LenProperties
  <2>4. Min(I) \in I
    <3>1. I \in SUBSET (0 .. Len(loads))
      BY <2>3
    <3> HIDE DEF I
    <3> QED
      BY <2>2, <2>3, <3>1, MinLeast
  <2>5. first \in DOMAIN loads
    BY <2>1, <2>2, <2>3, <2>4
  <2> HIDE DEF first, loads
  <2> QED
    BY <1>4, <2>5, ElementsFinite
<1> HIDE DEF first
<1>6. Apart(call, t) = {} /\ Awaited(call, t) = {} /\ loads # <<>>
  <2>1. loads # <<>>
    BY <1>5, NoLoads
  <2> QED
    BY <1>3, <2>1, SoundParts
<1>7. /\ Good(memory, LoadRegions(loads), n, current) /\ memory.pending = Pointers(loads)
      /\ LoadsApart(loads) /\ LoadsRight(memory, loads, current) /\ Pointers(loads) \subseteq ToSet(call[t].request)
  <2>1. Good(memory, LoadRegions(loads) \cup Apart(call, t), n, current) /\ memory.pending = Pointers(loads) \cup Awaited(call, t)
    BY <1>3, SoundParts
  <2> QED
    BY <1>4, <1>6, <2>1 DEF CallRight
<1>8. l \in CopyLoad /\ l.pointer = load.pointer /\ l.region = load.region /\ l.missing = load.missing
      /\ l.error = load.error /\ ~l.offered /\ l.worker = "none"
  <2> HIDE DEF load
  <2> QED
    BY <1>5 DEF CopyLoad
<1> HIDE DEF l
<1>9. LoadRight(memory, l, current)
  <2>1. LoadRight(memory, load, current)
    BY <1>5, <1>7 DEF LoadsRight
  <2> QED
    BY ZenonT(60), <1>1, <1>8, <2>1 DEF LoadRight, Reclaiming
<1>10. /\ q \in Seq(CopyLoad) /\ DOMAIN q = DOMAIN loads /\ LoadsApart(q) /\ q[first] = l
       /\ \A j \in DOMAIN loads : j # first => q[j] = loads[j]
       /\ Pointers(q) = Pointers(loads)
       /\ LoadRegions(q) = LoadRegions(loads)
  <2>1. l.region \notin LoadRegions(loads) \ {load.region}
    BY <1>8
  <2>2. LET p == [loads EXCEPT ![first] = l]
        IN  /\ p \in Seq(CopyLoad) /\ DOMAIN p = DOMAIN loads /\ LoadsApart(p) /\ p[first] = l
            /\ \A j \in DOMAIN loads : j # first => p[j] = loads[j]
            /\ Pointers(p) = Pointers(loads)
            /\ LoadRegions(p) = (LoadRegions(loads) \ {loads[first].region}) \cup ({l.region} \ {None})
    <3>1. l.pointer = loads[first].pointer /\ l.region \notin LoadRegions(loads) \ {loads[first].region}
      BY <1>8
    <3> HIDE DEF loads
    <3> QED
      BY <1>4, <1>5, <1>7, <1>8, <3>1, LoadReplaced
  <2>3. (LoadRegions(loads) \ {load.region}) \cup ({l.region} \ {None}) = LoadRegions(loads)
    <3>1. load \in ToSet(loads)
      BY <1>4, <1>5, ElementsFinite
    <3>2. load.region # None => load.region \in LoadRegions(loads)
      BY <3>1 DEF LoadRegions
    <3>3. None \notin LoadRegions(loads)
      BY DEF LoadRegions
    <3> QED
      BY <1>8, <3>2, <3>3
  <2> QED
    BY <2>2, <2>3
<1>11. LoadsRight(memory, q, current)
  BY <1>7, <1>9, <1>10 DEF LoadsRight
<1>12. given \in Call /\ given.loads = q /\ given.held = call[t].held
  <2>1. given = [call[t] EXCEPT !.loads = q]
    BY <1>4 DEF q, l, Call
  <2> HIDE DEF given, q
  <2> QED
    BY <1>4, <1>10, <2>1 DEF Call
<1>13. early \in Storages \cup {None}
       /\ (early # None => \E k \in ToSet(given.loads) : k.pointer = early /\ Ready(k))
  <2>1. given.loads[first] = l /\ l \in ToSet(given.loads)
    <3>1. q[first] \in ToSet(q)
      <4> HIDE DEF q
      <4> QED
        BY <1>5, <1>10, ElementsFinite
    <3> QED
      BY <1>10, <1>12, <3>1
  <2>2. load.pointer \in Storages
    BY <1>5 DEF CopyLoad
  <2> HIDE DEF given, load
  <2> QED
    BY <1>8, <2>1, <2>2
<1> HIDE DEF given, q, early, n
<1>14. Good(memory, LoadRegions(given.loads), With(Others(call, t), call[t].held), current)
  BY <1>7, <1>10, <1>12 DEF n
<1>15. /\ memory.pending = Pointers(given.loads) /\ Pointers(given.loads) \subseteq ToSet(call[t].request)
       /\ LoadsApart(given.loads) /\ LoadsRight(memory, given.loads, current)
  BY <1>7, <1>10, <1>11, <1>12
<1>16. Registering(t, RegisterPending(memory, given, early, answers, o), "preparing")
  BY <1>1
<1> QED
  BY <1>2, <1>6, <1>12, <1>13, <1>14, <1>15, <1>16, RegisteredSound


\* Thread t's call and the memory after some of its unfilled copies were filled.
Filled(x, c, t, which) ==
  /\ c \in Call /\ c.held = call[t].held /\ c.request = call[t].request
  /\ DOMAIN c.loads = DOMAIN call[t].loads /\ Pointers(c.loads) = Pointers(call[t].loads)
  /\ \A i \in DOMAIN c.loads : ~c.loads[i].offered /\ (i \in which \/ i \notin Unfilled(t) => Ready(c.loads[i]))
  /\ Good(x, LoadRegions(c.loads) \cup Apart(call, t), With(Others(call, t), call[t].held), current)
  /\ x.pending = memory.pending /\ Spares(memory, x, Apart(call, t))
  /\ LoadsApart(c.loads) /\ LoadsRight(x, c.loads, current)

\* What is missing of a copy is read from the storage now at its address; a copy that
\* cannot be read is not registered.
LEMMA FillKeeps ==
  ASSUME NEW t \in Threads, NEW which \in SUBSET Unfilled(t), NEW failing, IInv,
         \A i \in DOMAIN call[t].loads : ~call[t].loads[i].offered
  PROVE  Filled(Fill(memory, call[t], which, failing).x, Fill(memory, call[t], which, failing).c, t, which)
<1> DEFINE loads == call[t].loads
           E == LoadRegions(loads) \cup Apart(call, t)
           n == With(Others(call, t), call[t].held)
           fills == {i \in which : loads[i].pointer \notin failing}
           To(r) == \E i \in fills : loads[i].region = r
           Of(r) == CHOOSE l \in ToSet(loads) : l.region = r
           data(r) == [j \in DOMAIN memory.regions[r].data |->
                         IF j \in Of(r).missing THEN current[Of(r).pointer] ELSE memory.regions[r].data[j]]
           regions == [r \in Regions |-> IF To(r) THEN [memory.regions[r] EXCEPT !.data = data(r)] ELSE memory.regions[r]]
           x == [memory EXCEPT !.regions = regions]
           q == [i \in DOMAIN loads |-> IF i \in fills THEN [loads[i] EXCEPT !.missing = {}]
                                        ELSE IF i \in which THEN [loads[i] EXCEPT !.error = TRUE] ELSE loads[i]]
           c == [call[t] EXCEPT !.loads = q]
<1>1. Sound(memory, call, current)
  BY DEF IInv
<1>2. /\ call[t] \in Call /\ CallRight(memory, call[t], current) /\ current \in [Storages -> Nat]
      /\ Good(memory, E, n, current)
  BY <1>1, SoundParts
<1>3. loads \in Seq(CopyLoad) /\ DOMAIN loads = 1 .. Len(loads) /\ Len(loads) \in Nat
  <2>1. loads \in Seq(CopyLoad)
    BY <1>2 DEF Call
  <2> HIDE DEF loads
  <2> QED
    BY <2>1, LenProperties
<1>4. memory \in Memory /\ memory.regions \in [Regions -> Region]
  BY <1>2, GoodParts, Fields
<1>5. LoadsApart(loads) /\ LoadsRight(memory, loads, current)
  BY <1>2 DEF CallRight
<1>6. which \subseteq DOMAIN loads /\ fills \subseteq which
      /\ (\A i \in DOMAIN loads : i \in Unfilled(t) <=> loads[i].missing # {} /\ ~loads[i].error)
  BY DEF Unfilled
<1>7. ASSUME NEW i \in DOMAIN loads
      PROVE  /\ loads[i] \in CopyLoad /\ loads[i].pointer \in Storages /\ ~Reclaiming(loads[i])
             /\ loads[i].worker = "none" /\ loads[i].region \in Regions \cup {None}
             /\ loads[i].region # None => /\ loads[i].region \in LoadRegions(loads)
                                          /\ loads[i].region \in Regions
                                          /\ memory.regions[loads[i].region].state = "open"
             /\ loads[i].region = None => i \notin which
  <2>1. loads[i] \in CopyLoad /\ loads[i] \in ToSet(loads)
    BY <1>3, <1>7, ElementsFinite
  <2>2. LoadRight(memory, loads[i], current) /\ ~loads[i].offered
    BY <1>5, <1>7 DEF LoadsRight
  <2>3. loads[i].pointer \in Storages /\ loads[i].region \in Regions \cup {None}
    BY <2>1 DEF CopyLoad
  <2>4. loads[i].worker = "none" /\ ~Reclaiming(loads[i])
    BY <2>2 DEF LoadRight, Reclaiming
  <2>5. loads[i].region # None => loads[i].region \in LoadRegions(loads) /\ loads[i].region \in Regions
    BY <2>1, <2>3 DEF LoadRegions
  <2>6. loads[i].region # None => memory.regions[loads[i].region].state = "open"
    BY <2>2, <2>4 DEF LoadRight
  <2>7. loads[i].region = None => i \notin which
    BY <1>6, <2>2 DEF LoadRight
  <2> QED
    BY <2>1, <2>3, <2>4, <2>5, <2>6, <2>7
<1>8. ASSUME NEW i \in fills
      PROVE  Of(loads[i].region) = loads[i] /\ loads[i].region # None
  <2>1. i \in DOMAIN loads /\ loads[i].region # None
    BY <1>6, <1>7
  <2>2. loads[i] \in ToSet(loads)
    BY <1>3, <2>1, ElementsFinite
  <2>3. \A l \in ToSet(loads) : l.region = loads[i].region => l = loads[i]
    <3>1. ASSUME NEW l \in ToSet(loads), l.region = loads[i].region
          PROVE  l = loads[i]
      <4>1. PICK j \in DOMAIN loads : l = loads[j]
        BY DEF ToSet
      <4> QED
        BY <1>5, <2>1, <3>1, <4>1 DEF LoadsApart
    <3> QED
      BY <3>1
  <2> QED
    BY <2>1, <2>2, <2>3
<1> HIDE DEF Of
<1>9. ASSUME NEW r \in Regions
      PROVE  /\ regions[r] \in Region /\ regions[r].state = memory.regions[r].state
             /\ ~To(r) => regions[r] = memory.regions[r]
             /\ To(r) => regions[r].data = data(r) /\ r \in LoadRegions(loads) /\ regions[r].state = "open"
  <2>1. memory.regions[r] \in Region
    BY <1>4
  <2>2. CASE To(r)
    <3>1. PICK i \in fills : loads[i].region = r
      BY <2>2
    <3>2. i \in DOMAIN loads
      BY <1>6
    <3>3. Of(r) = loads[i] /\ r # None
      BY <1>8, <3>1
    <3>4. loads[i].pointer \in Storages /\ memory.regions[r].state = "open" /\ r \in LoadRegions(loads)
      BY <1>7, <3>1, <3>2, <3>3
    <3>5. data(r) \in Seq(Int)
      <4> DEFINE d == memory.regions[r].data
      <4>1. d \in Seq(Int)
        BY <2>1 DEF Region
      <4>2. current[Of(r).pointer] \in Int
        BY <1>2, <3>3, <3>4
      <4> HIDE DEF d
      <4>3. DOMAIN d = 1 .. Len(d) /\ Len(d) \in Nat /\ \A j \in DOMAIN d : d[j] \in Int
        BY <4>1, LenProperties
      <4>4. [j \in DOMAIN d |-> IF j \in Of(r).missing THEN current[Of(r).pointer] ELSE d[j]] \in Seq(Int)
        BY <4>2, <4>3
      <4> QED
        BY <4>4 DEF d
    <3> HIDE DEF data
    <3>6. regions[r] = [memory.regions[r] EXCEPT !.data = data(r)]
      BY <2>2
    <3> HIDE DEF regions
    <3>7. regions[r] \in Region /\ regions[r].state = memory.regions[r].state /\ regions[r].data = data(r)
      BY <2>1, <3>5, <3>6 DEF Region
    <3> QED
      BY <2>2, <3>4, <3>7
  <2>3. CASE ~To(r)
    <3>1. regions[r] = memory.regions[r]
      BY <2>3
    <3> HIDE DEF regions, To
    <3> QED
      BY <2>1, <2>3, <3>1
  <2> QED
    BY <2>2, <2>3
<1>10. regions \in [Regions -> Region]
  <2> DEFINE region(r) == IF To(r) THEN [memory.regions[r] EXCEPT !.data = data(r)] ELSE memory.regions[r]
  <2>1. \A r \in Regions : region(r) \in Region
    BY <1>9
  <2> HIDE DEF region
  <2>2. [r \in Regions |-> region(r)] \in [Regions -> Region]
    BY <2>1
  <2> QED
    BY <2>2 DEF region
<1> HIDE DEF regions
<1>11. /\ x \in Memory /\ x.registered = memory.registered /\ x.idle = memory.idle
       /\ x.pending = memory.pending /\ x.tier = memory.tier /\ x.batch = memory.batch
       /\ x.maxOffered = memory.maxOffered /\ x.missed = memory.missed /\ x.regions = regions
  BY <1>4, <1>10 DEF Memory
<1> HIDE DEF x
<1>12. Good(x, E, n, current)
  <2>1. \A r \in Regions : x.regions[r] = memory.regions[r] \/ (r \in E /\ x.regions[r].state # "free")
    <3> HIDE DEF To, data
    <3> QED
      BY <1>9, <1>11
  <2> HIDE DEF E, n
  <2> QED
    BY <1>2, <1>11, <2>1, GoodOwn
<1>13. ASSUME NEW i \in DOMAIN loads
       PROVE  /\ q[i] \in CopyLoad /\ q[i].pointer = loads[i].pointer /\ q[i].region = loads[i].region
              /\ q[i].worker = loads[i].worker /\ ~q[i].offered
              /\ i \in fills => q[i].missing = {}
              /\ i \in which \ fills => q[i].error
              /\ i \notin which => q[i] = loads[i]
              /\ i \notin fills => q[i].missing = loads[i].missing
              /\ loads[i].error => q[i].error
  <2> DEFINE l == loads[i]
  <2>1. l \in CopyLoad /\ ~l.offered
    BY <1>7
  <2>2. q[i] = IF i \in fills THEN [l EXCEPT !.missing = {}] ELSE IF i \in which THEN [l EXCEPT !.error = TRUE] ELSE l
    OBVIOUS
  <2>3. i \in fills => i \in which
    BY <1>6
  <2> HIDE DEF fills, q, l
  <2>4. CASE i \in fills
    <3>1. q[i] = [l EXCEPT !.missing = {}] /\ {} \in SUBSET Nat
      BY <2>2, <2>4
    <3>2. q[i] \in CopyLoad /\ q[i].pointer = l.pointer /\ q[i].region = l.region /\ q[i].worker = l.worker
          /\ ~q[i].offered /\ q[i].missing = {} /\ q[i].error = l.error
      BY <2>1, <3>1 DEF CopyLoad
    <3> QED
      BY <2>3, <2>4, <3>2 DEF l
  <2>5. CASE i \notin fills /\ i \in which
    <3>1. q[i] = [l EXCEPT !.error = TRUE]
      BY <2>2, <2>5
    <3>2. q[i] \in CopyLoad /\ q[i].pointer = l.pointer /\ q[i].region = l.region /\ q[i].worker = l.worker
          /\ ~q[i].offered /\ q[i].missing = l.missing /\ q[i].error
      BY <2>1, <3>1 DEF CopyLoad
    <3> QED
      BY <2>5, <3>2 DEF l
  <2>6. CASE i \notin which
    <3>1. q[i] = l /\ i \notin fills
      BY <2>2, <2>3, <2>6
    <3> QED
      BY <2>1, <2>6, <3>1 DEF l
  <2> QED
    BY <2>4, <2>5, <2>6
<1>14. q \in Seq(CopyLoad) /\ DOMAIN q = DOMAIN loads
  <2>1. DOMAIN q = 1 .. Len(loads) /\ \A i \in 1 .. Len(loads) : q[i] \in CopyLoad
    BY <1>3, <1>13
  <2>2. q = [i \in 1 .. Len(loads) |-> q[i]]
    BY <1>3
  <2> HIDE DEF q
  <2>3. [i \in 1 .. Len(loads) |-> q[i]] \in Seq(CopyLoad)
    BY <1>3, <2>1
  <2> QED
    BY SMTT(40), <1>3, <2>1, <2>2, <2>3
<1> HIDE DEF q, fills
<1>15. Pointers(q) = Pointers(loads) /\ LoadRegions(q) = LoadRegions(loads)
  <2>1. ToSet(q) = {q[i] : i \in DOMAIN loads} /\ ToSet(loads) = {loads[i] : i \in DOMAIN loads}
    BY <1>14 DEF ToSet
  <2> HIDE DEF loads
  <2>2. {l.pointer : l \in ToSet(q)} = {l.pointer : l \in ToSet(loads)}
    BY <1>13, <2>1
  <2>3. {l.region : l \in ToSet(q)} = {l.region : l \in ToSet(loads)}
    BY <1>13, <2>1
  <2> QED
    BY <2>2, <2>3 DEF Pointers, LoadRegions
<1>16. LoadsApart(q)
  BY <1>5, <1>13, <1>14 DEF LoadsApart
<1>17. LoadsRight(x, q, current)
  <2>1. ASSUME NEW i \in DOMAIN loads
        PROVE  LoadRight(x, q[i], current)
    <3> DEFINE l == loads[i]
               r == l.region
    <3>1. LoadRight(memory, l, current)
      BY <1>5, <2>1 DEF LoadsRight
    <3>2. r = None => q[i].error
      BY <1>13, <2>1, <3>1 DEF LoadRight
    <3>3. ~Reclaiming(q[i])
      BY <1>7, <1>13, <2>1 DEF Reclaiming
    <3>4. ASSUME r # None
          PROVE  /\ x.regions[r].state = "open"
                 /\ q[i].pointer \notin x.missed =>
                      \A j \in DOMAIN x.regions[r].data \ q[i].missing : x.regions[r].data[j] = current[q[i].pointer]
      <4>1. r \in Regions /\ memory.regions[r].state = "open"
        BY <1>7, <2>1, <3>4
      <4>2. x.regions[r] = regions[r] /\ x.regions[r].state = "open"
        <5> HIDE DEF To, data, l, r
        <5> QED
          BY SMTT(40), <1>9, <1>11, <4>1
      <4>3. ASSUME l.pointer \notin memory.missed, NEW j \in DOMAIN memory.regions[r].data, j \notin l.missing
            PROVE  memory.regions[r].data[j] = current[l.pointer]
        BY <1>7, <2>1, <3>1, <3>4, <4>3 DEF LoadRight
      <4>4. CASE i \in fills
        <5>1. To(r) /\ Of(r) = l
          BY <1>8, <4>4
        <5>2. regions[r].data = data(r)
          <6> HIDE DEF data, To, r
          <6> QED
            BY ZenonT(60), <1>9, <4>1, <5>1
        <5>3. \A j \in DOMAIN memory.regions[r].data :
                data(r)[j] = IF j \in l.missing THEN current[l.pointer] ELSE memory.regions[r].data[j]
          BY ZenonT(60), <5>1
        <5>4. DOMAIN data(r) = DOMAIN memory.regions[r].data
          OBVIOUS
        <5>5. q[i].pointer = l.pointer /\ x.missed = memory.missed
          BY ZenonT(60), <1>11, <1>13, <2>1
        <5>6. x.regions[r].data = data(r)
          BY ZenonT(60), <4>2, <5>2
        <5> HIDE DEF data, l, r, To
        <5> QED
          BY <4>2, <4>3, <5>3, <5>4, <5>5, <5>6
      <4>5. CASE i \notin fills
        <5>1. ~To(r)
          <6>1. ASSUME To(r) PROVE FALSE
            <7>1. PICK k \in fills : loads[k].region = r
              BY <6>1
            <7>2. k \in DOMAIN loads /\ k # i
              BY <1>6, <4>5, <7>1
            <7> QED
              BY <1>5, <2>1, <3>4, <7>1, <7>2 DEF LoadsApart
          <6> QED
            BY <6>1
        <5>2. regions[r] = memory.regions[r]
          <6> HIDE DEF data, To, r
          <6> QED
            BY <1>9, <4>1, <5>1
        <5>3. q[i].pointer = l.pointer /\ q[i].missing = l.missing /\ x.missed = memory.missed
          BY <1>11, <1>13, <2>1, <4>5
        <5> HIDE DEF data, l, r, To
        <5> QED
          BY <4>2, <4>3, <5>2, <5>3
      <4> QED
        BY <4>4, <4>5
    <3>5. q[i].region = r /\ q[i].worker = "none" /\ ~q[i].offered
      BY <1>7, <1>13, <2>1
    <3> HIDE DEF r, l
    <3> QED
      BY <3>2, <3>3, <3>4, <3>5 DEF LoadRight
  <2> QED
    BY <1>14, <2>1 DEF LoadsRight
<1>18. \A i \in DOMAIN q : ~q[i].offered /\ (i \in which \/ i \notin Unfilled(t) => Ready(q[i]))
  <2>1. ASSUME NEW i \in DOMAIN loads, i \in which \/ i \notin Unfilled(t)
        PROVE  Ready(q[i])
    <3>1. q[i].missing = {} \/ q[i].error
      <4>1. CASE i \in which
        BY <1>13, <2>1, <4>1
      <4>2. CASE i \notin which
        BY <1>6, <1>13, <2>1, <4>2
      <4> QED
        BY <4>1, <4>2
    <3> QED
      BY <1>13, <2>1, <3>1 DEF Ready
  <2> QED
    BY <1>13, <1>14, <2>1
<1>19. c \in Call /\ c.loads = q /\ c.held = call[t].held /\ c.request = call[t].request
  BY <1>2, <1>14 DEF Call
<1>20. Spares(memory, x, Apart(call, t))
  <2>1. ASSUME NEW r \in Apart(call, t) \cap Regions
        PROVE  x.regions[r] = memory.regions[r]
    <3>1. CASE loads = <<>>
      <4>1. LoadRegions(loads) = {}
        BY <3>1, NoLoads
      <4> HIDE DEF To, data
      <4> QED
        BY <1>9, <1>11, <2>1, <4>1
    <3>2. CASE loads # <<>>
      BY <1>1, <2>1, <3>2, SoundParts
    <3> QED
      BY <3>1, <3>2
  <2> QED
    BY <1>11, <2>1 DEF Spares
<1> HIDE DEF c
<1>21. Filled(x, c, t, which)
  BY <1>11, <1>12, <1>14, <1>15, <1>16, <1>17, <1>18, <1>19, <1>20 DEF Filled
<1>22. Fill(memory, call[t], which, failing) = [x |-> x, c |-> c]
  BY DEF Fill, x, c, q, fills, regions, Of
<1> QED
  BY <1>21, <1>22


\* The first copy that misses something is filled alone, and what is ready is registered.
LEMMA FillFirstSound == ASSUME NEW t \in Threads, IInv, FillFirst(t) PROVE IInv'
<1> DEFINE first == Min(Unfilled(t))
           filled(failing) == Fill(memory, call[t], {first}, failing)
<1>1. PICK failing \in SUBSET {call[t].loads[first].pointer}, o \in Evictions,
           answers \in Answering(t, DOMAIN call[t].loads \ (Unfilled(t) \ {first})) :
        Registering(t, RegisterPending(filled(failing).x, filled(failing).c, None, answers, o), "filling")
  BY DEF FillFirst
<1>2. Reclaimed(t) /\ Unfilled(t) # {}
  BY DEF FillFirst
<1>3. o \in Outcome
  BY OutcomeType DEF Evictions
<1>4. Sound(memory, call, current)
  BY DEF IInv
<1>5. call[t] \in Call /\ CallRight(memory, call[t], current) /\ call[t].loads \in Seq(CopyLoad)
  <2>1. call[t] \in Call /\ CallRight(memory, call[t], current)
    BY ZenonT(60), <1>4, SoundParts
  <2> QED
    BY <2>1 DEF Call
<1>6. first \in Unfilled(t) /\ call[t].loads # <<>>
  <2>1. Len(call[t].loads) \in Nat /\ DOMAIN call[t].loads = 1 .. Len(call[t].loads)
    BY <1>5, LenProperties
  <2>2. Unfilled(t) \in SUBSET (0 .. Len(call[t].loads))
    BY <2>1 DEF Unfilled
  <2>3. first \in Unfilled(t)
    BY <1>2, <2>1, <2>2, MinLeast
  <2> QED
    BY <2>3, NoLoads DEF Unfilled
<1> DEFINE which == {first}
           x == filled(failing).x
           c == filled(failing).c
<1>7. which \in SUBSET Unfilled(t)
  BY <1>6
<1>8. Filled(x, c, t, which)
  <2>1. \A i \in DOMAIN call[t].loads : ~call[t].loads[i].offered
    BY <1>2 DEF Reclaimed
  <2>2. Filled(Fill(memory, call[t], which, failing).x, Fill(memory, call[t], which, failing).c, t, which)
    <3> HIDE DEF which
    <3> QED
      BY <1>7, <2>1, FillKeeps
  <2> QED
    BY <2>2
<1>9. Registering(t, RegisterPending(x, c, None, answers, o), "filling")
  BY <1>1
<1> HIDE DEF which, x, c
<1>10. Apart(call, t) = {} /\ Awaited(call, t) = {} /\ memory.pending = Pointers(call[t].loads) \cup Awaited(call, t)
  BY <1>4, <1>6, SoundParts
<1>11. /\ c \in Call /\ c.held = call[t].held
       /\ Good(x, LoadRegions(c.loads), With(Others(call, t), call[t].held), current)
       /\ x.pending = Pointers(c.loads) /\ Pointers(c.loads) \subseteq ToSet(call[t].request)
       /\ LoadsApart(c.loads) /\ LoadsRight(x, c.loads, current)
  <2>1. Pointers(call[t].loads) \subseteq ToSet(call[t].request)
    BY <1>5 DEF CallRight
  <2> QED
    BY <1>8, <1>10, <2>1 DEF Filled
<1>12. \A l \in ToSet(c.loads) : ~l.offered
  BY <1>8 DEF Filled, ToSet
<1>13. None \in Storages \cup {None} /\ "filling" \in {"preparing", "filling", "leased"} /\ "filling" # "leased"
  OBVIOUS
<1> QED
  BY <1>3, <1>6, <1>9, <1>11, <1>12, <1>13, RegisteredSound

\* Without loads there is nothing to register.
LEMMA NothingToRegister ==
  ASSUME NEW x, NEW c, NEW early, NEW answers, NEW o, c.loads = <<>>
  PROVE  RegisterPending(x, c, early, answers, o)
           = [x |-> x, loads |-> c.loads, held |-> c.held, created |-> c.created, early |-> early, result |-> "all"]
<1> DEFINE base == [x |-> x, loads |-> c.loads, held |-> c.held, created |-> c.created, early |-> early, result |-> "all"]
           Solves(g) == g = [k \in 0 .. Len(c.loads) |-> IF k = 0 THEN base ELSE RegisterNext(g[k - 1], answers, o)]
           g == CHOOSE g : Solves(g)
<1>1. RegisterPending(x, c, early, answers, o) = g[Len(c.loads)]
  BY DEF RegisterPending, base
<1> HIDE DEF base
<1>2. Len(c.loads) = 0
  BY EmptySeq
<1>3. 0 .. Len(c.loads) = {0}
  BY <1>2
<1>4. Solves([k \in {0} |-> base])
  <2> DEFINE f == [k \in {0} |-> base]
  <2>1. [k \in {0} |-> IF k = 0 THEN base ELSE RegisterNext(f[k - 1], answers, o)] = f
    OBVIOUS
  <2> HIDE DEF f
  <2> QED
    BY <1>3, <2>1 DEF f
<1>5. \E h : Solves(h)
  <2> HIDE DEF Solves
  <2> QED
    BY <1>4
<1>6. Solves(g)
  BY <1>5
<1> HIDE DEF g
<1>7. g[0] = base
  BY <1>2, <1>6
<1> QED
  BY <1>1, <1>2, <1>7 DEF base

\* The others are filled, everything left is registered and the lease opens.
LEMMA FillRestSound == ASSUME NEW t \in Threads, IInv, FillRest(t) PROVE IInv'
<1> DEFINE which == Unfilled(t)
           filled(failing) == Fill(memory, call[t], which, failing)
<1>1. PICK failing \in SUBSET {call[t].loads[i].pointer : i \in Unfilled(t)}, o \in Evictions,
           answers \in Answering(t, DOMAIN call[t].loads) :
        Registering(t, RegisterPending(filled(failing).x, filled(failing).c, None, answers, o), "leased")
  BY DEF FillRest
<1> DEFINE x == filled(failing).x
           c == filled(failing).c
<1>2. o \in Outcome
  BY OutcomeType DEF Evictions
<1>3. Sound(memory, call, current)
  BY DEF IInv
<1>4. /\ call \in [Threads -> Call] /\ call[t] \in Call /\ CallRight(memory, call[t], current)
      /\ memory.pending = Pointers(call[t].loads) \cup Awaited(call, t)
  BY <1>3, SoundParts
<1>5. \A i \in DOMAIN call[t].loads : ~call[t].loads[i].offered
  BY <1>4 DEF FillRest, Reclaimed, CallRight
<1>6. Filled(x, c, t, which)
  <2>1. which \in SUBSET Unfilled(t)
    OBVIOUS
  <2>2. Filled(Fill(memory, call[t], which, failing).x, Fill(memory, call[t], which, failing).c, t, which)
    <3> HIDE DEF which
    <3> QED
      BY <1>5, <2>1, FillKeeps
  <2> QED
    BY <2>2
<1>7. Registering(t, RegisterPending(x, c, None, answers, o), "leased")
  BY <1>1
<1> HIDE DEF x, c
<1>8. Pointers(call[t].loads) \subseteq ToSet(call[t].request)
  BY <1>4 DEF CallRight
<1>9. CASE call[t].loads # <<>>
  <2>1. Apart(call, t) = {} /\ Awaited(call, t) = {}
    BY <1>3, <1>9, SoundParts
  <2>2. /\ c \in Call /\ c.held = call[t].held
        /\ Good(x, LoadRegions(c.loads), With(Others(call, t), call[t].held), current)
        /\ x.pending = Pointers(c.loads) /\ Pointers(c.loads) \subseteq ToSet(call[t].request)
        /\ LoadsApart(c.loads) /\ LoadsRight(x, c.loads, current)
    BY <1>4, <1>6, <1>8, <2>1 DEF Filled
  <2>3. \A l \in ToSet(c.loads) : Ready(l)
    BY <1>6 DEF Filled, ToSet
  <2>4. None \in Storages \cup {None} /\ "leased" \in {"preparing", "filling", "leased"} /\ "leased" # "filling"
    OBVIOUS
  <2> QED
    BY <1>2, <1>7, <1>9, <2>2, <2>3, <2>4, RegisteredSound
<1>10. CASE call[t].loads = <<>>
  <2>1. c.loads = <<>>
    <3>1. c.loads \in Seq(CopyLoad) /\ DOMAIN c.loads = {}
      BY <1>6, <1>10, NoLoads DEF Filled, Call
    <3>2. ToSet(c.loads) = {}
      BY <3>1 DEF ToSet
    <3> QED
      BY <3>1, <3>2, NoElements
  <2> DEFINE a == RegisterPending(x, c, None, answers, o)
  <2>2. a = [x |-> x, loads |-> c.loads, held |-> c.held, created |-> c.created, early |-> None, result |-> "all"]
    BY <2>1, NothingToRegister
  <2> HIDE DEF a
  <2>3. a.x = x /\ a.loads = <<>> /\ a.held = c.held /\ a.created = c.created /\ a.result = "all"
    BY <2>1, <2>2
  <2> DEFINE d == [call[t] EXCEPT !.loads = a.loads, !.held = a.held, !.created = a.created, !.pc = "leased"]
  <2>4. memory' = x /\ call' = [call EXCEPT ![t] = d] /\ current' = current
    <3>1. Registering(t, a, "leased")
      BY <1>7 DEF a
    <3> QED
      BY <1>4, <2>3, <3>1 DEF Registering
  <2>5. c \in Call /\ c.held = call[t].held
    BY <1>6 DEF Filled
  <2>6. d \in Call /\ d.loads = <<>> /\ d.held = call[t].held /\ d.request = call[t].request /\ d.pc = "leased"
    <3>1. a.loads \in Seq(CopyLoad) /\ a.held \in Seq(Storages) /\ a.created \in SUBSET Storages
      BY <2>1, <2>3, <2>5 DEF Call
    <3> HIDE DEF a
    <3> QED
      BY <1>4, <2>3, <2>5, <3>1 DEF Call
  <2> HIDE DEF d
  <2>7. CallRight(x, d, current)
    <3>1. Pointers(<<>>) = {} /\ LoadsApart(<<>>) /\ LoadsRight(x, <<>>, current)
      BY NoLoads DEF LoadsApart, LoadsRight
    <3> QED
      BY <1>4, <2>6, <3>1 DEF CallRight
  <2>8. Good(x, LoadRegions(d.loads) \cup Apart(call, t), With(Others(call, t), d.held), current)
    BY <1>6, <2>1, <2>6 DEF Filled
  <2>9. x.pending = Pointers(d.loads) \cup Awaited(call, t) /\ Spares(memory, x, Apart(call, t))
    BY <1>4, <1>6, <1>10, <2>6 DEF Filled
  <2>10. Sound(x, [call EXCEPT ![t] = d], current)
    BY <1>3, <2>6, <2>7, <2>8, <2>9, ThreadStep
  <2> QED
    BY <2>4, <2>10 DEF IInv
<1> QED
  BY <1>9, <1>10


\* The owners of batches c are those of batches b, some of them retired since.
Retires(b, c) ==
  \A t \in Threads : /\ DOMAIN c[t] = DOMAIN b[t]
                     /\ \A i \in DOMAIN b[t] : /\ c[t][i].owner.region = b[t][i].owner.region
                                               /\ c[t][i].owner.pointer = b[t][i].owner.pointer
                                               /\ b[t][i].owner.retired => c[t][i].owner.retired

\* Owners in a batch are retired.
LEMMA BatchRetires ==
  ASSUME NEW x, NEW y \in Memory, NEW E, NEW n, NEW cur, Good(x, E, n, cur),
         y.registered = x.registered, y.idle = x.idle, y.pending = x.pending, y.tier = x.tier,
         y.regions = x.regions, y.maxPinned = x.maxPinned, y.maxOffered = x.maxOffered, y.missed = x.missed,
         Retires(x.batch, y.batch)
  PROVE  Good(y, E, n, cur) /\ Frame(x, y, E)
<1>0. \A u \in Threads : /\ DOMAIN y.batch[u] = DOMAIN x.batch[u]
                         /\ \A i \in DOMAIN x.batch[u] :
                              /\ y.batch[u][i].owner.region = x.batch[u][i].owner.region
                              /\ y.batch[u][i].owner.pointer = x.batch[u][i].owner.pointer
                              /\ x.batch[u][i].owner.retired => y.batch[u][i].owner.retired
  BY DEF Retires
<1>1. \A u \in Threads : BatchRegions(y, u) = BatchRegions(x, u)
  BY <1>0 DEF BatchRegions
<1>2. RegisteredRegions(y) = RegisteredRegions(x) /\ TierRegions(y) = TierRegions(x)
  BY DEF RegisteredRegions, TierRegions
<1>3. RegisteredApart(y) /\ TierApart(y) /\ KindsApart(y, E) /\ Covered(y, E)
  BY <1>1, <1>2, GoodParts DEF RegisteredApart, TierApart, KindsApart, Covered
<1>4. BatchApart(y)
  <2>1. BatchApart(x)
    BY GoodParts
  <2>2. ASSUME NEW u \in Threads, NEW i \in DOMAIN y.batch[u], NEW j \in DOMAIN y.batch[u],
               y.batch[u][i].owner.region = y.batch[u][j].owner.region
        PROVE  i = j
    <3>1. /\ i \in DOMAIN x.batch[u] /\ j \in DOMAIN x.batch[u]
          /\ x.batch[u][i].owner.region = x.batch[u][j].owner.region
      BY <1>0, <2>2
    <3> QED
      BY <2>1, <3>1 DEF BatchApart
  <2> QED
    BY <1>1, <2>1, <2>2 DEF BatchApart
<1>5. Booked(y, n) /\ WithinTier(y)
  BY GoodParts DEF Booked, WithinTier, Tiered, Occupied
<1>6. RegisteredWhole(y, cur) /\ TierRight(y, cur)
  BY GoodParts DEF RegisteredWhole, Whole, TierRight, Offerable, Mixed
<1>7. BatchRight(y, cur)
  <2>1. ASSUME NEW u \in Threads, NEW i \in DOMAIN y.batch[u]
        PROVE  Offerable(y, y.batch[u][i].owner, cur)
    <3>1. /\ i \in DOMAIN x.batch[u] /\ y.batch[u][i].owner.region = x.batch[u][i].owner.region
          /\ y.batch[u][i].owner.pointer = x.batch[u][i].owner.pointer
          /\ x.batch[u][i].owner.retired => y.batch[u][i].owner.retired
      BY <1>0
    <3>2. Offerable(x, x.batch[u][i].owner, cur)
      BY <3>1, GoodParts DEF BatchRight
    <3> QED
      BY ZenonT(60), <3>1, <3>2 DEF Offerable, Mixed
  <2> QED
    BY ZenonT(60), <2>1 DEF BatchRight
<1> QED
  BY <1>3, <1>4, <1>5, <1>6, <1>7 DEF Good, Frame

\* Of a storage that owns no registration and only retired copies, nothing is promised.
LEMMA CurrentChanges ==
  ASSUME NEW x, NEW E, NEW n, NEW cur, NEW new, NEW s \in Storages, Good(x, E, n, cur),
         \A u \in Storages : u # s => new[u] = cur[u],
         x.registered[s].region = None, \A e \in ToSet(x.tier) : e.pointer = s => e.retired,
         \A t \in Threads : \A i \in DOMAIN x.batch[t] : x.batch[t][i].owner.pointer = s => x.batch[t][i].owner.retired
  PROVE  Good(x, E, n, new)
<1>1. x \in Memory
  BY GoodParts
<1>2. RegisteredWhole(x, new)
  <2>1. RegisteredWhole(x, cur)
    BY GoodParts
  <2> QED
    BY <2>1 DEF RegisteredWhole, Whole
<1>3. \A e : e \in Owner /\ (e.pointer = s => e.retired) /\ Offerable(x, e, cur) => Offerable(x, e, new)
  BY DEF Owner, Offerable, Mixed
<1>4. TierRight(x, new)
  <2>1. TierRight(x, cur) /\ \A e \in ToSet(x.tier) : e \in Owner
    BY <1>1, GoodParts, OwnedRegions
  <2> QED
    BY <1>3, <2>1 DEF TierRight
<1>5. BatchRight(x, new)
  <2>1. BatchRight(x, cur)
    BY GoodParts
  <2>2. ASSUME NEW t \in Threads, NEW i \in DOMAIN x.batch[t]
        PROVE  Offerable(x, x.batch[t][i].owner, new)
    <3>1. x.batch[t][i].owner \in Owner /\ Offerable(x, x.batch[t][i].owner, cur)
      BY <1>1, <2>1, OwnedRegions DEF BatchRight
    <3> QED
      BY <1>3, <3>1
  <2> QED
    BY <2>2 DEF BatchRight
<1>6. /\ RegisteredApart(x) /\ TierApart(x) /\ BatchApart(x) /\ KindsApart(x, E) /\ Covered(x, E)
      /\ Booked(x, n) /\ WithinTier(x)
  BY SMTT(40), GoodParts
<1> QED
  BY <1>1, <1>2, <1>4, <1>5, <1>6 DEF Good

\* The owner's end: what is registered or in a batch is retired, what is in the tier goes.
OwnerRetired(x, y, s, E, n, cur) ==
  /\ Good(y, E, n, cur) /\ Frame(x, y, E) /\ y.idle = x.idle
  /\ \A u \in Storages : y.registered[u].region = x.registered[u].region
  /\ \A e \in ToSet(y.tier) : e.pointer = s => e.retired
  /\ \A t \in Threads : \A i \in DOMAIN y.batch[t] : y.batch[t][i].owner.pointer = s => y.batch[t][i].owner.retired

\* A tensor's storage has lost its owner.
LEMMA OwnerRetires ==
  ASSUME NEW x, NEW E, NEW n, NEW cur, NEW s \in Storages, NEW gone, NEW registered, NEW batch, Good(x, E, n, cur),
         gone = {e \in ToSet(x.tier) : e.pointer = s /\ ~e.retired},
         registered = [x.registered EXCEPT ![s].retired = x.registered[s].region # None],
         batch = [t \in Threads |-> [i \in DOMAIN x.batch[t] |->
                    IF x.batch[t][i].owner.pointer = s THEN [x.batch[t][i] EXCEPT !.owner.retired = TRUE]
                    ELSE x.batch[t][i]]]
  PROVE  OwnerRetired(x, Freed([[x EXCEPT !.registered = registered, !.batch = batch] EXCEPT !.tier = Lacking(@, gone)],
                               {e.region : e \in gone}), s, E, n, cur)
<1> DEFINE y == [x EXCEPT !.registered = registered]
           z == [y EXCEPT !.batch = batch]
           tier == Lacking(x.tier, gone)
           less == [z EXCEPT !.tier = tier]
           R == {e.region : e \in gone}
           w == Freed(less, R)
<1>1. x \in Memory /\ Booked(x, n) /\ TierApart(x)
  BY GoodParts
<1>2. /\ registered \in [Storages -> Registration]
      /\ \A u \in Storages : registered[u].region = x.registered[u].region /\ registered[u].leases = x.registered[u].leases
  <2>1. x.registered \in [Storages -> Registration] /\ x.registered[s] \in Registration
    BY <1>1, Fields
  <2> DEFINE registration == [x.registered[s] EXCEPT !.retired = x.registered[s].region # None]
  <2>2. registration \in Registration /\ registration.region = x.registered[s].region
        /\ registration.leases = x.registered[s].leases
    <3>1. (x.registered[s].region # None) \in BOOLEAN
      OBVIOUS
    <3> QED
      BY <2>1, <3>1 DEF Registration
  <2>3. registered = [x.registered EXCEPT ![s] = registration]
    OBVIOUS
  <2> HIDE DEF registration
  <2> QED
    BY <2>1, <2>2, <2>3
<1>3. /\ y \in Memory /\ y.registered = registered /\ y.idle = x.idle /\ y.pending = x.pending /\ y.tier = x.tier
      /\ y.batch = x.batch /\ y.regions = x.regions /\ y.maxPinned = x.maxPinned
      /\ y.maxOffered = x.maxOffered /\ y.missed = x.missed
  <2>1. registered \in [Storages -> Registration]
    BY <1>2
  <2> QED
    BY <1>1, <2>1 DEF Memory
<1> HIDE DEF y
<1>4. Booked(y, n)
  <2>1. \A u \in Storages : y.registered[u].region = x.registered[u].region /\ y.registered[u].leases = x.registered[u].leases
    BY <1>2, <1>3
  <2>2. \A u \in Storages : y.registered[u].leases = n[u] /\ (n[u] > 0 => y.registered[u].region # None)
    BY <1>1, <2>1 DEF Booked
  <2>3. {u \in Storages : y.registered[u].region # None /\ n[u] = 0}
          = {u \in Storages : x.registered[u].region # None /\ n[u] = 0}
    BY <2>1
  <2>4. \A u \in y.pending : y.registered[u].region = None
    <3>1. \A u \in x.pending : u \in Storages
      BY <1>1, Fields
    <3> QED
      BY <1>1, <1>3, <2>1, <3>1 DEF Booked
  <2> QED
    BY <1>1, <1>3, <2>2, <2>3, <2>4 DEF Booked
<1>5. Good(y, E, n, cur) /\ Frame(x, y, E)
  <2>1. \A u \in Storages : y.registered[u].region = x.registered[u].region
    BY <1>2, <1>3
  <2> QED
    BY <1>3, <1>4, <2>1, RegistrationsStay
<1>6. /\ batch \in [Threads -> Seq(Offering)]
      /\ \A t \in Threads : /\ DOMAIN batch[t] = DOMAIN x.batch[t]
                            /\ \A i \in DOMAIN x.batch[t] :
                                 /\ batch[t][i].owner.region = x.batch[t][i].owner.region
                                 /\ batch[t][i].owner.pointer = x.batch[t][i].owner.pointer
                                 /\ x.batch[t][i].owner.retired => batch[t][i].owner.retired
                                 /\ batch[t][i].owner.pointer = s => batch[t][i].owner.retired
  <2>1. ASSUME NEW t \in Threads
        PROVE  /\ batch[t] \in Seq(Offering) /\ DOMAIN batch[t] = DOMAIN x.batch[t]
               /\ \A i \in DOMAIN x.batch[t] :
                    /\ batch[t][i].owner.region = x.batch[t][i].owner.region
                    /\ batch[t][i].owner.pointer = x.batch[t][i].owner.pointer
                    /\ x.batch[t][i].owner.retired => batch[t][i].owner.retired
                    /\ batch[t][i].owner.pointer = s => batch[t][i].owner.retired
    <3> DEFINE b == x.batch[t]
               c == [i \in DOMAIN b |-> IF b[i].owner.pointer = s THEN [b[i] EXCEPT !.owner.retired = TRUE] ELSE b[i]]
    <3>1. batch[t] = c
      OBVIOUS
    <3>2. b \in Seq(Offering)
      BY <1>1, Fields
    <3> HIDE DEF b
    <3>3. DOMAIN b = 1 .. Len(b) /\ Len(b) \in Nat /\ \A i \in DOMAIN b : b[i] \in Offering
      BY <3>2, LenProperties
    <3>4. ASSUME NEW i \in DOMAIN b
          PROVE  /\ c[i] \in Offering
                 /\ c[i].owner.region = b[i].owner.region /\ c[i].owner.pointer = b[i].owner.pointer
                 /\ b[i].owner.retired => c[i].owner.retired
                 /\ c[i].owner.pointer = s => c[i].owner.retired
      <4>1. b[i] \in Offering /\ b[i].owner \in Owner
        BY <3>3 DEF Offering
      <4> DEFINE retired == [b[i].owner EXCEPT !.retired = TRUE]
                 d == [b[i] EXCEPT !.owner = retired]
      <4>2. retired \in Owner /\ retired.region = b[i].owner.region /\ retired.pointer = b[i].owner.pointer /\ retired.retired
        BY <4>1 DEF Owner
      <4> HIDE DEF retired
      <4>3. d \in Offering /\ d.owner = retired
        BY <4>1, <4>2 DEF Offering
      <4> HIDE DEF d
      <4>4. c[i] = IF b[i].owner.pointer = s THEN d ELSE b[i]
        BY <4>1 DEF d, retired, Offering
      <4> HIDE DEF c
      <4> QED
        BY <4>1, <4>2, <4>3, <4>4
    <3>5. c \in Seq(Offering) /\ DOMAIN c = DOMAIN b
      <4>1. DOMAIN c = 1 .. Len(b) /\ \A i \in 1 .. Len(b) : c[i] \in Offering
        BY <3>3, <3>4
      <4>2. c = [i \in 1 .. Len(b) |-> c[i]]
        BY <3>3
      <4> HIDE DEF c
      <4>3. [i \in 1 .. Len(b) |-> c[i]] \in Seq(Offering)
        BY <3>3, <4>1
      <4> QED
        BY <3>3, <4>1, <4>2, <4>3
    <3> HIDE DEF c
    <3> QED
      BY ZenonT(60), <3>1, <3>4, <3>5 DEF b
  <2>2. batch = [t \in Threads |-> batch[t]]
    BY SMTT(40)
  <2> QED
    BY ZenonT(60), <2>1, <2>2
<1>7. /\ z \in Memory /\ z.registered = y.registered /\ z.idle = y.idle /\ z.pending = y.pending /\ z.tier = y.tier
      /\ z.batch = batch /\ z.regions = y.regions /\ z.maxPinned = y.maxPinned
      /\ z.maxOffered = y.maxOffered /\ z.missed = y.missed
  <2>1. batch \in [Threads -> Seq(Offering)]
    BY ZenonT(60), <1>6
  <2> QED
    BY ZenonT(60), <1>3, <2>1 DEF Memory
<1> HIDE DEF z
<1>8. Good(z, E, n, cur) /\ Frame(y, z, E)
  <2>1. Retires(x.batch, batch)
    BY ZenonT(60), <1>6 DEF Retires
  <2>2. Retires(y.batch, z.batch)
    BY <1>3, <1>7, <2>1
  <2> QED
    BY ZenonT(60), <1>5, <1>7, <2>2, BatchRetires
<1>9. x.tier \in Seq(Owner) /\ IsInjective(x.tier) /\ IsFiniteSet(gone) /\ z.tier = x.tier
  <2>1. x.tier \in Seq(Owner) /\ IsInjective(x.tier)
    BY <1>1, Fields DEF TierApart
  <2>2. IsFiniteSet(ToSet(x.tier)) /\ gone \subseteq ToSet(x.tier)
    BY <2>1, ElementsFinite
  <2> QED
    BY <1>3, <1>7, <2>1, <2>2, FS_Subset
<1>10. tier \in Seq(Owner) /\ IsInjective(tier) /\ ToSet(tier) = ToSet(x.tier) \ gone
  BY <1>9, LackingElements
<1> HIDE DEF tier
<1>11. Good(less, E \cup R, n, cur) /\ E \cap R = {} /\ Frame(z, less, E)
  <2>1. ToSet(tier) \subseteq ToSet(z.tier) /\ {e.region : e \in ToSet(z.tier) \ ToSet(tier)} = R
    <3>1. ToSet(z.tier) \ ToSet(tier) = gone
      BY <1>9, <1>10
    <3> QED
      BY <1>9, <1>10, <3>1
  <2> HIDE DEF R
  <2>2. /\ Good(less, E \cup {e.region : e \in ToSet(z.tier) \ ToSet(tier)}, n, cur)
        /\ E \cap {e.region : e \in ToSet(z.tier) \ ToSet(tier)} = {} /\ Frame(z, less, E)
    BY <1>8, <1>10, <2>1, TierLeaves
  <2> QED
    BY <2>1, <2>2
<1>12. less.tier = tier /\ less.registered = registered /\ less.batch = batch /\ less.idle = x.idle /\ less \in Memory
  <2>1. less.tier = tier /\ less.registered = z.registered /\ less.batch = z.batch /\ less.idle = z.idle
    BY <1>7 DEF Memory
  <2> QED
    BY <1>3, <1>7, <1>11, <2>1, GoodParts
<1> HIDE DEF less
<1>13. Good(w, E, n, cur) /\ Frame(less, w, E)
  <2> HIDE DEF R
  <2> QED
    BY <1>11, FreedKeeps
<1>14. w.tier = tier /\ w.registered = registered /\ w.batch = batch /\ w.idle = x.idle
  BY <1>12 DEF Freed, Memory
<1> HIDE DEF w
<1>15. Frame(x, w, E)
  BY <1>5, <1>8, <1>11, <1>13, FrameTwice
<1>16. \A e \in ToSet(w.tier) : e.pointer = s => e.retired
  BY <1>10, <1>14
<1>17. OwnerRetired(x, w, s, E, n, cur)
  BY ZenonT(60), <1>2, <1>6, <1>13, <1>14, <1>15, <1>16 DEF OwnerRetired
<1>18. less = [[x EXCEPT !.registered = registered, !.batch = batch] EXCEPT !.tier = Lacking(@, gone)]
  <2>1. z = [x EXCEPT !.registered = registered, !.batch = batch]
    BY DEF y, z
  <2>2. less = [z EXCEPT !.tier = Lacking(z.tier, gone)]
    BY <1>9 DEF less, tier
  <2> HIDE DEF z, less
  <2> QED
    BY <2>1, <2>2
<1> QED
  BY <1>17, <1>18 DEF w


\* An owner's end leaves, of its storage, only retired copies and what is leased.
OwnerLeft(x, z, s, E, n, cur) ==
  /\ Good(z, E, n, cur) /\ Frame(x, z, E)
  /\ n[s] = 0 => z.registered[s].region = None
  /\ \A e \in ToSet(z.tier) : e.pointer = s => e.retired
  /\ \A t \in Threads : \A i \in DOMAIN z.batch[t] : z.batch[t][i].owner.pointer = s => z.batch[t][i].owner.retired

\* An idle registration goes with its owner.
LEMMA OwnerLeaves ==
  ASSUME NEW x, NEW E, NEW n, NEW cur, NEW s \in Storages, NEW y, NEW z, OwnerRetired(x, y, s, E, n, cur),
         z = IF s \in ToSet(x.idle) THEN Unregister(y, s, FALSE, None, Undecided) ELSE y
  PROVE  OwnerLeft(x, z, s, E, n, cur)
<1>1. /\ Good(y, E, n, cur) /\ Frame(x, y, E) /\ y.idle = x.idle
      /\ \A e \in ToSet(y.tier) : e.pointer = s => e.retired
      /\ \A t \in Threads : \A i \in DOMAIN y.batch[t] : y.batch[t][i].owner.pointer = s => y.batch[t][i].owner.retired
  BY DEF OwnerRetired
<1>2. y \in Memory /\ Booked(y, n)
  BY <1>1, GoodParts
<1>3. CASE s \in ToSet(x.idle)
  <2>1. z = Unregister(y, s, FALSE, None, Undecided)
    BY <1>3
  <2>2. Undecided \in Outcome /\ None \in Threads \cup {None}
    BY DEF Undecided, Outcome
  <2>3. Unregistration(y, z, s, E, n, cur, None)
    BY <1>1, <1>3, <2>1, <2>2, UnregisterKeeps
  <2>4. z.registered[s].region = None
    <3>1. z.registered = [y.registered EXCEPT ![s] = Unregistered] /\ y.registered \in [Storages -> Registration]
      BY <1>2, <2>3, Fields DEF Unregistration
    <3>2. z.registered[s] = Unregistered
      BY <3>1
    <3>3. Unregistered.region = None
      BY DEF Unregistered
    <3> QED
      BY <3>2, <3>3
  <2>5. z.tier = y.tier /\ z.batch = y.batch
    BY <1>2, <2>1 DEF Unregister, ReleaseCopy, Freed, Memory
  <2>6. Good(z, E, n, cur) /\ Frame(x, z, E)
    <3>1. Good(z, E, n, cur) /\ Frame(y, z, E)
      BY <2>3 DEF Unregistration
    <3> QED
      BY <1>1, <3>1, FrameTwice
  <2> QED
    BY <1>1, <2>4, <2>5, <2>6 DEF OwnerLeft
<1>4. CASE s \notin ToSet(x.idle)
  <2>1. z = y
    BY <1>4
  <2>2. n[s] = 0 => y.registered[s].region = None
    BY <1>1, <1>2, <1>4 DEF Booked
  <2> QED
    BY <1>1, <2>1, <2>2 DEF OwnerLeft
<1> QED
  BY <1>3, <1>4

\* A storage that no call uses, and of which only retired copies are left, may be another.
LEMMA CurrentSound ==
  ASSUME NEW x, NEW cl, NEW cur, NEW new \in [Storages -> Nat], NEW s \in Storages, Sound(x, cl, cur),
         \A u \in Storages : u # s => new[u] = cur[u], \A t \in Threads : s \notin ToSet(cl[t].request),
         x.registered[s].region = None, \A e \in ToSet(x.tier) : e.pointer = s => e.retired,
         \A t \in Threads : \A i \in DOMAIN x.batch[t] : x.batch[t][i].owner.pointer = s => x.batch[t][i].owner.retired
  PROVE  Sound(x, cl, new)
<1> DEFINE E == Loading(cl)
           n == Leases(cl)
<1>1. /\ cl \in [Threads -> Call] /\ Good(x, E, n, cur)
      /\ \A t \in Threads : CallRight(x, cl[t], cur)
      /\ x.pending = UNION {Pointers(cl[t].loads) : t \in Threads}
      /\ \A t, u \in Threads : t # u => cl[t].loads = <<>> \/ cl[u].loads = <<>>
  BY DEF Sound
<1>2. Good(x, E, n, new)
  <2> HIDE DEF E, n
  <2> QED
    BY ZenonT(60), <1>1, CurrentChanges
<1>3. ASSUME NEW t \in Threads
      PROVE  CallRight(x, cl[t], new)
  <2>1. CallRight(x, cl[t], cur) /\ cl[t].loads \in Seq(CopyLoad)
    BY <1>1 DEF Call
  <2>2. \A i \in DOMAIN cl[t].loads : cl[t].loads[i].pointer \in Storages /\ new[cl[t].loads[i].pointer] = cur[cl[t].loads[i].pointer]
    <3>1. Pointers(cl[t].loads) \subseteq ToSet(cl[t].request)
      BY <2>1 DEF CallRight
    <3>2. ASSUME NEW i \in DOMAIN cl[t].loads
          PROVE  cl[t].loads[i].pointer \in Pointers(cl[t].loads) /\ cl[t].loads[i].pointer \in Storages
      <4>1. cl[t].loads[i] \in ToSet(cl[t].loads) /\ cl[t].loads[i] \in CopyLoad
        BY <2>1, ElementsFinite
      <4> QED
        BY <4>1 DEF Pointers, CopyLoad
    <3> QED
      BY <3>1, <3>2
  <2>3. LoadsRight(x, cl[t].loads, new)
    <3>1. ASSUME NEW i \in DOMAIN cl[t].loads
          PROVE  LoadRight(x, cl[t].loads[i], new)
      <4>1. LoadRight(x, cl[t].loads[i], cur)
        BY <2>1 DEF CallRight, LoadsRight
      <4> QED
        BY ZenonT(60), <2>2, <4>1 DEF LoadRight, Mixed
    <3> QED
      BY ZenonT(60), <3>1 DEF LoadsRight
  <2> QED
    BY <2>1, <2>3 DEF CallRight
<1> QED
  BY <1>1, <1>2, <1>3 DEF Sound

\* The end of a tensor that copies were acquired with, and perhaps of its storage.
LEMMA OwnerGoneSound == ASSUME NEW s \in Storages, IInv, OwnerGone(s) PROVE IInv'
<1> DEFINE E == Loading(call)
           n == Leases(call)
           gone == {e \in ToSet(memory.tier) : e.pointer = s /\ ~e.retired}
           registered == [memory.registered EXCEPT ![s].retired = memory.registered[s].region # None]
           batch == [t \in Threads |-> [i \in DOMAIN memory.batch[t] |->
                      IF memory.batch[t][i].owner.pointer = s THEN [memory.batch[t][i] EXCEPT !.owner.retired = TRUE]
                      ELSE memory.batch[t][i]]]
           retired == [memory EXCEPT !.registered = registered, !.batch = batch]
           y == Freed([retired EXCEPT !.tier = Lacking(@, gone)], {e.region : e \in gone})
           z == IF s \in ToSet(memory.idle) THEN Unregister(y, s, FALSE, None, Undecided) ELSE y
<1>1. Good(memory, E, n, current) /\ current \in [Storages -> Nat]
  BY DEF IInv, Sound
<1>2. memory \in Memory
  BY <1>1, GoodParts
<1>3. PICK dies \in BOOLEAN :
        /\ dies => ~Using(s)
        /\ memory' = z /\ call' = call /\ current' = [current EXCEPT ![s] = IF dies THEN @ + 1 ELSE @]
  <2>1. [memory EXCEPT !.registered[s].retired = memory.registered[s].region # None, !.batch = batch] = retired
    BY <1>2 DEF Memory
  <2> QED
    BY ZenonT(60), <2>1 DEF OwnerGone
<1>4. OwnerRetired(memory, y, s, E, n, current)
  <2> HIDE DEF E, n
  <2> QED
    BY ZenonT(60), <1>1, OwnerRetires
<1> HIDE DEF y
<1>5. OwnerLeft(memory, z, s, E, n, current)
  <2> HIDE DEF E, n
  <2> QED
    BY <1>4, OwnerLeaves
<1> HIDE DEF z
<1>6. Sound(z, call, current)
  <2>1. Good(z, E, n, current) /\ Frame(memory, z, E)
    BY <1>5 DEF OwnerLeft
  <2> QED
    BY <2>1, MemoryStep DEF IInv, Frame, Spares
<1>7. Sound(z, call, current')
  <2>1. CASE dies
    <3>1. \A t \in Threads : s \notin ToSet(call[t].request)
      BY <1>3, <2>1 DEF Using
    <3>2. n[s] = 0
      <4>1. \A t \in Threads : s \notin ToSet(call[t].held)
        BY <3>1 DEF IInv, Sound, CallRight
      <4>2. {t \in Threads : s \in ToSet(call[t].held)} = {}
        BY <4>1
      <4> QED
        BY <4>2, FS_EmptySet DEF Leases
    <3>3. /\ current' \in [Storages -> Nat]
          /\ \A u \in Storages : u # s => current'[u] = current[u]
      BY <1>1, <1>3, <2>1
    <3>4. /\ z.registered[s].region = None
          /\ \A e \in ToSet(z.tier) : e.pointer = s => e.retired
          /\ \A t \in Threads : \A i \in DOMAIN z.batch[t] : z.batch[t][i].owner.pointer = s => z.batch[t][i].owner.retired
      BY <1>5, <3>2 DEF OwnerLeft
    <3> DEFINE new == current'
    <3> HIDE DEF new
    <3>5. Sound(z, call, new)
      BY <1>6, <3>1, <3>3, <3>4, CurrentSound DEF new
    <3> QED
      BY <3>5 DEF new
  <2>2. CASE ~dies
    <3>1. current' = current
      BY <1>1, <1>3, <2>2
    <3> QED
      BY <1>6, <3>1
  <2> QED
    BY <2>1, <2>2
<1> QED
  BY <1>3, <1>7 DEF IInv


\* The orders earlier calls may have left.
LEMMA OrdersType == \A q \in Orders : q \in Seq(Storages) /\ IsInjective(q)
<1>1. ASSUME NEW q \in Orders
      PROVE  q \in Seq(Storages) /\ IsInjective(q)
  <2>1. IsInjective(q) /\ q \in UNION {[1 .. k -> Storages] : k \in 0 .. Len(Size)}
    BY DEF Orders
  <2>2. PICK k \in 0 .. Len(Size) : q \in [1 .. k -> Storages]
    BY <2>1
  <2>3. Len(Size) \in Nat
    BY OfferedAssumption, LenProperties
  <2>4. k \in Nat /\ q = [i \in 1 .. k |-> q[i]] /\ \A i \in 1 .. k : q[i] \in Storages
    BY <2>2, <2>3
  <2>5. q \in Seq(Storages)
    BY <2>4
  <2> QED
    BY <2>1, <2>5
<1> QED
  BY <1>1

\* The state earlier calls left, with the storages of `idle` pinned and those of `tiered` in the tier.
Left(x, idle, tiered) ==
  /\ idle \in Seq(Storages) /\ IsInjective(idle) /\ tiered \in Seq(Storages) /\ IsInjective(tiered)
  /\ ToSet(idle) \cap ToSet(tiered) = {}
  /\ x.registered = [s \in Storages |-> IF s \in ToSet(idle) THEN [Unregistered EXCEPT !.region = s] ELSE Unregistered]
  /\ x.idle = idle /\ x.pending = {} /\ x.missed = {} /\ x.batch = [t \in Threads |-> <<>>]
  /\ x.tier = [i \in DOMAIN tiered |-> [pointer |-> tiered[i], region |-> tiered[i], retired |-> FALSE]]
  /\ x.regions = [r \in Regions |-> IF r \in ToSet(idle) THEN [state |-> "open", data |-> [i \in 1 .. Size[r] |-> 0]]
                                    ELSE IF r \in ToSet(tiered)
                                    THEN [state |-> "offered", data |-> [i \in 1 .. Size[r] |-> 0]]
                                    ELSE Free]
  /\ Total(x.tier) <= x.maxOffered
  /\ x.maxPinned \in Nat /\ x.maxOffered \in Nat /\ x.watching \in BOOLEAN

\* What it holds, field by field.
Leftover(x, idle, tiered) ==
  /\ x.tier \in Seq(Owner) /\ IsInjective(x.tier)
  /\ \A e \in ToSet(x.tier) : e.pointer = e.region /\ e.pointer \in ToSet(tiered) /\ ~e.retired
  /\ \A s \in ToSet(tiered) : \E e \in ToSet(x.tier) : e.pointer = s
  /\ \A s \in Storages : /\ x.registered[s] \in Registration /\ x.registered[s].leases = 0
                         /\ x.registered[s].region = IF s \in ToSet(idle) THEN s ELSE None
  /\ \A r \in Regions : /\ x.regions[r] \in Region
                        /\ x.regions[r].state # "free" <=> r \in ToSet(idle) \cup ToSet(tiered)
                        /\ r \in ToSet(idle) => x.regions[r].state = "open"
                        /\ \A i \in DOMAIN x.regions[r].data : x.regions[r].data[i] = 0
  /\ x \in Memory

\* Its fields are what the declarations say.
LEMMA LeftFields ==
  ASSUME NEW x, NEW idle, NEW tiered, Left(x, idle, tiered),
         x = [registered |-> x.registered, idle |-> x.idle, pending |-> x.pending, tier |-> x.tier, batch |-> x.batch,
              regions |-> x.regions, maxPinned |-> x.maxPinned, maxOffered |-> x.maxOffered,
              watching |-> x.watching, missed |-> x.missed]
  PROVE  Leftover(x, idle, tiered)
<1>1. /\ idle \in Seq(Storages) /\ IsInjective(idle) /\ tiered \in Seq(Storages) /\ IsInjective(tiered)
      /\ ToSet(idle) \cap ToSet(tiered) = {}
  BY DEF Left
<1>2. /\ ToSet(idle) \subseteq Storages /\ ToSet(tiered) \subseteq Storages
      /\ Len(tiered) \in Nat /\ DOMAIN tiered = 1 .. Len(tiered)
      /\ \A i \in 1 .. Len(tiered) : tiered[i] \in Storages /\ tiered[i] \in ToSet(tiered)
  BY <1>1, ElementsFinite
<1>3. Storages \subseteq Regions /\ None \notin Regions /\ \A s \in Storages : Size[s] \in Nat
  BY OfferedAssumption, ElementOfSeq, LenProperties DEF Storages
<1> DEFINE tier == [i \in 1 .. Len(tiered) |-> [pointer |-> tiered[i], region |-> tiered[i], retired |-> FALSE]]
<1>4. x.tier = tier
  BY <1>2 DEF Left
<1>5. \A i \in 1 .. Len(tiered) : /\ tier[i] \in Owner /\ tier[i].pointer = tiered[i] /\ tier[i].region = tiered[i]
                                  /\ ~tier[i].retired
  BY <1>2, <1>3 DEF Owner
<1>6. DOMAIN tier = 1 .. Len(tiered) /\ tier \in Seq(Owner)
  <2>1. \A i \in 1 .. Len(tiered) : [pointer |-> tiered[i], region |-> tiered[i], retired |-> FALSE] \in Owner
    BY <1>2, <1>3 DEF Owner
  <2> QED
    BY <1>2, <2>1
<1> HIDE DEF tier
<1>7. IsInjective(tier)
  <2>1. SUFFICES ASSUME NEW i \in 1 .. Len(tiered), NEW j \in 1 .. Len(tiered), tier[i] = tier[j]
                 PROVE  i = j
    BY <1>6 DEF IsInjective
  <2>2. tiered[i] = tiered[j]
    BY <1>5, <2>1
  <2> QED
    BY <1>1, <1>2, <2>2 DEF IsInjective
<1>8. /\ \A e \in ToSet(tier) : e.pointer = e.region /\ e.pointer \in ToSet(tiered) /\ ~e.retired
      /\ \A s \in ToSet(tiered) : \E e \in ToSet(tier) : e.pointer = s
  <2>1. ToSet(tier) = {tier[i] : i \in 1 .. Len(tiered)} /\ ToSet(tiered) = {tiered[i] : i \in 1 .. Len(tiered)}
    BY <1>2, <1>6 DEF ToSet
  <2> QED
    BY <1>5, <2>1
<1>9. ASSUME NEW s \in Storages
      PROVE  /\ x.registered[s] \in Registration /\ x.registered[s].leases = 0
             /\ x.registered[s].region = IF s \in ToSet(idle) THEN s ELSE None
  <2> DEFINE pinned == [Unregistered EXCEPT !.region = s]
  <2>1. x.registered[s] = IF s \in ToSet(idle) THEN pinned ELSE Unregistered
    BY DEF Left
  <2>2. pinned \in Registration /\ pinned.region = s /\ pinned.leases = 0
    BY <1>3 DEF Unregistered, Registration
  <2>3. Unregistered \in Registration /\ Unregistered.region = None /\ Unregistered.leases = 0
    BY DEF Unregistered, Registration
  <2> HIDE DEF pinned
  <2> QED
    BY <2>1, <2>2, <2>3
<1>10. ASSUME NEW r \in Regions
       PROVE  /\ x.regions[r] \in Region
              /\ x.regions[r].state # "free" <=> r \in ToSet(idle) \cup ToSet(tiered)
              /\ r \in ToSet(idle) => x.regions[r].state = "open"
              /\ \A i \in DOMAIN x.regions[r].data : x.regions[r].data[i] = 0
  <2> DEFINE data == [i \in 1 .. Size[r] |-> 0]
             open == [state |-> "open", data |-> data]
             offered == [state |-> "offered", data |-> data]
  <2>1. x.regions[r] = IF r \in ToSet(idle) THEN open ELSE IF r \in ToSet(tiered) THEN offered ELSE Free
    BY DEF Left
  <2>2. r \in ToSet(idle) \cup ToSet(tiered) => data \in Seq(Int)
    <3>1. r \in ToSet(idle) \cup ToSet(tiered) => Size[r] \in Nat
      BY <1>2, <1>3
    <3> QED
      BY <3>1
  <2>3. \A i \in DOMAIN data : data[i] = 0
    OBVIOUS
  <2> HIDE DEF data
  <2>4. /\ open.state = "open" /\ open.data = data /\ (data \in Seq(Int) => open \in Region)
        /\ offered.state = "offered" /\ offered.data = data /\ (data \in Seq(Int) => offered \in Region)
    BY DEF Region
  <2>5. Free \in Region /\ Free.state = "free" /\ Free.data = <<>>
    <3>1. <<>> \in Seq(Int)
      OBVIOUS
    <3> QED
      BY <3>1 DEF Free, Region
  <2>6. DOMAIN <<>> = {}
    BY NoLoads
  <2> HIDE DEF open, offered
  <2>7. CASE r \in ToSet(idle)
    BY <2>1, <2>2, <2>3, <2>4, <2>7
  <2>8. CASE r \notin ToSet(idle) /\ r \in ToSet(tiered)
    BY <2>1, <2>2, <2>3, <2>4, <2>8
  <2>9. CASE r \notin ToSet(idle) /\ r \notin ToSet(tiered)
    <3>1. x.regions[r] = Free
      BY <2>1, <2>9
    <3> QED
      BY <2>5, <2>6, <2>9, <3>1
  <2> QED
    BY <2>7, <2>8, <2>9
<1>11. x \in Memory
  <2>1. x.registered \in [Storages -> Registration]
    <3>1. x.registered = [s \in Storages |-> x.registered[s]]
      BY DEF Left
    <3> QED
      BY <1>9, <3>1
  <2>2. x.regions \in [Regions -> Region]
    <3>1. x.regions = [r \in Regions |-> x.regions[r]]
      BY DEF Left
    <3> QED
      BY <1>10, <3>1
  <2>3. x.batch \in [Threads -> Seq(Offering)]
    <3>1. <<>> \in Seq(Offering)
      OBVIOUS
    <3> QED
      BY <3>1 DEF Left
  <2>4. x.idle \in Seq(Storages) /\ x.pending \in SUBSET Storages /\ x.missed \in SUBSET Storages
    BY <1>1 DEF Left
  <2>5. x.maxPinned \in Nat /\ x.maxOffered \in Nat /\ x.watching \in BOOLEAN
    BY DEF Left
  <2>6. x.tier \in Seq(Owner)
    BY <1>4, <1>6
  <2> QED
    BY <2>1, <2>2, <2>3, <2>4, <2>5, <2>6 DEF Memory
<1> QED
  BY <1>4, <1>6, <1>7, <1>8, <1>9, <1>10, <1>11 DEF Leftover

\* That state is good for storages of which nobody has replaced any.
LEMMA LeftGood ==
  ASSUME NEW x, NEW idle, NEW tiered, NEW n, NEW cur, Left(x, idle, tiered), Leftover(x, idle, tiered),
         n = [s \in Storages |-> 0], cur = [s \in Storages |-> 0]
  PROVE  Good(x, {}, n, cur)
<1>1. /\ idle \in Seq(Storages) /\ IsInjective(idle) /\ tiered \in Seq(Storages)
      /\ ToSet(idle) \cap ToSet(tiered) = {} /\ ToSet(idle) \subseteq Storages /\ ToSet(tiered) \subseteq Storages
      /\ x.idle = idle /\ x.pending = {} /\ x.missed = {} /\ x.batch = [t \in Threads |-> <<>>]
      /\ Total(x.tier) <= x.maxOffered
  <2>1. /\ idle \in Seq(Storages) /\ IsInjective(idle) /\ tiered \in Seq(Storages)
        /\ ToSet(idle) \cap ToSet(tiered) = {}
        /\ x.idle = idle /\ x.pending = {} /\ x.missed = {} /\ x.batch = [t \in Threads |-> <<>>]
        /\ Total(x.tier) <= x.maxOffered
    BY DEF Left
  <2> QED
    BY <2>1, ElementsFinite
<1>2. Storages \subseteq Regions /\ None \notin Regions
  BY OfferedAssumption
<1>3. /\ x \in Memory /\ IsInjective(x.tier)
      /\ \A e \in ToSet(x.tier) : e \in Owner /\ e.pointer = e.region /\ e.pointer \in ToSet(tiered) /\ ~e.retired
      /\ \A s \in ToSet(tiered) : \E e \in ToSet(x.tier) : e.pointer = s
  <2>1. x \in Memory
    BY DEF Leftover
  <2> QED
    BY <2>1, OwnedRegions DEF Leftover
<1>4. \A s \in Storages : /\ x.registered[s].leases = 0
                          /\ x.registered[s].region = IF s \in ToSet(idle) THEN s ELSE None
  BY DEF Leftover
<1>5. \A r \in Regions : /\ x.regions[r].state # "free" <=> r \in ToSet(idle) \cup ToSet(tiered)
                         /\ r \in ToSet(idle) => x.regions[r].state = "open"
                         /\ \A i \in DOMAIN x.regions[r].data : x.regions[r].data[i] = 0
  BY DEF Leftover
<1>6. RegisteredRegions(x) = ToSet(idle) /\ RegisteredApart(x)
  <2>1. \A s \in Storages : s # None
    BY <1>2
  <2>2. RegisteredRegions(x) = ToSet(idle)
    BY <1>1, <1>4, <2>1 DEF RegisteredRegions
  <2>3. RegisteredApart(x)
    BY <1>4, <2>1 DEF RegisteredApart
  <2> QED
    BY <2>2, <2>3
<1>7. TierRegions(x) = ToSet(tiered) /\ TierApart(x) /\ Tiered(x) = ToSet(tiered)
  <2>1. TierRegions(x) = ToSet(tiered)
    BY <1>3 DEF TierRegions
  <2>2. Tiered(x) = ToSet(tiered)
    BY <1>3 DEF Tiered, Pointers
  <2>3. \A d, e \in ToSet(x.tier) : d.region = e.region \/ d.pointer = e.pointer => d = e
    BY <1>3 DEF Owner
  <2> QED
    BY <1>3, <2>1, <2>2, <2>3 DEF TierApart
<1>8. (\A t \in Threads : BatchRegions(x, t) = {} /\ DOMAIN x.batch[t] = {}) /\ BatchApart(x)
  <2>1. \A t \in Threads : x.batch[t] = <<>> /\ DOMAIN x.batch[t] = {}
    BY <1>1, NoLoads
  <2>2. \A t \in Threads : BatchRegions(x, t) = {}
    BY <2>1 DEF BatchRegions
  <2> QED
    BY <2>1, <2>2 DEF BatchApart
<1>9. KindsApart(x, {}) /\ Covered(x, {})
  BY <1>1, <1>5, <1>6, <1>7, <1>8 DEF KindsApart, Covered
<1>10. Booked(x, n)
  <2>1. \A s \in Storages : n[s] = 0 /\ s # None
    BY <1>2
  <2>2. ToSet(idle) = {s \in Storages : x.registered[s].region # None /\ n[s] = 0}
    BY <1>1, <1>4, <2>1
  <2>3. \A s \in Storages : x.registered[s].leases = n[s] /\ (n[s] > 0 => x.registered[s].region # None)
    BY <1>4, <2>1
  <2> QED
    BY <1>1, <2>2, <2>3 DEF Booked
<1>11. WithinTier(x)
  BY <1>1, <1>4, <1>7 DEF WithinTier, Occupied
<1>12. RegisteredWhole(x, cur)
  <2>1. \A s \in ToSet(idle) : s \in Regions /\ cur[s] = 0
    BY <1>1, <1>2
  <2> QED
    BY <1>4, <1>5, <2>1 DEF RegisteredWhole, Whole
<1>13. TierRight(x, cur) /\ BatchRight(x, cur)
  <2>1. \A e \in ToSet(x.tier) : e.region \in Regions /\ cur[e.pointer] = 0
    BY <1>3 DEF Owner
  <2>2. TierRight(x, cur)
    BY <1>3, <1>5, <2>1 DEF TierRight, Offerable, Mixed
  <2> QED
    BY <1>8, <2>2 DEF BatchRight
<1> QED
  BY <1>3, <1>6, <1>7, <1>8, <1>9, <1>10, <1>11, <1>12, <1>13 DEF Good


\* Nothing is leased or reserved at first.
LEMMA InitSound == Init => IInv
<1> SUFFICES ASSUME Init PROVE IInv
  OBVIOUS
<1> DEFINE owners == [s \in Storages |-> [pointer |-> s, region |-> s, retired |-> FALSE]]
           Zeros(s) == [i \in 1 .. Size[s] |-> 0]
           registered(idle) == [s \in Storages |-> IF s \in ToSet(idle) THEN [Unregistered EXCEPT !.region = s]
                                                   ELSE Unregistered]
           tier(tiered) == [i \in DOMAIN tiered |-> owners[tiered[i]]]
           regions(idle, tiered) == [r \in Regions |->
                          IF r \in ToSet(idle) THEN [state |-> "open", data |-> Zeros(r)]
                          ELSE IF r \in ToSet(tiered) THEN [state |-> "offered", data |-> Zeros(r)]
                          ELSE Free]
           y(idle, tiered, pinned, offered) ==
             [registered |-> registered(idle), idle |-> idle, pending |-> {}, tier |-> tier(tiered),
              batch |-> [t \in Threads |-> <<>>], regions |-> regions(idle, tiered),
              maxPinned |-> pinned, maxOffered |-> offered, watching |-> tiered # <<>>, missed |-> {}]
<1>1. PICK pinned \in PinnedBudgets, offered \in OfferedBudgets, idle \in Orders, tiered \in Orders :
        /\ ToSet(idle) \cap ToSet(tiered) = {}
        /\ memory = y(idle, tiered, pinned, offered)
        /\ Total(memory.tier) <= offered
  BY DEF Init
<1>2. call = [t \in Threads |-> NoCall] /\ current = [s \in Storages |-> 0]
  BY DEF Init
<1>3. /\ idle \in Seq(Storages) /\ IsInjective(idle) /\ tiered \in Seq(Storages) /\ IsInjective(tiered)
  BY OrdersType
<1>4. pinned \in Nat /\ offered \in Nat /\ (tiered # <<>>) \in BOOLEAN
  BY OfferedAssumption
<1>5. tier(tiered) = [i \in DOMAIN tiered |-> [pointer |-> tiered[i], region |-> tiered[i], retired |-> FALSE]]
  <2>1. \A i \in DOMAIN tiered : tiered[i] \in Storages
    BY <1>3, ElementsFinite
  <2> QED
    BY <2>1
<1> DEFINE R == registered(idle)
           T == tier(tiered)
           G == regions(idle, tiered)
           W == tiered # <<>>
<1>6. memory = [registered |-> R, idle |-> idle, pending |-> {}, tier |-> T,
                batch |-> [t \in Threads |-> <<>>], regions |-> G,
                maxPinned |-> pinned, maxOffered |-> offered, watching |-> W, missed |-> {}]
  BY <1>1
<1>7. /\ R = [s \in Storages |-> IF s \in ToSet(idle) THEN [Unregistered EXCEPT !.region = s] ELSE Unregistered]
      /\ G = [r \in Regions |-> IF r \in ToSet(idle) THEN [state |-> "open", data |-> [i \in 1 .. Size[r] |-> 0]]
                                ELSE IF r \in ToSet(tiered)
                                THEN [state |-> "offered", data |-> [i \in 1 .. Size[r] |-> 0]]
                                ELSE Free]
      /\ T = [i \in DOMAIN tiered |-> [pointer |-> tiered[i], region |-> tiered[i], retired |-> FALSE]]
      /\ W \in BOOLEAN
  BY <1>4, <1>5
<1> HIDE DEF R, T, G, W, registered, tier, regions, y
<1>8. /\ memory.registered = R /\ memory.idle = idle /\ memory.pending = {} /\ memory.tier = T
      /\ memory.batch = [t \in Threads |-> <<>>] /\ memory.regions = G
      /\ memory.maxPinned = pinned /\ memory.maxOffered = offered /\ memory.watching = W /\ memory.missed = {}
  BY <1>6
<1>9. memory = [registered |-> memory.registered, idle |-> memory.idle, pending |-> memory.pending,
                tier |-> memory.tier, batch |-> memory.batch, regions |-> memory.regions,
                maxPinned |-> memory.maxPinned, maxOffered |-> memory.maxOffered,
                watching |-> memory.watching, missed |-> memory.missed]
  BY <1>6, <1>8
<1>10. Left(memory, idle, tiered)
  <2>1. Total(memory.tier) <= memory.maxOffered
    BY <1>1, <1>8
  <2> QED
    BY <1>1, <1>3, <1>4, <1>7, <1>8, <2>1 DEF Left
<1>11. Leftover(memory, idle, tiered)
  BY <1>9, <1>10, LeftFields
<1>12. /\ NoCall.loads = <<>> /\ NoCall.held = <<>>
       /\ LoadRegions(NoCall.loads) = {} /\ Pointers(NoCall.loads) = {}
  BY NoLoads DEF NoCall
<1>13. Leases(call) = [s \in Storages |-> 0] /\ Loading(call) = {}
  <2>1. \A s \in Storages : {t \in Threads : s \in ToSet(call[t].held)} = {}
    BY <1>2, <1>12, NoLoads
  <2>2. Cardinality({}) = 0
    BY FS_EmptySet
  <2>3. Leases(call) = [s \in Storages |-> 0]
    BY <2>1, <2>2 DEF Leases
  <2>4. \A t \in Threads : LoadRegions(call[t].loads) = {}
    BY <1>2, <1>12
  <2> QED
    BY <2>3, <2>4 DEF Loading
<1>14. Good(memory, Loading(call), Leases(call), current)
  <2> DEFINE n == Leases(call)
  <2>1. n = [s \in Storages |-> 0]
    BY <1>13
  <2> HIDE DEF n
  <2>2. Good(memory, {}, n, current)
    BY <1>2, <1>10, <1>11, <2>1, LeftGood
  <2> QED
    BY <1>13, <2>2 DEF n
<1>15. CallRight(memory, NoCall, current)
  <2>1. /\ IsInjective(<<>>) /\ ToSet(<<>>) = {} /\ Pointers(<<>>) = {} /\ LoadsApart(<<>>)
        /\ LoadsRight(memory, <<>>, current)
    BY NoLoads DEF IsInjective, LoadsApart, LoadsRight
  <2> QED
    BY <2>1 DEF CallRight, NoCall
<1>16. call \in [Threads -> Call] /\ current \in [Storages -> Nat]
  BY <1>2, NoCallType
<1>17. memory.pending = UNION {Pointers(call[t].loads) : t \in Threads}
  BY <1>2, <1>8, <1>12
<1>18. /\ \A t \in Threads : CallRight(memory, call[t], current)
       /\ \A t, u \in Threads : t # u => call[t].loads = <<>> \/ call[u].loads = <<>>
  BY <1>2, <1>12, <1>15
<1> QED
  BY <1>14, <1>16, <1>17, <1>18 DEF IInv, Sound

\* A step of the manager keeps the invariant.
LEMMA NextSound == IInv /\ [Next]_vars => IInv'
<1> SUFFICES ASSUME IInv, [Next]_vars
             PROVE  IInv'
  OBVIOUS
<1>1. ASSUME NEW t \in Threads, Acquire(t)
      PROVE  IInv'
  BY <1>1, AcquireSound
<1>2. ASSUME NEW t \in Threads, SetPinned(t)
      PROVE  IInv'
  BY <1>2, SetPinnedSound
<1>3. ASSUME NEW t \in Threads, Steps(t)
      PROVE  IInv'
  <2>1. CASE Finish(t)
    BY <2>1, FinishSound
  <2>2. CASE Yield(t)
    BY <2>2, YieldSound
  <2>3. CASE FillFirst(t)
    BY <2>3, FillFirstSound
  <2>4. CASE FillRest(t)
    BY <2>4, FillRestSound
  <2>5. CASE DiscardPending(t)
    BY <2>5, DiscardPendingSound
  <2>6. ASSUME NEW i \in DOMAIN memory.batch[t], OfferEnds(t, i)
        PROVE  IInv'
    BY <2>6, OfferEndsSound
  <2>7. ASSUME NEW i \in DOMAIN call[t].loads, ReclaimStarts(t, i)
        PROVE  IInv'
    BY <2>7, ReclaimStartsSound
  <2>8. ASSUME NEW i \in DOMAIN call[t].loads, ReclaimEnds(t, i)
        PROVE  IInv'
    BY <2>8, ReclaimEndsSound
  <2> QED
    BY <1>3, <2>1, <2>2, <2>3, <2>4, <2>5, <2>6, <2>7, <2>8 DEF Steps
<1>4. ASSUME NEW t \in Threads, CloseLease(t)
      PROVE  IInv'
  BY <1>4, CloseLeaseSound
<1>5. CASE SetOffered
  BY <1>5, SetOfferedSound
<1>6. CASE Clear
  BY <1>6, ClearSound
<1>7. CASE Watch
  BY <1>7, WatchSound
<1>8. CASE Commitment
  BY <1>8 DEF Commitment, IInv
<1>9. ASSUME NEW s \in Storages, OwnerGone(s)
      PROVE  IInv'
  BY <1>9, OwnerGoneSound
<1>10. ASSUME NEW r \in Regions, NEW i \in DOMAIN memory.regions[r].data, Discard(r, i)
       PROVE  IInv'
  BY <1>10, DiscardSound
<1>11. CASE UNCHANGED vars
  BY <1>11 DEF vars, IInv
<1>12. CASE Next
  BY <1>1, <1>2, <1>3, <1>4, <1>5, <1>6, <1>7, <1>8, <1>9, <1>10, <1>12 DEF Next
<1> QED
  BY <1>11, <1>12

\* In every state the copies, the tier and the acquisitions are as the code's
\* comments promise, together (pin_manager.py, _copy_memory_windows.py).
THEOREM Invariance == Spec => []IInv
<1>1. Init => IInv
  BY InitSound
<1>2. IInv /\ [Next]_vars => IInv'
  BY NextSound
<1> QED
  BY <1>1, <1>2, PTL DEF Spec


-----------------------------------------------------------------------------
(* What follows from the invariant. *)

\* An owner of a kind is the only one of its kind, and owns a region of that kind.
LEMMA OneOfAKind ==
  ASSUME IInv, NEW r \in Regions
  PROVE  /\ Registrants(r) # {} <=> r \in RegisteredRegions(memory)
         /\ \A s, u \in Registrants(r) : s = u
         /\ Places(r) # {} <=> r \in TierRegions(memory)
         /\ \A i, j \in Places(r) : i = j
         /\ (\E t \in Threads : Loaders(r, t) # {}) <=> r \in Loading(call)
         /\ \A t, u \in Threads : \A i \in Loaders(r, t), j \in Loaders(r, u) : t = u /\ i = j
         /\ \A t \in Threads : Offers(r, t) # {} <=> r \in BatchRegions(memory, t)
         /\ \A t, u \in Threads : \A i \in Offers(r, t), j \in Offers(r, u) : t = u /\ i = j
<1>1. r # None
  BY OfferedAssumption
<1>2. /\ memory \in Memory /\ RegisteredApart(memory) /\ TierApart(memory) /\ BatchApart(memory)
      /\ call \in [Threads -> Call] /\ \A t \in Threads : LoadsApart(call[t].loads)
      /\ \A t, u \in Threads : t # u => call[t].loads = <<>> \/ call[u].loads = <<>>
  BY GoodParts DEF IInv, Sound, CallRight
<1>3. /\ Registrants(r) # {} <=> r \in RegisteredRegions(memory)
      /\ \A s, u \in Registrants(r) : s = u
  BY <1>1, <1>2 DEF Registrants, RegisteredRegions, RegisteredApart
<1>4. Places(r) # {} <=> r \in TierRegions(memory)
  BY DEF Places, TierRegions, ToSet
<1>5. ASSUME NEW i \in Places(r), NEW j \in Places(r)
      PROVE  i = j
  <2>1. /\ i \in DOMAIN memory.tier /\ j \in DOMAIN memory.tier
        /\ memory.tier[i].region = r /\ memory.tier[j].region = r
    BY DEF Places
  <2>2. memory.tier[i] \in ToSet(memory.tier) /\ memory.tier[j] \in ToSet(memory.tier)
    BY <2>1 DEF ToSet
  <2>3. memory.tier[i] = memory.tier[j] /\ IsInjective(memory.tier)
    BY <1>2, <2>1, <2>2 DEF TierApart
  <2> QED
    BY <2>1, <2>3 DEF IsInjective
<1>6. \A t \in Threads : Loaders(r, t) # {} <=> r \in LoadRegions(call[t].loads)
  BY <1>1 DEF Loaders, LoadRegions, ToSet
<1>7. (\E t \in Threads : Loaders(r, t) # {}) <=> r \in Loading(call)
  BY <1>6 DEF Loading
<1>8. ASSUME NEW t \in Threads, NEW u \in Threads, NEW i \in Loaders(r, t), NEW j \in Loaders(r, u)
      PROVE  t = u /\ i = j
  <2>1. /\ i \in DOMAIN call[t].loads /\ call[t].loads[i].region = r
        /\ j \in DOMAIN call[u].loads /\ call[u].loads[j].region = r
    BY DEF Loaders
  <2>2. call[t].loads # <<>> /\ call[u].loads # <<>>
    BY <2>1, NoLoads
  <2>3. t = u
    BY <1>2, <2>2
  <2> QED
    BY <1>1, <1>2, <2>1, <2>3 DEF LoadsApart
<1>9. \A t \in Threads : Offers(r, t) # {} <=> r \in BatchRegions(memory, t)
  BY DEF Offers, BatchRegions
<1>10. ASSUME NEW t \in Threads, NEW u \in Threads, NEW i \in Offers(r, t), NEW j \in Offers(r, u)
       PROVE  t = u /\ i = j
  <2>1. /\ i \in DOMAIN memory.batch[t] /\ memory.batch[t][i].owner.region = r
        /\ j \in DOMAIN memory.batch[u] /\ memory.batch[u][j].owner.region = r
    BY DEF Offers
  <2>2. r \in BatchRegions(memory, t) /\ r \in BatchRegions(memory, u)
    BY <2>1 DEF BatchRegions
  <2>3. t = u
    BY <1>2, <2>2 DEF BatchApart
  <2> QED
    BY <1>2, <2>1, <2>3 DEF BatchApart
<1> QED
  BY <1>3, <1>4, <1>5, <1>7, <1>8, <1>9, <1>10

\* No region has two owners, and an allocated one has one.
LEMMA OneOwnerHolds == IInv => OneOwner
<1> SUFFICES ASSUME IInv, NEW r \in Regions
             PROVE  Cardinality(Owned(r)) = IF r \in FreeRegions(memory) THEN 0 ELSE 1
  BY DEF OneOwner
<1> DEFINE A == {<<"registered", s>> : s \in Registrants(r)}
           B == {<<"tier", i>> : i \in Places(r)}
           load(t) == {<<"load", t, i>> : i \in Loaders(r, t)}
           offer(t) == {<<"batch", t, i>> : i \in Offers(r, t)}
           C == UNION {load(t) : t \in Threads}
           D == UNION {offer(t) : t \in Threads}
           Held == r \in RegisteredRegions(memory)
           Kept == r \in TierRegions(memory)
           Loaded == r \in Loading(call)
           Batched == \E t \in Threads : r \in BatchRegions(memory, t)
<1>1. Owned(r) = A \cup B \cup C \cup D
  <2>1. Owned(r) = A \cup B \cup UNION {load(t) \cup offer(t) : t \in Threads}
    BY DEF Owned
  <2> HIDE DEF A, B, load, offer
  <2> QED
    BY <2>1
<1>2. KindsApart(memory, Loading(call)) /\ Covered(memory, Loading(call))
  BY GoodParts DEF IInv, Sound
<1>3. A = {} <=> ~Held
  <2>1. A = {} <=> Registrants(r) = {}
    OBVIOUS
  <2>2. Registrants(r) # {} <=> Held
    BY OneOfAKind
  <2> QED
    BY <2>1, <2>2
<1>4. B = {} <=> ~Kept
  <2>1. B = {} <=> Places(r) = {}
    OBVIOUS
  <2>2. Places(r) # {} <=> Kept
    BY OneOfAKind
  <2> QED
    BY <2>1, <2>2
<1>5. C = {} <=> ~Loaded
  <2>1. C = {} <=> \A t \in Threads : Loaders(r, t) = {}
    <3>1. \A t \in Threads : load(t) = {} <=> Loaders(r, t) = {}
      OBVIOUS
    <3> HIDE DEF load
    <3> QED
      BY <3>1
  <2>2. (\E t \in Threads : Loaders(r, t) # {}) <=> Loaded
    BY OneOfAKind
  <2> QED
    BY <2>1, <2>2
<1>6. D = {} <=> ~Batched
  <2>1. D = {} <=> \A t \in Threads : Offers(r, t) = {}
    <3>1. \A t \in Threads : offer(t) = {} <=> Offers(r, t) = {}
      OBVIOUS
    <3> HIDE DEF offer
    <3> QED
      BY <3>1
  <2>2. \A t \in Threads : Offers(r, t) # {} <=> r \in BatchRegions(memory, t)
    BY OneOfAKind
  <2> QED
    BY <2>1, <2>2
<1>7. Held => \E e : A = {e}
  <2> SUFFICES ASSUME Held PROVE \E e : A = {e}
    OBVIOUS
  <2>1. PICK s \in Registrants(r) : TRUE
    BY OneOfAKind
  <2>2. A = {<<"registered", s>>}
    BY OneOfAKind
  <2> QED
    BY <2>2
<1>8. Kept => \E e : B = {e}
  <2> SUFFICES ASSUME Kept PROVE \E e : B = {e}
    OBVIOUS
  <2>1. PICK i \in Places(r) : TRUE
    BY OneOfAKind
  <2>2. B = {<<"tier", i>>}
    BY OneOfAKind
  <2> QED
    BY <2>2
<1>9. Loaded => \E e : C = {e}
  <2> SUFFICES ASSUME Loaded PROVE \E e : C = {e}
    OBVIOUS
  <2>1. PICK t \in Threads : Loaders(r, t) # {}
    BY OneOfAKind
  <2>2. PICK i \in Loaders(r, t) : TRUE
    BY <2>1
  <2>3. \A u \in Threads : \A j \in Loaders(r, u) : u = t /\ j = i
    BY OneOfAKind
  <2>4. C = {<<"load", t, i>>}
    BY <2>3
  <2> QED
    BY <2>4
<1>10. Batched => \E e : D = {e}
  <2> SUFFICES ASSUME Batched PROVE \E e : D = {e}
    OBVIOUS
  <2>1. PICK t \in Threads : Offers(r, t) # {}
    BY OneOfAKind
  <2>2. PICK i \in Offers(r, t) : TRUE
    BY <2>1
  <2>3. \A u \in Threads : \A j \in Offers(r, u) : u = t /\ j = i
    BY OneOfAKind
  <2>4. D = {<<"batch", t, i>>}
    BY <2>3
  <2> QED
    BY <2>4
<1>11. /\ ~(Held /\ Kept) /\ ~(Held /\ Loaded) /\ ~(Kept /\ Loaded)
       /\ ~(Batched /\ Held) /\ ~(Batched /\ Kept) /\ ~(Batched /\ Loaded)
  BY <1>2 DEF KindsApart
<1>12. r \in FreeRegions(memory) <=> ~(Held \/ Kept \/ Loaded \/ Batched)
  BY <1>2 DEF Covered, FreeRegions
<1> HIDE DEF A, B, C, D, Held, Kept, Loaded, Batched
<1>13. CASE r \in FreeRegions(memory)
  <2>1. Owned(r) = {}
    BY <1>1, <1>3, <1>4, <1>5, <1>6, <1>12, <1>13
  <2> QED
    BY <1>13, <2>1, FS_EmptySet
<1>14. CASE r \notin FreeRegions(memory)
  <2>1. \E e : Owned(r) = {e}
    BY <1>1, <1>3, <1>4, <1>5, <1>6, <1>7, <1>8, <1>9, <1>10, <1>11, <1>12, <1>14
  <2> QED
    BY <1>14, <2>1, FS_Singleton
<1> QED
  BY <1>13, <1>14

\* The tier keeps to its budget, and to one copy of a storage that is not pinned.
LEMMA TierKeptHolds == IInv => TierKept
<1> SUFFICES ASSUME IInv PROVE TierKept
  OBVIOUS
<1>1. memory \in Memory /\ TierApart(memory) /\ WithinTier(memory)
  BY GoodParts DEF IInv, Sound
<1>2. memory.tier \in Seq(Owner) /\ Len(memory.tier) \in Nat /\ DOMAIN memory.tier = 1 .. Len(memory.tier)
  BY <1>1, Fields, LenProperties
<1> DEFINE U == 1 .. Len(memory.tier)
           f == [i \in U |-> memory.tier[i].pointer]
<1>3. f \in Bijection(U, Tiered(memory))
  <2>1. Tiered(memory) = {memory.tier[i].pointer : i \in U}
    BY <1>2 DEF Tiered, Pointers, ToSet
  <2>2. ASSUME NEW i \in U, NEW j \in U, memory.tier[i].pointer = memory.tier[j].pointer
        PROVE  i = j
    <3>1. memory.tier[i] \in ToSet(memory.tier) /\ memory.tier[j] \in ToSet(memory.tier)
      BY <1>2 DEF ToSet
    <3>2. memory.tier[i] = memory.tier[j] /\ IsInjective(memory.tier)
      BY <1>1, <2>2, <3>1 DEF TierApart
    <3> QED
      BY <1>2, <3>2 DEF IsInjective
  <2> HIDE DEF U
  <2>3. f \in [U -> Tiered(memory)] /\ \A i \in U : f[i] = memory.tier[i].pointer
    BY <2>1
  <2> HIDE DEF f
  <2>4. f \in Injection(U, Tiered(memory))
    BY <2>2, <2>3 DEF Injection, IsInjective
  <2>5. f \in Surjection(U, Tiered(memory))
    BY <2>1, <2>3 DEF Surjection
  <2> QED
    BY <2>4, <2>5 DEF Bijection
<1>4. Cardinality(Tiered(memory)) = Len(memory.tier)
  <2>1. IsFiniteSet(U) /\ Cardinality(U) = Len(memory.tier)
    <3>1. /\ IsFiniteSet(1 .. Len(memory.tier))
          /\ Cardinality(1 .. Len(memory.tier))
               = IF 1 > Len(memory.tier) THEN 0 ELSE Len(memory.tier) - 1 + 1
      BY <1>2, FS_Interval
    <3> QED
      BY <1>2, <3>1
  <2> HIDE DEF f, U
  <2> QED
    BY <1>3, <2>1, FS_Bijection DEF ExistsBijection
<1> QED
  BY <1>1, <1>4 DEF TierKept, WithinTier

\* A region has exactly one owner from VirtualAlloc to VirtualFree, and the tier
\* keeps to its budget and to storages that are not pinned, for any number of
\* threads, storages and regions (CopyOwner, _OfferBatch, _settle_offer, reserve).
THEOREM CopiesKeptAlways == Spec => []CopiesKept
<1>1. IInv => CopiesKept
  BY OneOwnerHolds, TierKeptHolds DEF CopiesKept
<1> QED
  BY <1>1, Invariance, PTL

\* What is registered with CUDA is accessible and holds its own storage's bytes,
\* whatever Windows discards and whichever owner ends when (_reclaimed,
\* _register_pending, owner_gone).
THEOREM RegisteredIsRightAlways == Spec => []RegisteredIsRight
<1>1. IInv => RegisteredIsRight
  <2>1. IInv => RegisteredWhole(memory, current)
    BY GoodParts DEF IInv, Sound
  <2> QED
    BY <2>1 DEF RegisteredIsRight, RegisteredWhole, Whole
<1> QED
  BY <1>1, Invariance, PTL

=============================================================================
