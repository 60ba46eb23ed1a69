-------------------------- MODULE PinManagerProofs --------------------------
(***************************************************************************)
(* What PinManager's leases promise, and that its books agree, proved for  *)
(* any callers, storages, layout, requests, budgets and bounds.            *)
(***************************************************************************)
EXTENDS PinManager, DataLemmas

-----------------------------------------------------------------------------
(* The inductive invariant *)

\* The part of a request an acquisition's loop has been through.
Before(p) == {req[p][j] : j \in {i \in DOMAIN req[p] : i < at[p]}}

\* TypeOK, but for the sign of the lease counts, which takes LeasesCounted.
TypedManager ==
    /\ lock \in Callers \cup {Nobody}
    /\ budget \in Budgets
    /\ registered \subseteq Storages /\ retired \subseteq Storages /\ tried \subseteq Storages
    /\ idle \in Seq(Storages)
    /\ leases \in [Storages -> Int]
    /\ owners \in [Storages -> SUBSET Callers]
    /\ open \subseteq Callers /\ rooted \in BOOLEAN
    /\ pageable \in [Storages -> Int]
    /\ starts \in [Storages -> Int]
    /\ boundary \in [Pages -> Int]
    /\ pinned \in Int
    /\ mark \in Int
    /\ failures \in 0 .. MaxFailures
    /\ calls \in 0 .. MaxCalls

TypedCallers ==
    /\ pc \in [Callers -> Stages]
    /\ req \in [Callers -> Seq(Storages)]
    /\ pin \in [Callers -> BOOLEAN]
    /\ at \in [Callers -> Nat \ {0}]
    /\ held \in [Callers -> Seq(Storages)]
    /\ pend \in [Callers -> Seq(Storages)]
    /\ created \in [Callers -> SUBSET Storages]
    /\ ready \in [Callers -> SUBSET Storages]
    /\ spoiled \in [Callers -> SUBSET Storages]
    /\ paged \in [Callers -> SUBSET Storages]
    /\ reading \in [Callers -> SUBSET Storages]

Typed == TypedManager /\ TypedCallers

\* A call inside a critical section has the lock, and a capacity retry is one
\* that still has storage to register.
Sections ==
    /\ \A p \in Callers : pc[p] \in {"hold", "reserve", "release", "trim", "clear"} => lock = p
    /\ mark # -1 =>
          \E p \in Callers : lock = p /\ pc[p] \in {"early", "final"} /\ pend[p] # <<>>

\* What a caller holds and has pending at each stage, once each, and what the
\* loops over its request have been through.
Locals ==
    \A p \in Callers :
        /\ IsInjective(req[p]) /\ IsInjective(held[p]) /\ IsInjective(pend[p])
        /\ pc[p] \in {"free", "waiting", "trim", "clear"} => held[p] = <<>>
        /\ pc[p] \in {"free", "waiting", "hold", "leased", "release", "trim", "clear"} => pend[p] = <<>>
        /\ pc[p] = "hold" => Held(p) \subseteq Before(p) /\ Before(p) \cap registered \subseteq Held(p)
        /\ pc[p] = "reserve" => /\ pin[p]
                                /\ Asked(p) \cap registered \subseteq Held(p)
                                /\ ToSet(pend[p]) \subseteq Before(p)

\* Nobody else has storage pending while a pinning acquisition holds and reserves.
Alone ==
    \A p, q \in Callers :
        pc[p] \in {"hold", "reserve"} /\ pin[p] /\ p # q => pend[q] = <<>>

\* Pending storage is one acquisition's, and not registered.
Exclusive ==
    /\ \A p, q \in Callers : pend[p] # <<>> /\ pend[q] # <<>> => p = q
    /\ \A p \in Callers : ToSet(pend[p]) \cap registered = {}

Tables == Exclusive /\ HeldStaysRegistered /\ LeasesCounted /\ IdleIsUnleased

Core == Sections /\ Locals /\ Alone /\ Tables

IInv == Typed /\ Core

-----------------------------------------------------------------------------
(* Types *)

\* Pages are counted in whole numbers.
LEMMA NeedType ==
  ASSUME NEW s \in Storages, NEW b \in [Pages -> Int]
  PROVE  PageReservation(b, s) \in Int
<1>1. Boundaries(s) = {FirstPage[s]} \cup {LastPage[s]}
  BY DEF Boundaries
<1>2. IsFiniteSet(Boundaries(s))
  <2>1. IsFiniteSet({FirstPage[s]})
    BY FS_Singleton
  <2>2. QED
    BY <1>1, <2>1, FS_AddElement
<1>3. Cardinality({g \in Boundaries(s) : b[g] > 0}) \in Nat
  BY <1>2, FS_Subset, FS_CardinalityType
<1>4. QED
  BY <1>3, StorageAssumption DEF PageReservation

\* Reserving and returning a range keeps the page tables typed.
LEMMA ReserveType ==
  ASSUME Typed, NEW s \in Storages, Reserve(s) \/ Unreserve(s)
  PROVE  pinned' \in Int /\ boundary' \in [Pages -> Int]
<1>1. boundary \in [Pages -> Int] /\ pinned \in Int
  BY DEF Typed, TypedManager
<1>2. Need(s) \in Int /\ SizePages[s] \in Int
  BY <1>1, NeedType, StorageAssumption DEF Need
<1>3. CASE Reserve(s)
  BY <1>1, <1>2, <1>3 DEF Reserve
<1>4. CASE Unreserve(s)
  <2>1. boundary' \in [Pages -> Int]
    BY <1>1, <1>4 DEF Unreserve
  <2>2. PageReservation(boundary', s) \in Int
    BY <2>1, NeedType
  <2>3. QED
    BY <1>1, <1>2, <1>4, <2>1, <2>2 DEF Unreserve
<1>5. QED
  BY <1>3, <1>4

\* So does dropping a registration.
LEMMA UnregisterType ==
  ASSUME Typed, IsInjective(idle), NEW s \in Storages, UnregisterDone(s), open' \in SUBSET Callers
  PROVE  /\ registered' \subseteq Storages /\ retired' \subseteq Storages
         /\ idle' \in Seq(Storages)
         /\ starts' \in [Storages -> Int] /\ owners' \in [Storages -> SUBSET Callers]
         /\ pinned' \in Int /\ boundary' \in [Pages -> Int]
         /\ rooted' \in BOOLEAN
<1>1. pinned' \in Int /\ boundary' \in [Pages -> Int]
  BY ReserveType DEF UnregisterDone
<1>2. idle' \in Seq(Storages)
  BY ToSetRemoveFirst DEF UnregisterDone, Unidle, Typed, TypedManager
<1>3. QED
  BY <1>1, <1>2 DEF UnregisterDone, Typed, TypedManager, DropRoot

\* And an iteration of an eviction loop.
LEMMA EvictType ==
  ASSUME Typed, IsInjective(idle), EvictVictim
  PROVE  /\ registered' \subseteq Storages /\ retired' \subseteq Storages /\ tried' \subseteq Storages
         /\ idle' \in Seq(Storages)
         /\ starts' \in [Storages -> Int] /\ owners' \in [Storages -> SUBSET Callers]
         /\ leases' = leases /\ open' = open
         /\ pinned' \in Int /\ boundary' \in [Pages -> Int]
         /\ rooted' \in BOOLEAN /\ failures' \in 0 .. MaxFailures
<1>1. PICK s \in Storages :
        /\ tried' = tried \cup {s}
        /\ UnregisterDone(s) \/ (UnregisterFailed /\ UNCHANGED <<retired, owners>>)
        /\ UNCHANGED <<leases, open>>
  BY DEF EvictVictim
<1>2. CASE UnregisterDone(s)
  BY <1>1, <1>2, UnregisterType DEF Typed, TypedManager, UnregisterDone
<1>3. CASE UnregisterFailed /\ UNCHANGED <<retired, owners>>
  BY <1>1, <1>3, CallerAssumption DEF Typed, TypedManager, UnregisterFailed, budgetVars
<1>4. QED
  BY <1>1, <1>2, <1>3

\* And taking back what is pending.
LEMMA EvictPendingType ==
  ASSUME Typed, NEW p \in Callers, pend[p] # <<>>, EvictPending(p)
  PROVE  /\ pinned' \in Int /\ boundary' \in [Pages -> Int]
         /\ starts' \in [Storages -> Int]
         /\ pend' \in [Callers -> Seq(Storages)]
         /\ UNCHANGED <<registered, leases, retired, owners, idle>>
<1>1. Head(pend[p]) \in Storages /\ Tail(pend[p]) \in Seq(Storages)
  BY HeadTailProperties DEF Typed, TypedCallers
<1>2. pinned' \in Int /\ boundary' \in [Pages -> Int]
  BY <1>1, ReserveType DEF EvictPending
<1>3. starts' \in [Storages -> Int]
  BY <1>1 DEF EvictPending, Typed, TypedManager
<1>4. pend' \in [Callers -> Seq(Storages)]
  BY <1>1 DEF EvictPending, Typed, TypedCallers
<1>5. QED
  BY <1>2, <1>3, <1>4 DEF EvictPending

\* Every step keeps the types.
LEMMA TypedStep ==
  ASSUME IInv, [Next]_vars
  PROVE  Typed'
<1> USE DEF vars, managerVars, callerVars, budgetVars, tableVars, lifeVars, loopVars,
            askVars, loadVars, leaseVars, Goto, Enter, Leave, Inside
<1>1. Typed /\ TypedManager /\ TypedCallers /\ IsInjective(idle)
  BY DEF IInv, Core, Tables, IdleIsUnleased, Typed
<1>2. ASSUME NEW p \in Callers, Progress(p)
      PROVE  Typed'
  <2>1. CASE Admit(p)
    <3>1. TypedManager'
      BY <1>1, <2>1 DEF TypedManager, MayEnter, Admit
    <3>2. TypedCallers'
      BY <1>1, <2>1 DEF TypedCallers, Stages, MayEnter, Admit
    <3>3. QED
      BY <3>1, <3>2 DEF Typed
  <2>2. CASE HoldNext(p)
    <3> DEFINE s == req[p][at[p]]
    <3>1. s \in Storages
      BY <1>1, <2>2 DEF HoldNext, TypedCallers
    <3> HIDE DEF s
    <3>2. /\ idle' \in Seq(Storages) /\ leases' \in [Storages -> Int]
          /\ owners' \in [Storages -> SUBSET Callers] /\ held' \in [Callers -> Seq(Storages)]
      <4>1. CASE s \in registered
        <5>1. Hold(p, s) /\ Unidle(s)
          BY <2>2, <4>1 DEF HoldNext, s
        <5>2. Append(held[p], s) \in Seq(Storages)
          BY <1>1, <3>1, ToSetAppend DEF TypedCallers
        <5>3. idle' \in Seq(Storages)
          BY <1>1, <5>1, ToSetRemoveFirst DEF Unidle, TypedManager
        <5>4. leases' \in [Storages -> Int] /\ owners' \in [Storages -> SUBSET Callers]
          BY <1>1, <3>1, <5>1 DEF Hold, TypedManager
        <5>5. held' \in [Callers -> Seq(Storages)]
          BY <1>1, <5>1, <5>2 DEF Hold, TypedCallers
        <5>6. QED
          BY <5>3, <5>4, <5>5
      <4>2. CASE s \notin registered
        BY <1>1, <2>2, <4>2 DEF HoldNext, TypedManager, TypedCallers, s
      <4>3. QED
        BY <4>1, <4>2
    <3>3. TypedManager'
      BY <1>1, <2>2, <3>2 DEF HoldNext, TypedManager
    <3>4. at' \in [Callers -> Nat \ {0}]
      BY <1>1, <2>2 DEF HoldNext, TypedCallers
    <3>5. TypedCallers'
      BY <1>1, <2>2, <3>2, <3>4 DEF HoldNext, TypedCallers
    <3>6. QED
      BY <3>3, <3>5 DEF Typed
  <2>3. CASE HoldDone(p)
    <3>1. TypedManager'
      BY <1>1, <2>3 DEF TypedManager, HoldDone
    <3>2. at' \in [Callers -> Nat \ {0}]
      BY <1>1, <2>3 DEF TypedCallers, HoldDone
    <3>3. pc' \in [Callers -> Stages]
      BY <1>1, <2>3 DEF TypedCallers, HoldDone, Stages
    <3>4. QED
      BY <1>1, <2>3, <3>1, <3>2, <3>3 DEF Typed, TypedCallers, HoldDone
  <2>4. CASE \E s \in Storages : ReserveEvict(p, s)
    <3>1. TypedManager'
      BY <1>1, <2>4, EvictType DEF TypedManager, ReserveEvict
    <3>2. TypedCallers'
      BY <1>1, <2>4 DEF TypedCallers, Stages, ReserveEvict
    <3>3. QED
      BY <3>1, <3>2 DEF Typed
  <2>5. CASE \E s \in Storages : ReserveTake(p, s)
    <3>1. TypedManager'
      BY <1>1, <2>5, ReserveType DEF TypedManager, ReserveTake, Reserving
    <3>2. TypedCallers'
      BY <1>1, <2>5 DEF TypedCallers, Stages, ReserveTake, Reserving
    <3>3. QED
      BY <3>1, <3>2 DEF Typed
  <2>6. CASE \E s \in Storages : ReserveSkip(p, s)
    <3>1. TypedManager'
      BY <1>1, <2>6 DEF TypedManager, ReserveSkip, Reserving
    <3>2. TypedCallers'
      BY <1>1, <2>6 DEF TypedCallers, Stages, ReserveSkip, Reserving
    <3>3. QED
      BY <3>1, <3>2 DEF Typed
  <2>7. CASE ReserveDone(p)
    <3>1. TypedManager'
      BY <1>1, <2>7 DEF TypedManager, ReserveDone
    <3>2. TypedCallers'
      BY <1>1, <2>7 DEF TypedCallers, Stages, ReserveDone
    <3>3. QED
      BY <3>1, <3>2 DEF Typed
  <2>8. CASE FillFirst(p)
    <3>1. TypedManager'
      BY <1>1, <2>8 DEF TypedManager, FillFirst, Filled, FirstCopy, Copies, ToSet
    <3>2. TypedCallers'
      BY <1>1, <2>8 DEF TypedCallers, Stages, FillFirst, Filled, FirstCopy, Copies, ToSet
    <3>3. QED
      BY <3>1, <3>2 DEF Typed
  <2>9. CASE FillRest(p)
    <3>1. TypedManager'
      BY <1>1, <2>9 DEF TypedManager, FillRest, Filled, Copies, ToSet
    <3>2. TypedCallers'
      BY <1>1, <2>9 DEF TypedCallers, Stages, FillRest, Filled, Copies, ToSet
    <3>3. QED
      BY <3>1, <3>2 DEF Typed
  <2>10. CASE FillRaises(p)
    <3>1. TypedManager'
      BY <1>1, <2>10 DEF TypedManager, FillRaises
    <3>2. TypedCallers'
      BY <1>1, <2>10 DEF TypedCallers, Stages, FillRaises
    <3>3. QED
      BY <3>1, <3>2 DEF Typed
  <2>11. CASE TakeLock(p)
    <3>1. TypedManager'
      BY <1>1, <2>11 DEF TypedManager, TakeLock
    <3>2. TypedCallers'
      BY <1>1, <2>11 DEF TypedCallers, Stages, TakeLock
    <3>3. QED
      BY <3>1, <3>2 DEF Typed
  <2>12. CASE SettleStop(p)
    <3>1. TypedManager'
      BY <1>1, <2>12 DEF TypedManager, SettleStop, Settling
    <3>2. TypedCallers'
      BY <1>1, <2>12 DEF TypedCallers, Stages, SettleStop, Settling
    <3>3. QED
      BY <3>1, <3>2 DEF Typed
  <2>13. CASE SettleRefused(p)
    <3>1. pend[p] # <<>> /\ EvictPending(p)
      BY <2>13 DEF SettleRefused, Offering, HeadReady
    <3>2. TypedManager'
      BY <1>1, <2>13, <3>1, EvictPendingType DEF TypedManager, SettleRefused
    <3>3. pc' \in [Callers -> Stages]
      BY <1>1, <2>13 DEF TypedCallers, Stages, SettleRefused
    <3>4. TypedCallers'
      BY <1>1, <2>13, <3>1, <3>3, EvictPendingType DEF TypedCallers, SettleRefused
    <3>5. QED
      BY <3>2, <3>4 DEF Typed
  <2>14. CASE SettleRegister(p)
    <3>1. Head(pend[p]) \in Storages
      BY <1>1, <2>14, HeadTailProperties DEF TypedCallers, SettleRegister, Offering, HeadReady
    <3>2. TypedManager'
      BY <1>1, <2>14, <3>1 DEF TypedManager, SettleRegister, Hold
    <3>3. TypedCallers'
      BY <1>1, <2>14 DEF TypedCallers, SettleRegister, Offering, Settling, HeadReady, Hold
    <3>4. QED
      BY <3>2, <3>3 DEF Typed
  <2>15. CASE SettleNoCapacity(p)
    <3>1. TypedManager'
      BY <1>1, <2>15 DEF TypedManager, SettleNoCapacity
    <3>2. TypedCallers'
      BY <1>1, <2>15 DEF TypedCallers, Stages, SettleNoCapacity
    <3>3. QED
      BY <3>1, <3>2 DEF Typed
  <2>16. CASE SettleRaises(p)
    <3>1. TypedManager'
      BY <1>1, <2>16 DEF TypedManager, SettleRaises, Offering, Settling
    <3>2. TypedCallers'
      BY <1>1, <2>16 DEF TypedCallers, Stages, SettleRaises, Offering, Settling
    <3>3. QED
      BY <3>1, <3>2 DEF Typed
  <2>17. CASE RetryEvict(p)
    <3>1. TypedManager'
      BY <1>1, <2>17, EvictType DEF TypedManager, RetryEvict
    <3>2. TypedCallers'
      BY <1>1, <2>17 DEF TypedCallers, Stages, RetryEvict
    <3>3. QED
      BY <3>1, <3>2 DEF Typed
  <2>18. CASE RetryAgain(p)
    <3>1. TypedManager'
      BY <1>1, <2>18 DEF TypedManager, RetryAgain
    <3>2. TypedCallers'
      BY <1>1, <2>18 DEF TypedCallers, Stages, RetryAgain
    <3>3. QED
      BY <3>1, <3>2 DEF Typed
  <2>19. CASE RetryExhausted(p)
    <3>1. pend[p] # <<>> /\ EvictPending(p)
      BY <2>19, CallerAssumption DEF IInv, Core, Sections, RetryExhausted, Retrying, Settling
    <3>2. TypedManager'
      BY <1>1, <2>19, <3>1, EvictPendingType DEF TypedManager, RetryExhausted
    <3>3. pc' \in [Callers -> Stages]
      BY <1>1, <2>19 DEF TypedCallers, Stages, RetryExhausted
    <3>4. TypedCallers'
      BY <1>1, <2>19, <3>1, <3>3, EvictPendingType DEF TypedCallers, RetryExhausted
    <3>5. QED
      BY <3>2, <3>4 DEF Typed
  <2>20. CASE DiscardNext(p)
    <3>1. pend[p] # <<>> /\ EvictPending(p)
      BY <2>20 DEF DiscardNext
    <3>2. TypedManager'
      BY <1>1, <2>20, <3>1, EvictPendingType DEF TypedManager, DiscardNext
    <3>3. pc' \in [Callers -> Stages]
      BY <1>1, <2>20 DEF TypedCallers, Stages, DiscardNext
    <3>4. TypedCallers'
      BY <1>1, <2>20, <3>1, <3>3, EvictPendingType DEF TypedCallers, DiscardNext
    <3>5. QED
      BY <3>2, <3>4 DEF Typed
  <2>21. CASE OpenLease(p)
    <3>1. TypedManager'
      BY <1>1, <2>21 DEF TypedManager, OpenLease, Asked, ToSet
    <3>2. TypedCallers'
      BY <1>1, <2>21 DEF TypedCallers, Stages, OpenLease, Asked, ToSet
    <3>3. QED
      BY <3>1, <3>2 DEF Typed
  <2>22. CASE FailRetire(p)
    <3>1. retired' \subseteq Storages
      BY <1>1, <2>22 DEF TypedManager, TypedCallers, FailRetire
    <3>2. TypedManager'
      BY <1>1, <2>22, <3>1 DEF TypedManager, FailRetire
    <3>3. TypedCallers'
      BY <1>1, <2>22 DEF TypedCallers, Stages, FailRetire
    <3>4. QED
      BY <3>2, <3>3 DEF Typed
  <2>23. CASE ReleaseNext(p)
    <3> DEFINE s == Head(held[p])
    <3>1. s \in Storages
      BY <1>1, <2>23, HeadTailProperties DEF TypedCallers, ReleaseNext
    <3>2. /\ leases' = [leases EXCEPT ![s] = @ - 1]
          /\ UNCHANGED <<lock, budget, pageable, open, loopVars, calls>>
      BY <2>23 DEF ReleaseNext
    <3>3. \/ UNCHANGED <<registered, retired, owners, idle, starts, budgetVars, failures, rooted>>
          \/ UnregisterDone(s)
          \/ /\ idle' = Append(idle, s)
             /\ failures' = failures \/ (failures < MaxFailures /\ failures' = failures + 1)
             /\ UNCHANGED <<registered, retired, owners, starts, budgetVars, rooted>>
      BY <2>23 DEF ReleaseNext
    <3> HIDE DEF s
    <3>4. leases' \in [Storages -> Int]
      BY <1>1, <3>1, <3>2 DEF TypedManager
    <3>5. ASSUME UnregisterDone(s)
          PROVE  TypedManager'
      <4>1. open' \in SUBSET Callers /\ failures' = failures
        BY <1>1, <3>2, <3>5 DEF TypedManager, UnregisterDone
      <4>2. QED
        BY <1>1, <3>1, <3>2, <3>4, <3>5, <4>1, UnregisterType DEF TypedManager
    <3>6. ASSUME idle' = Append(idle, s),
                 failures' = failures \/ (failures < MaxFailures /\ failures' = failures + 1),
                 UNCHANGED <<registered, retired, owners, starts, budgetVars, rooted>>
          PROVE  TypedManager'
      <4>1. idle' \in Seq(Storages)
        BY <1>1, <3>1, <3>6, ToSetAppend DEF TypedManager
      <4>2. failures' \in 0 .. MaxFailures
        BY <1>1, <3>6, CallerAssumption DEF TypedManager
      <4>3. QED
        BY <1>1, <3>2, <3>4, <3>6, <4>1, <4>2 DEF TypedManager
    <3>7. ASSUME UNCHANGED <<registered, retired, owners, idle, starts, budgetVars, failures, rooted>>
          PROVE  TypedManager'
      BY <1>1, <3>2, <3>4, <3>7 DEF TypedManager
    <3>8. TypedManager'
      BY <3>3, <3>5, <3>6, <3>7
    <3>9. TypedCallers'
      BY <1>1, <2>23 DEF TypedCallers, ReleaseNext
    <3>10. QED
      BY <3>8, <3>9 DEF Typed
  <2>24. CASE ReleaseDone(p)
    <3>1. TypedManager'
      BY <1>1, <2>24 DEF TypedManager, ReleaseDone
    <3>2. TypedCallers'
      BY <1>1, <2>24 DEF TypedCallers, Stages, ReleaseDone
    <3>3. QED
      BY <3>1, <3>2 DEF Typed
  <2>25. CASE TrimEvict(p)
    <3>1. TypedManager'
      BY <1>1, <2>25, EvictType DEF TypedManager, TrimEvict
    <3>2. TypedCallers'
      BY <1>1, <2>25 DEF TypedCallers, Stages, TrimEvict
    <3>3. QED
      BY <3>1, <3>2 DEF Typed
  <2>26. CASE TrimDone(p)
    <3>1. rooted' \in BOOLEAN
      <4>1. CASE p \in open
        BY <2>26, <4>1 DEF TrimDone, DropRoot
      <4>2. CASE p \notin open
        BY <1>1, <2>26, <4>2 DEF TrimDone, TypedManager
      <4>3. QED
        BY <4>1, <4>2
    <3>2. /\ pageable' \in [Storages -> Int] /\ starts' \in [Storages -> Int]
          /\ tried' \subseteq Storages /\ open' \subseteq Callers /\ lock' = Nobody
          /\ UNCHANGED <<budget, registered, leases, retired, owners, idle, boundary, pinned,
                         failures, mark, calls>>
      BY <1>1, <2>26 DEF TypedManager, TrimDone
    <3>3. TypedManager'
      BY <1>1, <3>1, <3>2 DEF TypedManager
    <3>4. TypedCallers'
      BY <1>1, <2>26 DEF TypedCallers, Stages, TrimDone
    <3>5. QED
      BY <3>3, <3>4 DEF Typed
  <2>27. CASE ClearNext(p)
    <3>1. TypedManager'
      BY <1>1, <2>27, EvictType DEF TypedManager, ClearNext
    <3>2. TypedCallers'
      BY <1>1, <2>27 DEF TypedCallers, Stages, ClearNext
    <3>3. QED
      BY <3>1, <3>2 DEF Typed
  <2>28. CASE ClearDone(p)
    <3>1. TypedManager'
      BY <1>1, <2>28 DEF TypedManager, ClearDone
    <3>2. TypedCallers'
      BY <1>1, <2>28 DEF TypedCallers, Stages, ClearDone
    <3>3. QED
      BY <3>1, <3>2 DEF Typed
  <2>29. QED
    BY <1>2, <2>1, <2>2, <2>3, <2>4, <2>5, <2>6, <2>7, <2>8, <2>9, <2>10, <2>11, <2>12, <2>13, <2>14, <2>15, <2>16, <2>17, <2>18, <2>19, <2>20, <2>21, <2>22, <2>23, <2>24, <2>25, <2>26, <2>27, <2>28 DEF Progress
<1>3. ASSUME NEW p \in Callers, Choice(p)
      PROVE  Typed'
  <2>1. CASE CallAcquire(p)
    <3>1. TypedManager'
      BY <1>1, <2>1, CallerAssumption DEF TypedManager, CallAcquire
    <3>2. req' \in [Callers -> Seq(Storages)] /\ pin' \in [Callers -> BOOLEAN]
      BY <1>1, <2>1, CallerAssumption DEF TypedCallers, CallAcquire
    <3>3. TypedCallers'
      BY <1>1, <2>1, <3>2 DEF TypedCallers, Stages, CallAcquire
    <3>4. QED
      BY <3>1, <3>3 DEF Typed
  <2>2. CASE CloseLease(p)
    <3>1. TypedManager'
      BY <1>1, <2>2 DEF TypedManager, CloseLease
    <3>2. TypedCallers'
      BY <1>1, <2>2 DEF TypedCallers, Stages, CloseLease
    <3>3. QED
      BY <3>1, <3>2 DEF Typed
  <2>3. CASE SetBudget(p)
    <3>1. TypedManager'
      BY <1>1, <2>3, CallerAssumption DEF TypedManager, SetBudget
    <3>2. TypedCallers'
      BY <1>1, <2>3 DEF TypedCallers, Stages, SetBudget
    <3>3. QED
      BY <3>1, <3>2 DEF Typed
  <2>4. CASE Clear(p)
    <3>1. TypedManager'
      BY <1>1, <2>4, CallerAssumption DEF TypedManager, Clear
    <3>2. TypedCallers'
      BY <1>1, <2>4 DEF TypedCallers, Stages, Clear
    <3>3. QED
      BY <3>1, <3>2 DEF Typed
  <2>5. CASE \E s \in Storages : StartTransfer(p, s)
    <3>1. TypedManager'
      BY <1>1, <2>5 DEF TypedManager, StartTransfer
    <3>2. TypedCallers'
      BY <1>1, <2>5 DEF TypedCallers, Stages, StartTransfer
    <3>3. QED
      BY <3>1, <3>2 DEF Typed
  <2>6. CASE EndTransfers(p)
    <3>1. TypedManager'
      BY <1>1, <2>6 DEF TypedManager, EndTransfers
    <3>2. TypedCallers'
      BY <1>1, <2>6 DEF TypedCallers, Stages, EndTransfers
    <3>3. QED
      BY <3>1, <3>2 DEF Typed
  <2>7. QED
    BY <1>3, <2>1, <2>2, <2>3, <2>4, <2>5, <2>6 DEF Choice
<1>4. ASSUME NEW p \in Callers, NEW s \in Storages, OwnerGone(p, s)
      PROVE  Typed'
  <2>1. TypedCallers'
    BY <1>1, <1>4 DEF TypedCallers, OwnerGone
  <2>2. CASE UnregisterDone(s)
    <3>1. TypedManager'
      BY <1>1, <1>4, <2>2, UnregisterType DEF TypedManager, OwnerGone, UnregisterDone
    <3>2. QED
      BY <2>1, <3>1 DEF Typed
  <2>3. CASE ~UnregisterDone(s)
    <3>1. failures' \in 0 .. MaxFailures
      BY <1>1, <1>4, <2>3, CallerAssumption DEF TypedManager, OwnerGone, UnregisterFailed
    <3>2. retired' \subseteq Storages /\ owners' \in [Storages -> SUBSET Callers]
      BY <1>1, <1>4, <2>3 DEF TypedManager, OwnerGone
    <3>3. TypedManager'
      BY <1>1, <1>4, <2>3, <3>1, <3>2 DEF TypedManager, OwnerGone, UnregisterFailed
    <3>4. QED
      BY <2>1, <3>3 DEF Typed
  <2>4. QED
    BY <2>2, <2>3
<1>5. CASE Rest \/ UNCHANGED vars
  BY <1>1, <1>5 DEF Typed, TypedManager, TypedCallers, Rest
<1>6. QED
  BY <1>2, <1>3, <1>4, <1>5 DEF Next

-----------------------------------------------------------------------------
(* Counting the holders of a registration *)

\* A registration with no lease is held by nobody, and one with a single lease
\* by one caller alone.
LEMMA LeaseCounts ==
  ASSUME LeasesCounted, NEW s \in Storages
  PROVE  /\ leases[s] \in Nat
         /\ leases[s] = 0 <=> \A p \in Callers : s \notin Held(p)
         /\ \A p, q \in Callers : leases[s] = 1 /\ s \in Held(p) /\ s \in Held(q) => p = q
<1> DEFINE T == {p \in Callers : s \in Held(p)}
<1>1. IsFiniteSet(T) /\ leases[s] = Cardinality(T)
  BY CallerAssumption, FS_Subset DEF LeasesCounted
<1>2. Cardinality(T) \in Nat /\ (Cardinality(T) = 0 <=> T = {})
  BY <1>1, FS_CardinalityType, FS_EmptySet
<1>3. Cardinality(T) = 1 => \E x : T = {x}
  BY <1>1, FS_Singleton
<1>4. leases[s] = 0 <=> \A p \in Callers : s \notin Held(p)
  BY <1>1, <1>2
<1>5. ASSUME NEW p \in Callers, NEW q \in Callers, leases[s] = 1, s \in Held(p), s \in Held(q)
      PROVE  p = q
  <2>1. PICK x : T = {x}
    BY <1>1, <1>3, <1>5
  <2>2. p \in T /\ q \in T
    BY <1>5
  <2>3. QED
    BY <2>1, <2>2
<1>6. QED
  BY <1>1, <1>2, <1>4, <1>5

\* One more caller comes to hold s, and its count goes up.
LEMMA HoldCounts ==
  ASSUME Typed, LeasesCounted, NEW p \in Callers, NEW s \in Storages,
         s \notin Held(p), IsInjective(held[p]), Hold(p, s)
  PROVE  /\ LeasesCounted'
         /\ \A q \in Callers : held'[q] = IF q = p THEN Append(held[p], s) ELSE held[q]
         /\ \A q \in Callers : Held(q)' = IF q = p THEN Held(p) \cup {s} ELSE Held(q)
         /\ IsInjective(held'[p])
         /\ \A t \in Storages : leases'[t] = IF t = s THEN leases[s] + 1 ELSE leases[t]
<1>1. /\ held \in [Callers -> Seq(Storages)] /\ leases \in [Storages -> Int]
      /\ \A t \in Storages : leases[t] = Cardinality({q \in Callers : t \in Held(q)})
  BY DEF Typed, TypedManager, TypedCallers, LeasesCounted
<1>2. \A q \in Callers : held'[q] = IF q = p THEN Append(held[p], s) ELSE held[q]
  BY <1>1 DEF Hold
<1>3. \A t \in Storages : leases'[t] = IF t = s THEN leases[s] + 1 ELSE leases[t]
  BY <1>1 DEF Hold
<1>4. ToSet(Append(held[p], s)) = Held(p) \cup {s} /\ IsInjective(Append(held[p], s))
  BY <1>1, ToSetAppend DEF Held
<1>5. \A q \in Callers : Held(q)' = IF q = p THEN Held(p) \cup {s} ELSE Held(q)
  BY <1>2, <1>4 DEF Held
<1>6. ASSUME NEW t \in Storages
      PROVE  leases'[t] = Cardinality({q \in Callers : t \in Held(q)'})
  <2> DEFINE T == {q \in Callers : t \in Held(q)}
  <2>1. IsFiniteSet(T)
    BY CallerAssumption, FS_Subset
  <2>2. CASE t = s
    <3>1. {q \in Callers : t \in Held(q)'} = T \cup {p} /\ p \notin T
      BY <1>5, <2>2
    <3>2. Cardinality(T \cup {p}) = Cardinality(T) + 1
      BY <2>1, <3>1, FS_AddElement
    <3>3. leases'[t] = Cardinality(T) + 1
      BY <1>1, <1>3, <2>2
    <3>4. QED
      BY <3>1, <3>2, <3>3
  <2>3. CASE t # s
    <3>1. {q \in Callers : t \in Held(q)'} = T
      BY <1>5, <2>3
    <3>2. QED
      BY <1>1, <1>3, <2>3, <3>1
  <2>4. QED
    BY <2>2, <2>3
<1>7. LeasesCounted'
  BY <1>6 DEF LeasesCounted
<1>8. QED
  BY <1>2, <1>3, <1>4, <1>5, <1>7

\* The caller lets go of its first registration, and that one's count goes down.
LEMMA ReleaseCounts ==
  ASSUME Typed, LeasesCounted, NEW p \in Callers, held[p] # <<>>, IsInjective(held[p]),
         held' = [held EXCEPT ![p] = Tail(@)],
         leases' = [leases EXCEPT ![Head(held[p])] = @ - 1]
  PROVE  /\ LeasesCounted'
         /\ Head(held[p]) \in Storages /\ Head(held[p]) \in Held(p)
         /\ \A q \in Callers : held'[q] = IF q = p THEN Tail(held[p]) ELSE held[q]
         /\ \A q \in Callers : Held(q)' = IF q = p THEN Held(p) \ {Head(held[p])} ELSE Held(q)
         /\ IsInjective(held'[p])
         /\ \A t \in Storages : leases'[t] = IF t = Head(held[p]) THEN leases[t] - 1 ELSE leases[t]
<1> DEFINE s == Head(held[p])
<1>1. /\ held \in [Callers -> Seq(Storages)] /\ leases \in [Storages -> Int]
      /\ \A t \in Storages : leases[t] = Cardinality({q \in Callers : t \in Held(q)})
  BY DEF Typed, TypedManager, TypedCallers, LeasesCounted
<1>2. /\ s \in Storages /\ s \in Held(p)
      /\ ToSet(Tail(held[p])) = Held(p) \ {s} /\ IsInjective(Tail(held[p]))
  BY <1>1, ToSetTail DEF Held
<1>3. \A q \in Callers : held'[q] = IF q = p THEN Tail(held[p]) ELSE held[q]
  BY <1>1
<1>4. \A t \in Storages : leases'[t] = IF t = s THEN leases[t] - 1 ELSE leases[t]
  BY <1>1
<1> HIDE DEF s
<1>5. ASSUME NEW q \in Callers
      PROVE  Held(q)' = IF q = p THEN Held(p) \ {s} ELSE Held(q)
  <2>1. Held(q)' = ToSet(held'[q])
    BY DEF Held
  <2>2. CASE q = p
    <3>1. held'[q] = Tail(held[p])
      BY <1>3, <2>2
    <3>2. QED
      BY <1>2, <2>1, <2>2, <3>1
  <2>3. CASE q # p
    BY <1>3, <2>1, <2>3 DEF Held
  <2>4. QED
    BY <2>2, <2>3
<1>6. ASSUME NEW t \in Storages
      PROVE  leases'[t] = Cardinality({q \in Callers : t \in Held(q)'})
  <2> DEFINE T == {q \in Callers : t \in Held(q)}
  <2>1. IsFiniteSet(T)
    BY CallerAssumption, FS_Subset
  <2>2. CASE t = s
    <3>1. {q \in Callers : t \in Held(q)'} = T \ {p} /\ p \in T
      BY <1>2, <1>5, <2>2
    <3>2. QED
      BY <1>1, <1>4, <2>1, <2>2, <3>1, FS_RemoveElement
  <2>3. CASE t # s
    <3>1. {q \in Callers : t \in Held(q)'} = T
      BY <1>5, <2>3
    <3>2. QED
      BY <1>1, <1>4, <2>3, <3>1
  <2>4. QED
    BY <2>2, <2>3
<1>7. LeasesCounted'
  BY <1>6 DEF LeasesCounted
<1>8. QED
  BY <1>2, <1>3, <1>4, <1>5, <1>7 DEF s

-----------------------------------------------------------------------------
(* The core of the invariant *)

\* What the tables say of holders and pending storage depends on nothing else.
LEMMA TablesFrame ==
  ASSUME Tables, UNCHANGED <<held, pend, registered, leases, idle>>
  PROVE  Tables'
BY DEF Tables, Exclusive, HeldStaysRegistered, LeasesCounted, IdleIsUnleased, Held, Idle

\* Core depends on no other variables than these.
LEMMA CoreFrame ==
  ASSUME Core, UNCHANGED <<lock, mark, pc, req, pin, at, held, pend, registered, leases, idle>>
  PROVE  Core'
<1>1. Tables'
  BY TablesFrame DEF Core
<1>2. Sections' /\ Alone'
  BY DEF Core, Sections, Alone
<1>3. Locals'
  BY DEF Core, Locals, Held, Asked, Before
<1>4. QED
  BY <1>1, <1>2, <1>3 DEF Core

\* Dropping a registration nobody leases.
LEMMA CoreShrink ==
  ASSUME Typed, Core, NEW s \in Storages, leases[s] = 0,
         registered' = registered \ {s}, Unidle(s),
         UNCHANGED <<lock, mark, pc, req, pin, at, held, pend, leases>>
  PROVE  Core'
<1>1. Sections' /\ Alone'
  BY DEF Core, Sections, Alone
<1>2. Locals'
  BY DEF Core, Locals, Held, Asked, Before
<1>3. Exclusive'
  BY DEF Core, Tables, Exclusive
<1>4. \A p \in Callers : s \notin Held(p)
  BY LeaseCounts DEF Core, Tables
<1>5. HeldStaysRegistered' /\ LeasesCounted'
  BY <1>4 DEF Core, Tables, HeldStaysRegistered, LeasesCounted, Held
<1>6. /\ ToSet(idle') = Idle \ {s} /\ IsInjective(idle')
      /\ Idle = {t \in registered : leases[t] = 0}
  BY ToSetRemoveFirst DEF Unidle, Typed, TypedManager, Core, Tables, IdleIsUnleased, Idle
<1>7. IdleIsUnleased'
  BY <1>6 DEF IdleIsUnleased, Idle
<1>8. QED
  BY <1>1, <1>2, <1>3, <1>5, <1>7 DEF Core, Tables

\* An iteration of an eviction loop, successful or not.
LEMMA CoreEvict ==
  ASSUME Typed, Core, EvictVictim, UNCHANGED <<lock, mark, callerVars>>
  PROVE  Core'
<1> USE DEF callerVars, askVars
<1>1. PICK s \in Storages :
        /\ IsVictim(s)
        /\ UnregisterDone(s) \/ UnregisterFailed
        /\ leases' = leases
  BY DEF EvictVictim
<1>2. s \in Idle
  BY <1>1 DEF IsVictim, Candidates, Idle, ToSet
<1>3. CASE UnregisterDone(s)
  BY <1>1, <1>2, <1>3, CoreShrink DEF UnregisterDone, Core, Tables, IdleIsUnleased
<1>4. CASE UnregisterFailed
  BY <1>1, <1>4, CoreFrame DEF UnregisterFailed
<1>5. QED
  BY <1>1, <1>3, <1>4

\* A pinning acquisition is admitted when nothing is pending; it has been through
\* nothing of its request.
LEMMA CoreAdmit ==
  ASSUME Typed, Core, NEW p \in Callers, Admit(p)
  PROVE  Core'
<1> USE DEF vars, managerVars, callerVars, budgetVars, tableVars, lifeVars, loopVars,
            askVars, loadVars, leaseVars, Goto, Enter, Leave, Inside
<1>1. TypedCallers /\ Sections /\ Locals /\ Alone /\ Tables
  BY DEF Typed, Core
<1>2. Tables'
  BY <1>1, TablesFrame DEF Admit
<1>3. Sections'
  BY <1>1, CallerAssumption DEF Sections, TypedCallers, Admit
<1>4. /\ pc' = [pc EXCEPT ![p] = "hold"] /\ at' = [at EXCEPT ![p] = 1]
      /\ UNCHANGED <<req, pin, held, pend, registered>>
      /\ pc[p] = "waiting" /\ lock = Nobody
      /\ pin[p] => Pending = {}
  BY DEF Admit, MayEnter
<1>5. \A q \in Callers : q # p => pc'[q] \notin {"hold", "reserve"}
  BY <1>1, <1>4, CallerAssumption DEF Sections, TypedCallers
<1>6. Held(p) = {} /\ Before(p)' = {}
  <2>1. ToSet(held[p]) = {}
    BY <1>1, <1>4, ToSetEmpty DEF Locals, TypedCallers
  <2>2. at'[p] = 1
    BY <1>1, <1>4 DEF TypedCallers
  <2>3. QED
    BY <1>1, <1>4, <2>1, <2>2 DEF Held, Before, TypedCallers
<1>7. Locals'
  BY <1>1, <1>4, <1>5, <1>6 DEF Locals, TypedCallers, Held
<1>8. Alone'
  <2>1. ASSUME pin[p], NEW q \in Callers
        PROVE  pend[q] = <<>>
    <3>1. pend[q] \in Seq(Storages)
      BY <1>1 DEF TypedCallers
    <3>2. ToSet(pend[q]) \subseteq Pending
      BY DEF Pending
    <3>3. ToSet(pend[q]) = {}
      BY <1>4, <2>1, <3>2
    <3>4. QED
      BY <3>1, <3>3, ToSetEmpty
  <2>2. QED
    BY <1>1, <1>4, <1>5, <2>1 DEF Alone
<1>9. QED
  BY <1>2, <1>3, <1>7, <1>8 DEF Core

\* Having been through all of its request, it holds all of it that is registered.
LEMMA CoreHoldDone ==
  ASSUME Typed, Core, NEW p \in Callers, HoldDone(p)
  PROVE  Core'
<1> USE DEF vars, managerVars, callerVars, budgetVars, tableVars, lifeVars, loopVars,
            askVars, loadVars, leaseVars, Goto, Enter, Leave, Inside
<1>1. TypedCallers /\ Sections /\ Locals /\ Alone /\ Tables
  BY DEF Typed, Core
<1>2. Tables'
  BY <1>1, TablesFrame DEF HoldDone
<1>3. Sections'
  BY <1>1, CallerAssumption DEF Sections, TypedCallers, HoldDone
<1>4. Asked(p) \subseteq Before(p)
  BY <1>1 DEF HoldDone, Asked, Before, ToSet, TypedCallers
<1>5. /\ pc' = [pc EXCEPT ![p] = IF pin[p] THEN "reserve" ELSE "final"]
      /\ at' = [at EXCEPT ![p] = 1]
      /\ UNCHANGED <<req, pin, held, pend, registered>>
      /\ pc[p] = "hold"
  BY DEF HoldDone
<1>6. \A q \in Callers : q # p => pc'[q] = pc[q] /\ at'[q] = at[q]
  BY <1>1, <1>5 DEF TypedCallers
<1>7. pc'[p] = "reserve" => pin[p]
  BY <1>1, <1>5 DEF TypedCallers
<1>8. /\ Asked(p) \cap registered \subseteq Held(p)
      /\ pend[p] = <<>> /\ ToSet(pend[p]) = {}
  BY <1>1, <1>4, <1>5, ToSetEmpty DEF Locals, TypedCallers
<1>9. pc'[p] \in {"reserve", "final"}
  BY <1>1, <1>5 DEF TypedCallers
<1>10. Locals'
  BY <1>1, <1>5, <1>6, <1>7, <1>8, <1>9 DEF Locals, Held, Asked, Before
<1>11. Alone'
  BY <1>1, <1>5, <1>6 DEF Alone, TypedCallers
<1>12. QED
  BY <1>2, <1>3, <1>10, <1>11 DEF Core

\* The caller goes to a stage outside the loops over its request, inside or outside
\* the lock, with its tables and everybody else's unchanged.
LEMMA CoreGoto ==
  ASSUME Typed, Core, NEW p \in Callers, NEW where \in Stages \ {"hold", "reserve"},
         Goto(p, where),
         UNCHANGED <<held, pend, registered, leases, idle>>,
         \/ lock' = p /\ lock \in {p, Nobody}
         \/ lock' \in {lock, Nobody} /\ lock \in {p, lock'} /\ where \notin {"release", "trim", "clear"},
         mark' = -1 \/ (mark' = mark /\ lock' = lock /\ lock # p)
             \/ (lock' = p /\ where \in {"early", "final"} /\ pend[p] # <<>>),
         where \in {"free", "waiting", "trim", "clear"} => held[p] = <<>>,
         where \in {"free", "waiting", "leased", "release", "trim", "clear"} => pend[p] = <<>>,
         IsInjective(req'[p]),
         \A q \in Callers : q # p => req'[q] = req[q] /\ pin'[q] = pin[q] /\ at'[q] = at[q]
  PROVE  Core'
<1>1. TypedCallers /\ Sections /\ Locals /\ Alone /\ Tables
  BY DEF Typed, Core
<1>2. pc'[p] = where /\ \A q \in Callers : q # p => pc'[q] = pc[q]
  BY <1>1 DEF Goto, TypedCallers
<1>3. Tables'
  BY <1>1, TablesFrame
<1>4. Sections'
  <2>1. \A q \in Callers : pc'[q] \in {"hold", "reserve", "release", "trim", "clear"} => lock' = q
    BY <1>1, <1>2, CallerAssumption DEF Sections
  <2>2. mark' # -1 =>
          \E q \in Callers : lock' = q /\ pc'[q] \in {"early", "final"} /\ pend'[q] # <<>>
    BY <1>1, <1>2 DEF Sections
  <2>3. QED
    BY <2>1, <2>2 DEF Sections
<1>5. ASSUME NEW q \in Callers, q # p
      PROVE  Held(q)' = Held(q) /\ Asked(q)' = Asked(q) /\ Before(q)' = Before(q)
  BY <1>5 DEF Held, Asked, Before
<1>6. Locals'
  BY <1>1, <1>2, <1>5 DEF Locals
<1>7. Alone'
  BY <1>1, <1>2 DEF Alone
<1>8. QED
  BY <1>3, <1>4, <1>6, <1>7 DEF Core

\* The steps that only move a call along, or enter and leave the lock.
LEMMA CoreMove ==
  ASSUME Typed, Core, NEW p \in Callers,
         \/ ReserveDone(p) \/ FillFirst(p) \/ FillRest(p) \/ FillRaises(p)
         \/ TakeLock(p) \/ SettleStop(p) \/ SettleNoCapacity(p) \/ SettleRaises(p)
         \/ RetryAgain(p) \/ OpenLease(p) \/ FailRetire(p)
         \/ ReleaseDone(p) \/ TrimDone(p) \/ ClearDone(p)
         \/ CallAcquire(p) \/ CloseLease(p) \/ SetBudget(p) \/ Clear(p)
  PROVE  Core'
<1> USE DEF managerVars, budgetVars, tableVars, lifeVars, loopVars, askVars, Enter, Leave, Inside
<1>1. TypedCallers /\ Sections /\ Locals /\ Alone /\ Tables
  BY DEF Typed, Core
<1>2. /\ lock = p => mark = -1 \/ (pc[p] \in {"early", "final"} /\ pend[p] # <<>>)
      /\ lock = Nobody => mark = -1
      /\ IsInjective(req[p])
      /\ pc[p] \in Stages
      /\ pc[p] \in {"free", "waiting", "trim", "clear"} => held[p] = <<>>
      /\ pc[p] \in {"free", "waiting", "leased", "release", "trim", "clear"} => pend[p] = <<>>
  BY <1>1, CallerAssumption DEF Sections, Locals, TypedCallers
<1>3. CASE ReserveDone(p)
  BY <1>1, <1>2, <1>3, CoreGoto, CallerAssumption DEF ReserveDone, Stages, TypedCallers
<1>4. CASE FillFirst(p)
  BY <1>1, <1>2, <1>4, CoreGoto, CallerAssumption DEF FillFirst, Stages, TypedCallers
<1>5. CASE FillRest(p)
  BY <1>1, <1>2, <1>5, CoreGoto, CallerAssumption DEF FillRest, Stages, TypedCallers
<1>6. CASE FillRaises(p)
  BY <1>1, <1>2, <1>6, CoreGoto, CallerAssumption DEF FillRaises, Stages, TypedCallers
<1>7. CASE TakeLock(p)
  BY <1>1, <1>2, <1>7, CoreGoto, CallerAssumption DEF TakeLock, Stages, TypedCallers
<1>8. CASE SettleStop(p)
  BY <1>1, <1>2, <1>8, CoreGoto, CallerAssumption DEF SettleStop, Settling, Stages, TypedCallers
<1>9. CASE SettleRaises(p)
  BY <1>1, <1>2, <1>9, CoreGoto, CallerAssumption DEF SettleRaises, Offering, Settling, Stages, TypedCallers
<1>10. CASE OpenLease(p)
  BY <1>1, <1>2, <1>10, CoreGoto, CallerAssumption DEF OpenLease, Stages, TypedCallers
<1>11. CASE FailRetire(p)
  BY <1>1, <1>2, <1>11, CoreGoto, CallerAssumption DEF FailRetire, Stages, TypedCallers
<1>12. CASE ReleaseDone(p)
  BY <1>1, <1>2, <1>12, CoreGoto, CallerAssumption DEF ReleaseDone, Stages, TypedCallers
<1>13. CASE TrimDone(p)
  <2>1. IsInjective(req'[p])
    <3>1. req'[p] = <<>>
      BY <1>1, <1>13 DEF TrimDone, TypedCallers
    <3>2. QED
      BY <3>1 DEF IsInjective
  <2>2. \A q \in Callers : q # p => req'[q] = req[q] /\ pin'[q] = pin[q] /\ at'[q] = at[q]
    BY <1>1, <1>13 DEF TrimDone, TypedCallers
  <2>3. Goto(p, "free") /\ "free" \in Stages \ {"hold", "reserve"}
    BY <1>13 DEF TrimDone, Stages
  <2>4. QED
    BY <1>2, <1>13, <2>1, <2>2, <2>3, CoreGoto DEF TrimDone
<1>14. CASE ClearDone(p)
  BY <1>1, <1>2, <1>14, CoreGoto, CallerAssumption DEF ClearDone, Stages, TypedCallers
<1>15. CASE CallAcquire(p)
  BY <1>1, <1>2, <1>15, CoreGoto, CallerAssumption DEF CallAcquire, Stages, TypedCallers
<1>16. CASE CloseLease(p)
  BY <1>1, <1>2, <1>16, CoreGoto, CallerAssumption DEF CloseLease, Stages, TypedCallers
<1>17. CASE SetBudget(p)
  BY <1>1, <1>2, <1>17, CoreGoto, CallerAssumption DEF SetBudget, Stages, TypedCallers
<1>18. CASE Clear(p)
  BY <1>1, <1>2, <1>18, CoreGoto, CallerAssumption DEF Clear, Stages, TypedCallers
<1>19. CASE SettleNoCapacity(p) \/ RetryAgain(p)
  <2>1. Sections'
    BY <1>1, <1>19
    DEF Sections, SettleNoCapacity, RetryAgain, Offering, Retrying, Settling, HeadReady, callerVars
  <2>2. Locals' /\ Alone' /\ Tables'
    BY <1>1, <1>19, TablesFrame
    DEF Locals, Alone, Held, Asked, Before, SettleNoCapacity, RetryAgain, callerVars
  <2>3. QED
    BY <2>1, <2>2 DEF Core
<1>20. QED
  BY <1>3, <1>4, <1>5, <1>6, <1>7, <1>8, <1>9, <1>10, <1>11, <1>12, <1>13, <1>14, <1>15, <1>16, <1>17, <1>18, <1>19

-----------------------------------------------------------------------------
(* Holding, reserving and registering *)

\* Holding the next storage of the request: it is not held yet, since what is
\* held lies before it, so it is counted once more.
LEMMA CoreHoldNext ==
  ASSUME Typed, Core, NEW p \in Callers, HoldNext(p)
  PROVE  Core'
<1> DEFINE s == req[p][at[p]]
<1>1. /\ TypedManager /\ TypedCallers
      /\ Sections /\ Locals /\ Alone /\ Tables
      /\ Exclusive /\ HeldStaysRegistered /\ LeasesCounted /\ IdleIsUnleased
  BY DEF Typed, Core, Tables
<1>2. /\ lock = p /\ pc[p] = "hold" /\ at[p] \in DOMAIN req[p] /\ s \in Storages
      /\ at' = [at EXCEPT ![p] = @ + 1]
      /\ UNCHANGED <<lock, mark, pc, req, pin, pend, registered>>
      /\ IF s \in registered THEN Hold(p, s) /\ Unidle(s)
                             ELSE UNCHANGED <<leases, owners, idle, held>>
  BY <1>1 DEF HoldNext, Inside, TypedCallers, askVars, loopVars
<1>3. /\ \A q \in Callers : q # p => at'[q] = at[q]
      /\ at'[p] = at[p] + 1 /\ at[p] \in Nat
      /\ IsInjective(req[p]) /\ IsInjective(held[p]) /\ req[p] \in Seq(Storages)
  BY <1>1, <1>2 DEF TypedCallers, Locals
<1>4. /\ Before(p)' = Before(p) \cup {s} /\ s \notin Before(p)
      /\ \A q \in Callers : q # p => Before(q)' = Before(q)
  <2>1. Before(p)' = Before(p) \cup {s}
    <3>1. \A i \in DOMAIN req[p] : i < at[p] + 1 <=> i < at[p] \/ i = at[p]
      BY <1>3
    <3>2. QED
      BY <1>2, <1>3, <3>1 DEF Before
  <2>2. s \notin Before(p)
    BY <1>2, <1>3 DEF Before, IsInjective
  <2>3. QED
    BY <1>2, <1>3, <2>1, <2>2 DEF Before
<1>5. Held(p) \subseteq Before(p) /\ Before(p) \cap registered \subseteq Held(p)
  BY <1>1, <1>2 DEF Locals
<1> HIDE DEF s
<1>6. Sections' /\ Alone'
  BY <1>1, <1>2 DEF Sections, Alone
<1>7. CASE s \in registered
  <2>1. Hold(p, s) /\ Unidle(s) /\ s \notin Held(p)
    BY <1>2, <1>4, <1>5, <1>7
  <2>2. /\ LeasesCounted'
        /\ \A q \in Callers : held'[q] = IF q = p THEN Append(held[p], s) ELSE held[q]
        /\ \A q \in Callers : Held(q)' = IF q = p THEN Held(p) \cup {s} ELSE Held(q)
        /\ IsInjective(held'[p])
        /\ \A t \in Storages : leases'[t] = IF t = s THEN leases[s] + 1 ELSE leases[t]
    BY <1>1, <1>2, <1>3, <2>1, HoldCounts
  <2>3. HeldStaysRegistered'
    BY <1>1, <1>2, <1>7, <2>2 DEF HeldStaysRegistered
  <2>4. IdleIsUnleased'
    <3>1. ToSet(idle') = Idle \ {s} /\ IsInjective(idle')
      BY <1>1, <2>1, ToSetRemoveFirst DEF Unidle, TypedManager, IdleIsUnleased, Idle
    <3>2. leases[s] \in Nat /\ registered \subseteq Storages
      BY <1>1, <1>2, LeaseCounts DEF TypedManager
    <3>3. {t \in registered : leases'[t] = 0} = {t \in registered : leases[t] = 0} \ {s}
      BY <1>2, <2>2, <3>2
    <3>4. QED
      BY <1>1, <1>2, <3>1, <3>3 DEF IdleIsUnleased, Idle
  <2>5. Exclusive'
    BY <1>1, <1>2 DEF Exclusive
  <2>6. Locals'
    BY <1>1, <1>2, <1>4, <1>5, <2>2 DEF Locals, Asked
  <2>7. QED
    BY <1>6, <2>2, <2>3, <2>4, <2>5, <2>6 DEF Core, Tables
<1>8. CASE s \notin registered
  <2>1. Tables' /\ \A q \in Callers : Held(q)' = Held(q)
    BY <1>1, <1>2, <1>8, TablesFrame DEF Held
  <2>2. Locals'
    BY <1>1, <1>2, <1>4, <1>5, <1>8, <2>1 DEF Locals, Asked
  <2>3. QED
    BY <1>6, <2>1, <2>2 DEF Core
<1>9. QED
  BY <1>7, <1>8

\* Reserving the next storage: it is neither registered, since what is registered
\* of the request is held, nor pending, since what is pending lies before it.
LEMMA CoreReserveTake ==
  ASSUME Typed, Core, NEW p \in Callers, NEW s \in Storages, ReserveTake(p, s)
  PROVE  Core'
<1>1. /\ TypedManager /\ TypedCallers
      /\ Sections /\ Locals /\ Alone /\ Tables
      /\ Exclusive /\ HeldStaysRegistered /\ LeasesCounted /\ IdleIsUnleased
  BY DEF Typed, Core, Tables
<1>2. /\ lock = p /\ pc[p] = "reserve" /\ at[p] \in DOMAIN req[p] /\ s = req[p][at[p]]
      /\ s \notin Held(p)
      /\ at' = [at EXCEPT ![p] = @ + 1] /\ pend' = [pend EXCEPT ![p] = Append(@, s)]
      /\ UNCHANGED <<lock, mark, pc, req, pin, held, registered, leases, idle>>
  BY <1>1 DEF ReserveTake, Reserving, Eligible, Inside, TypedCallers, askVars, loopVars
<1>3. /\ \A q \in Callers : q # p => at'[q] = at[q] /\ pend'[q] = pend[q]
      /\ at'[p] = at[p] + 1 /\ at[p] \in Nat /\ pend'[p] = Append(pend[p], s)
      /\ IsInjective(req[p]) /\ IsInjective(pend[p]) /\ req[p] \in Seq(Storages)
      /\ pend[p] \in Seq(Storages)
  BY <1>1, <1>2 DEF TypedCallers, Locals
<1>4. /\ Before(p)' = Before(p) \cup {s} /\ s \notin Before(p)
      /\ \A q \in Callers : q # p => Before(q)' = Before(q)
  <2>1. Before(p)' = Before(p) \cup {s}
    <3>1. \A i \in DOMAIN req[p] : i < at[p] + 1 <=> i < at[p] \/ i = at[p]
      BY <1>3
    <3>2. QED
      BY <1>2, <1>3, <3>1 DEF Before
  <2>2. s \notin Before(p)
    BY <1>2, <1>3 DEF Before, IsInjective
  <2>3. QED
    BY <1>2, <1>3, <2>1, <2>2 DEF Before
<1>5. /\ ToSet(pend[p]) \subseteq Before(p) /\ pin[p]
      /\ Asked(p) \cap registered \subseteq Held(p)
  BY <1>1, <1>2 DEF Locals
<1>6. s \notin ToSet(pend[p]) /\ s \notin registered
  <2>1. s \in Asked(p)
    BY <1>2 DEF Asked, ToSet
  <2>2. QED
    BY <1>2, <1>4, <1>5, <2>1
<1>7. /\ ToSet(pend'[p]) = ToSet(pend[p]) \cup {s}
      /\ IsInjective(pend'[p])
  BY <1>3, <1>6, ToSetAppend
<1>8. \A q \in Callers : q # p => pend'[q] = <<>>
  BY <1>1, <1>2, <1>3, <1>5 DEF Alone
<1>9. Sections'
  BY <1>1, <1>2 DEF Sections
<1>10. Alone'
  <2>1. SUFFICES ASSUME NEW q \in Callers, NEW r \in Callers,
                        pc[q] \in {"hold", "reserve"}, pin[q], q # r
                 PROVE  pend'[r] = <<>>
    BY <1>2 DEF Alone
  <2>2. q = p
    BY <1>1, <1>2, <2>1 DEF Sections
  <2>3. QED
    BY <1>8, <2>1, <2>2
<1>11. Locals'
  <2>1. ASSUME NEW q \in Callers, q # p
        PROVE  /\ pend'[q] = pend[q] /\ Before(q)' = Before(q)
               /\ Held(q)' = Held(q) /\ Asked(q)' = Asked(q)
    BY <1>2, <1>3, <1>4, <2>1 DEF Held, Asked
  <2>2. Held(p)' = Held(p) /\ Asked(p)' = Asked(p)
    BY <1>2 DEF Held, Asked
  <2>3. QED
    BY <1>1, <1>2, <1>4, <1>5, <1>7, <2>1, <2>2 DEF Locals
<1>12. Exclusive'
  BY <1>1, <1>2, <1>3, <1>6, <1>7, <1>8 DEF Exclusive
<1>13. HeldStaysRegistered' /\ LeasesCounted' /\ IdleIsUnleased'
  BY <1>1, <1>2 DEF HeldStaysRegistered, LeasesCounted, IdleIsUnleased, Held, Idle
<1>14. QED
  BY <1>9, <1>10, <1>11, <1>12, <1>13 DEF Core, Tables

\* Passing over a storage.
LEMMA CoreReserveSkip ==
  ASSUME Typed, Core, NEW p \in Callers, NEW s \in Storages, ReserveSkip(p, s)
  PROVE  Core'
<1>1. TypedCallers /\ Sections /\ Locals /\ Alone /\ Tables
  BY DEF Typed, Core
<1>2. /\ pc[p] = "reserve" /\ at' = [at EXCEPT ![p] = @ + 1]
      /\ UNCHANGED <<lock, mark, pc, req, pin, held, pend, registered, leases, idle>>
  BY DEF ReserveSkip, Reserving, Inside, managerVars, tableVars, askVars
<1>3. /\ \A q \in Callers : q # p => at'[q] = at[q]
      /\ at'[p] = at[p] + 1 /\ at[p] \in Nat /\ req[p] \in Seq(Storages)
  BY <1>1, <1>2 DEF TypedCallers
<1>4. /\ Before(p) \subseteq Before(p)'
      /\ \A q \in Callers : q # p => Before(q)' = Before(q)
  <2>1. \A i \in DOMAIN req[p] : i < at[p] => i < at[p] + 1
    BY <1>3
  <2>2. QED
    BY <1>2, <1>3, <2>1 DEF Before
<1>5. Sections' /\ Alone' /\ Tables'
  BY <1>1, <1>2, TablesFrame DEF Sections, Alone
<1>6. \A q \in Callers : Held(q)' = Held(q) /\ Asked(q)' = Asked(q)
  BY <1>2 DEF Held, Asked
<1>7. Locals'
  BY <1>1, <1>2, <1>4, <1>6 DEF Locals
<1>8. QED
  BY <1>5, <1>7 DEF Core

\* The first pending storage leaves `pend`, to be given up or registered.
LEMMA PendTail ==
  ASSUME Typed, Core, NEW p \in Callers, pend[p] # <<>>,
         pend' = [pend EXCEPT ![p] = Tail(@)]
  PROVE  /\ Head(pend[p]) \in Storages /\ Head(pend[p]) \in ToSet(pend[p])
         /\ Head(pend[p]) \notin registered
         /\ ToSet(pend'[p]) = ToSet(pend[p]) \ {Head(pend[p])}
         /\ IsInjective(pend'[p])
         /\ \A q \in Callers : q # p => pend'[q] = pend[q] /\ pend[q] = <<>>
<1>1. pend \in [Callers -> Seq(Storages)] /\ IsInjective(pend[p]) /\ Exclusive
  BY DEF Typed, TypedCallers, Core, Tables, Locals
<1>2. pend'[p] = Tail(pend[p])
  BY <1>1
<1>3. /\ Head(pend[p]) \in Storages /\ Head(pend[p]) \in ToSet(pend[p])
      /\ ToSet(pend'[p]) = ToSet(pend[p]) \ {Head(pend[p])}
      /\ IsInjective(pend'[p])
  BY <1>1, <1>2, ToSetTail
<1>4. Head(pend[p]) \notin registered
  BY <1>1, <1>3 DEF Exclusive
<1>5. \A q \in Callers : q # p => pend'[q] = pend[q] /\ pend[q] = <<>>
  BY <1>1 DEF Exclusive
<1>6. QED
  BY <1>3, <1>4, <1>5

\* Giving up pending storage leaves what is registered and held alone.
LEMMA CoreEvictPending ==
  ASSUME Typed, Core, NEW p \in Callers,
         SettleRefused(p) \/ RetryExhausted(p) \/ DiscardNext(p)
  PROVE  Core'
<1>1. /\ TypedCallers /\ Sections /\ Locals /\ Alone /\ Tables /\ Exclusive
      /\ HeldStaysRegistered /\ LeasesCounted /\ IdleIsUnleased
  BY DEF Typed, Core, Tables
<1>2. /\ EvictPending(p) /\ lock = p
      /\ pc[p] \in {"early", "final", "open", "failing"}
      /\ UNCHANGED <<req, pin, at, held, registered, leases, idle>>
      /\ pend' = [pend EXCEPT ![p] = Tail(@)]
  BY DEF SettleRefused, RetryExhausted, DiscardNext, Offering, Retrying, Settling,
         EvictPending, askVars
<1>3. pend[p] # <<>>
  <2>1. CASE SettleRefused(p) \/ DiscardNext(p)
    BY <2>1 DEF SettleRefused, DiscardNext, Offering, HeadReady
  <2>2. CASE RetryExhausted(p)
    BY <1>1, <2>2 DEF RetryExhausted, Retrying, Settling, Sections
  <2>3. QED
    BY <2>1, <2>2
<1>4. /\ ToSet(pend'[p]) = ToSet(pend[p]) \ {Head(pend[p])}
      /\ IsInjective(pend'[p])
      /\ \A q \in Callers : q # p => pend'[q] = pend[q] /\ pend[q] = <<>>
  BY <1>2, <1>3, PendTail
<1>5. /\ mark' = -1
      /\ \A q \in Callers : pc'[q] # pc[q] => q = p /\ pc'[q] = "open"
      /\ lock' = p \/ (lock' = Nobody /\ pc'[p] = "open")
  <2>1. CASE SettleRefused(p)
    BY <1>2, <2>1 DEF SettleRefused, Offering, loopVars
  <2>2. CASE RetryExhausted(p)
    BY <1>1, <1>2, <2>2 DEF RetryExhausted, Goto, Leave, TypedCallers
  <2>3. CASE DiscardNext(p)
    BY <1>1, <1>2, <2>3 DEF DiscardNext, loopVars, Sections
  <2>4. QED
    BY <2>1, <2>2, <2>3
<1>6. Sections'
  BY <1>1, <1>2, <1>5 DEF Sections
<1>7. \A q \in Callers : Held(q)' = Held(q) /\ Asked(q)' = Asked(q) /\ Before(q)' = Before(q)
  BY <1>2 DEF Held, Asked, Before
<1>8. Locals'
  BY <1>1, <1>2, <1>4, <1>5, <1>7 DEF Locals
<1>9. Alone'
  BY <1>1, <1>2, <1>3, <1>4, <1>5 DEF Alone
<1>10. Exclusive'
  BY <1>1, <1>2, <1>4 DEF Exclusive
<1>11. HeldStaysRegistered' /\ LeasesCounted' /\ IdleIsUnleased'
  BY <1>1, <1>2, <1>7 DEF HeldStaysRegistered, LeasesCounted, IdleIsUnleased, Idle
<1>12. QED
  BY <1>6, <1>8, <1>9, <1>10, <1>11 DEF Core, Tables

\* Registering the first pending storage: it was not registered, so nobody held it,
\* and its one lease is the acquisition's.
LEMMA CoreSettleRegister ==
  ASSUME Typed, Core, NEW p \in Callers, SettleRegister(p)
  PROVE  Core'
<1> DEFINE s == Head(pend[p])
<1>1. /\ TypedManager /\ TypedCallers
      /\ Sections /\ Locals /\ Alone /\ Tables
      /\ Exclusive /\ HeldStaysRegistered /\ LeasesCounted /\ IdleIsUnleased
  BY DEF Typed, Core, Tables
<1>2. /\ lock = p /\ pc[p] \in {"early", "final"} /\ mark = -1 /\ pend[p] # <<>>
      /\ registered' = registered \cup {s} /\ Hold(p, s)
      /\ pend' = [pend EXCEPT ![p] = Tail(@)]
      /\ UNCHANGED <<lock, mark, pc, req, pin, at, idle>>
  BY DEF SettleRegister, Offering, Settling, HeadReady, askVars, loopVars
<1>3. /\ s \in Storages /\ s \in ToSet(pend[p]) /\ s \notin registered
      /\ ToSet(pend'[p]) = ToSet(pend[p]) \ {s}
      /\ IsInjective(pend'[p])
      /\ \A q \in Callers : q # p => pend'[q] = pend[q] /\ pend[q] = <<>>
  BY <1>2, PendTail
<1> HIDE DEF s
<1>4. \A q \in Callers : s \notin Held(q)
  BY <1>1, <1>3 DEF HeldStaysRegistered
<1>5. /\ LeasesCounted'
      /\ \A q \in Callers : held'[q] = IF q = p THEN Append(held[p], s) ELSE held[q]
      /\ \A q \in Callers : Held(q)' = IF q = p THEN Held(p) \cup {s} ELSE Held(q)
      /\ IsInjective(held'[p])
      /\ \A t \in Storages : leases'[t] = IF t = s THEN leases[s] + 1 ELSE leases[t]
  <2>1. s \notin Held(p) /\ IsInjective(held[p])
    BY <1>1, <1>4 DEF Locals
  <2>2. QED
    BY <1>1, <1>2, <1>3, <2>1, HoldCounts
<1>6. Sections'
  BY <1>1, <1>2 DEF Sections
<1>7. \A q \in Callers : Asked(q)' = Asked(q) /\ Before(q)' = Before(q)
  BY <1>2 DEF Asked, Before
<1>8. \A q \in Callers : q # p => ~(pc[q] \in {"hold", "reserve"})
  BY <1>1, <1>2 DEF Sections
<1>9. Locals'
  BY <1>1, <1>2, <1>3, <1>5, <1>7, <1>8 DEF Locals
<1>10. Alone'
  BY <1>2, <1>8 DEF Alone
<1>11. Exclusive'
  <2>1. ToSet(<<>>) = {}
    BY DEF ToSet
  <2>2. QED
    BY <1>1, <1>2, <1>3, <2>1 DEF Exclusive
<1>12. HeldStaysRegistered'
  BY <1>1, <1>2, <1>5 DEF HeldStaysRegistered
<1>13. IdleIsUnleased'
  <2>1. leases'[s] # 0
    <3>1. leases[s] \in Nat
      BY <1>1, <1>3, LeaseCounts
    <3>2. QED
      BY <1>3, <1>5, <3>1
  <2>2. {t \in registered' : leases'[t] = 0} = {t \in registered : leases[t] = 0}
    BY <1>1, <1>2, <1>3, <1>5, <2>1 DEF TypedManager
  <2>3. QED
    BY <1>1, <1>2, <2>2 DEF IdleIsUnleased, Idle
<1>14. QED
  BY <1>5, <1>6, <1>9, <1>10, <1>11, <1>12, <1>13 DEF Core, Tables

-----------------------------------------------------------------------------
(* Releasing *)

\* Letting go of one registration: it stays registered while another holds it,
\* and becomes idle, or goes, when its last lease does.
LEMMA CoreReleaseNext ==
  ASSUME Typed, Core, NEW p \in Callers, ReleaseNext(p)
  PROVE  Core'
<1> DEFINE s == Head(held[p])
<1>1. /\ TypedManager /\ TypedCallers
      /\ Sections /\ Locals /\ Alone /\ Tables
      /\ Exclusive /\ HeldStaysRegistered /\ LeasesCounted /\ IdleIsUnleased
  BY DEF Typed, Core, Tables
<1>2. /\ lock = p /\ pc[p] = "release" /\ held[p] # <<>>
      /\ held' = [held EXCEPT ![p] = Tail(@)]
      /\ leases' = [leases EXCEPT ![s] = @ - 1]
      /\ UNCHANGED <<lock, mark, pc, req, pin, at, pend>>
      /\ \/ leases[s] # 1 /\ UNCHANGED <<registered, idle>>
         \/ leases[s] = 1 /\ registered' = registered \ {s} /\ idle' = RemoveFirst(idle, s)
         \/ leases[s] = 1 /\ registered' = registered /\ idle' = Append(idle, s)
  BY DEF ReleaseNext, Inside, askVars, loopVars, UnregisterDone, Unidle
<1>3. /\ LeasesCounted'
      /\ s \in Storages /\ s \in Held(p)
      /\ \A q \in Callers : Held(q)' = IF q = p THEN Held(p) \ {s} ELSE Held(q)
      /\ IsInjective(held'[p])
      /\ \A t \in Storages : leases'[t] = IF t = s THEN leases[t] - 1 ELSE leases[t]
      /\ \A q \in Callers : held'[q] = IF q = p THEN Tail(held[p]) ELSE held[q]
  <2>1. IsInjective(held[p])
    BY <1>1 DEF Locals
  <2>2. QED
    BY <1>1, <1>2, <2>1, ReleaseCounts
<1> HIDE DEF s
<1>4. /\ leases[s] \in Nat /\ leases[s] # 0 /\ s \in registered /\ s \notin Idle
      /\ idle \in Seq(Storages) /\ IsInjective(idle)
      /\ Idle = {t \in registered : leases[t] = 0}
      /\ registered \subseteq Storages
      /\ leases[s] = 1 => \A q \in Callers : q # p => s \notin Held(q)
  <2>1. leases[s] \in Nat /\ leases[s] # 0
    BY <1>1, <1>3, LeaseCounts
  <2>2. leases[s] = 1 => \A q \in Callers : q # p => s \notin Held(q)
    BY <1>1, <1>3, LeaseCounts
  <2>3. QED
    BY <1>1, <1>3, <2>1, <2>2 DEF TypedManager, IdleIsUnleased, HeldStaysRegistered
<1>5. /\ HeldStaysRegistered' /\ IdleIsUnleased' /\ registered' \subseteq registered
  <2>1. CASE leases[s] # 1 /\ UNCHANGED <<registered, idle>>
    <3>1. leases'[s] # 0
      BY <1>3, <1>4, <2>1
    <3>2. {t \in registered : leases'[t] = 0} = {t \in registered : leases[t] = 0}
      BY <1>3, <1>4, <3>1
    <3>3. QED
      BY <1>1, <1>3, <2>1, <3>2 DEF IdleIsUnleased, Idle, HeldStaysRegistered
  <2>2. CASE leases[s] = 1 /\ registered' = registered \ {s} /\ idle' = RemoveFirst(idle, s)
    <3>1. ToSet(idle') = Idle /\ IsInjective(idle')
      BY <1>4, <2>2, ToSetRemoveFirst DEF Idle
    <3>2. {t \in registered' : leases'[t] = 0} = {t \in registered : leases[t] = 0}
      BY <1>3, <1>4, <2>2
    <3>3. HeldStaysRegistered'
      BY <1>1, <1>3, <1>4, <2>2 DEF HeldStaysRegistered
    <3>4. QED
      BY <1>4, <2>2, <3>1, <3>2, <3>3 DEF IdleIsUnleased, Idle
  <2>3. CASE leases[s] = 1 /\ registered' = registered /\ idle' = Append(idle, s)
    <3>1. ToSet(idle') = Idle \cup {s} /\ IsInjective(idle')
      BY <1>3, <1>4, <2>3, ToSetAppend DEF Idle
    <3>2. {t \in registered' : leases'[t] = 0} = {t \in registered : leases[t] = 0} \cup {s}
      BY <1>3, <1>4, <2>3
    <3>3. HeldStaysRegistered'
      BY <1>1, <1>3, <2>3 DEF HeldStaysRegistered
    <3>4. QED
      BY <1>4, <2>3, <3>1, <3>2, <3>3 DEF IdleIsUnleased, Idle
  <2>4. QED
    BY <1>2, <2>1, <2>2, <2>3
<1>6. Sections' /\ Alone'
  BY <1>1, <1>2 DEF Sections, Alone
<1>7. Exclusive'
  BY <1>1, <1>2, <1>5 DEF Exclusive
<1>8. Locals'
  <2>1. \A q \in Callers : q # p => pc[q] \notin {"hold", "reserve"}
    BY <1>1, <1>2 DEF Sections
  <2>2. QED
    BY <1>1, <1>2, <1>3, <2>1 DEF Locals
<1>9. QED
  BY <1>3, <1>5, <1>6, <1>7, <1>8 DEF Core, Tables

-----------------------------------------------------------------------------
(* The inductive invariant holds *)

\* A dying owner can drop a registration only when nobody leases it.
LEMMA CoreOwnerGone ==
  ASSUME Typed, Core, NEW p \in Callers, NEW s \in Storages, OwnerGone(p, s)
  PROVE  Core'
<1> USE DEF callerVars, askVars, loopVars
<1>1. CASE leases[s] = 0 /\ UnregisterDone(s)
  BY <1>1, CoreShrink DEF OwnerGone, UnregisterDone
<1>2. CASE ~(leases[s] = 0 /\ UnregisterDone(s))
  BY <1>2, CoreFrame DEF OwnerGone, UnregisterFailed
<1>3. QED
  BY <1>1, <1>2

\* Every step keeps the core.
LEMMA CoreStep ==
  ASSUME IInv, [Next]_vars
  PROVE  Core'
<1> USE DEF IInv
<1>1. ASSUME NEW p \in Callers, Progress(p)
      PROVE  Core'
  <2>1. CASE \E s \in Storages : ReserveEvict(p, s)
    BY <2>1, CoreEvict DEF ReserveEvict
  <2>2. CASE RetryEvict(p) \/ TrimEvict(p) \/ ClearNext(p)
    BY <2>2, CoreEvict DEF RetryEvict, TrimEvict, ClearNext
  <2>3. CASE \E s \in Storages : ReserveTake(p, s) \/ ReserveSkip(p, s)
    BY <2>3, CoreReserveTake, CoreReserveSkip
  <2>4. CASE Admit(p) \/ HoldNext(p) \/ HoldDone(p)
    BY <2>4, CoreAdmit, CoreHoldNext, CoreHoldDone
  <2>5. CASE SettleRefused(p) \/ RetryExhausted(p) \/ DiscardNext(p)
    BY <2>5, CoreEvictPending
  <2>6. CASE SettleRegister(p) \/ ReleaseNext(p)
    BY <2>6, CoreSettleRegister, CoreReleaseNext
  <2>7. QED
    BY <1>1, <2>1, <2>2, <2>3, <2>4, <2>5, <2>6, CoreMove DEF Progress
<1>2. ASSUME NEW p \in Callers, Choice(p)
      PROVE  Core'
  <2> USE DEF managerVars, tableVars, loopVars, askVars
  <2>1. CASE \E s \in Storages : StartTransfer(p, s)
    BY <2>1, CoreFrame DEF StartTransfer
  <2>2. CASE EndTransfers(p)
    BY <2>2, CoreFrame DEF EndTransfers
  <2>3. QED
    BY <1>2, <2>1, <2>2, CoreMove DEF Choice
<1>3. ASSUME NEW p \in Callers, NEW s \in Storages, OwnerGone(p, s)
      PROVE  Core'
  BY <1>3, CoreOwnerGone
<1>4. CASE Rest \/ UNCHANGED vars
  BY <1>4, CoreFrame DEF Rest, vars, managerVars, tableVars, loopVars, callerVars, askVars
<1>5. QED
  BY <1>1, <1>2, <1>3, <1>4 DEF Next

\* Initially nothing is registered, held or pending.
LEMMA InitIInv ==
  ASSUME Init
  PROVE  IInv
<1>1. Typed
  <2>1. <<>> \in Seq(Storages)
    OBVIOUS
  <2>2. TypedManager
    <3>1. /\ mark \in Int /\ pinned \in Int
          /\ failures \in 0 .. MaxFailures /\ calls \in 0 .. MaxCalls
      BY CallerAssumption DEF Init
    <3>2. /\ leases \in [Storages -> Int] /\ pageable \in [Storages -> Int]
          /\ starts \in [Storages -> Int] /\ boundary \in [Pages -> Int]
          /\ owners \in [Storages -> SUBSET Callers]
      BY DEF Init
    <3>3. /\ lock \in Callers \cup {Nobody} /\ budget \in Budgets
          /\ registered \subseteq Storages /\ retired \subseteq Storages
          /\ tried \subseteq Storages /\ idle \in Seq(Storages)
          /\ open \subseteq Callers /\ rooted \in BOOLEAN
      BY <2>1 DEF Init
    <3>4. QED
      BY <3>1, <3>2, <3>3 DEF TypedManager
  <2>3. TypedCallers
    BY <2>1 DEF Init, TypedCallers, Stages
  <2>4. QED
    BY <2>2, <2>3 DEF Typed
<1>2. \A p \in Callers : Held(p) = {} /\ ToSet(pend[p]) = {} /\ Idle = {}
  BY DEF Init, Held, Idle, ToSet
<1>3. Sections /\ Alone /\ Exclusive /\ HeldStaysRegistered
  BY <1>2 DEF Init, Sections, Alone, Exclusive, HeldStaysRegistered
<1>4. Locals
  BY DEF Init, Locals, IsInjective
<1>5. LeasesCounted
  <2>1. ASSUME NEW s \in Storages
        PROVE  leases[s] = Cardinality({p \in Callers : s \in Held(p)})
    <3>1. {p \in Callers : s \in Held(p)} = {}
      BY <1>2
    <3>2. QED
      BY <3>1, FS_EmptySet DEF Init
  <2>2. QED
    BY <2>1 DEF LeasesCounted
<1>6. IdleIsUnleased
  BY DEF Init, IdleIsUnleased, Idle, ToSet, IsInjective
<1>7. QED
  BY <1>1, <1>3, <1>4, <1>5, <1>6 DEF IInv, Core, Tables

\* The inductive invariant holds of every behaviour, for any callers, storages,
\* requests, budgets and numbers of calls and failures.
THEOREM Invariance == Spec => []IInv
<1>1. Init => IInv
  BY InitIInv
<1>2. IInv /\ [Next]_vars => IInv'
  <2>1. ASSUME IInv, [Next]_vars
        PROVE  Typed' /\ Core'
    BY <2>1, TypedStep, CoreStep
  <2>2. QED
    BY <2>1 DEF IInv
<1>3. QED
  BY <1>1, <1>2, PTL DEF Spec

-----------------------------------------------------------------------------
(* What it gives *)

\* Every table and every caller's locals stay in their domains; a lease count is
\* never negative, since it counts callers.
THEOREM TypeCorrect == Spec => []TypeOK
<1>1. IInv => TypeOK
  <2>1. SUFFICES ASSUME IInv
                 PROVE  TypeOK
    OBVIOUS
  <2>2. Typed /\ TypedManager /\ TypedCallers /\ LeasesCounted
    BY <2>1 DEF IInv, Typed, Core, Tables
  <2>3. \A s \in Storages : leases[s] \in Nat
    BY <2>2, LeaseCounts
  <2>4. leases \in [Storages -> Nat]
    BY <2>2, <2>3 DEF TypedManager
  <2>5. QED
    BY <2>2, <2>4 DEF TypeOK, TypedManager, TypedCallers
<1>2. QED
  BY <1>1, Invariance, PTL

\* No registration is evicted while a lease or an acquisition holds it.
THEOREM HeldSafe == Spec => []HeldStaysRegistered
<1>1. IInv => HeldStaysRegistered
  BY DEF IInv, Core, Tables
<1>2. QED
  BY <1>1, Invariance, PTL

\* Lease counts are exact, and the LRU lists what eviction may take, all of it and
\* nothing else.
THEOREM LeasesExact == Spec => []LeasesAgree
<1>1. IInv => LeasesAgree
  BY DEF IInv, Core, Tables, LeasesAgree
<1>2. QED
  BY <1>1, Invariance, PTL

\* No storage is pending twice, pending while registered, or pending while leased.
THEOREM PendingSafe == Spec => []PendingExclusive
<1>1. IInv => PendingExclusive
  <2>1. SUFFICES ASSUME IInv
                 PROVE  PendingExclusive
    OBVIOUS
  <2>2. /\ Exclusive /\ HeldStaysRegistered /\ LeasesCounted
        /\ pend \in [Callers -> Seq(Storages)]
    BY <2>1 DEF IInv, Typed, TypedCallers, Core, Tables
  <2>3. Pending \cap registered = {}
    BY <2>2 DEF Pending, Exclusive
  <2>4. Pending \subseteq Storages
    <3>1. \A p \in Callers : ToSet(pend[p]) \subseteq Storages
      BY <2>2, ToSetEmpty
    <3>2. QED
      BY <3>1 DEF Pending
  <2>5. ASSUME NEW s \in Pending
        PROVE  leases[s] = 0
    <3>1. s \in Storages /\ \A p \in Callers : s \notin Held(p)
      BY <2>2, <2>3, <2>4 DEF HeldStaysRegistered
    <3>2. QED
      BY <2>2, <3>1, LeaseCounts
  <2>6. QED
    BY <2>2, <2>3, <2>5 DEF PendingExclusive, Exclusive
<1>2. QED
  BY <1>1, Invariance, PTL

-----------------------------------------------------------------------------
(* The manager keeps LeasedPool's promise *)

\* A step that leaves what is registered and held as it is stutters.
LEMMA PromiseStutter ==
  ASSUME UNCHANGED <<held, registered>>
  PROVE  UNCHANGED Promise!vars
BY DEF Promise!vars, Held

\* Dropping a registration with no lease drops what nobody holds.
LEMMA PromiseDrop ==
  ASSUME Core, NEW s \in Storages, s \in registered, leases[s] = 0,
         registered' = registered \ {s}, UNCHANGED held
  PROVE  Promise!Evict
<1>1. \A p \in Callers : s \notin Held(p)
  BY LeaseCounts DEF Core, Tables
<1>2. {s} \in SUBSET Promise!Unheld
  BY <1>1 DEF Promise!Unheld
<1>3. UNCHANGED [p \in Callers |-> Held(p)]
  BY DEF Held
<1>4. QED
  BY <1>2, <1>3 DEF Promise!Evict

\* An eviction loop drops an unheld registration or, refused, nothing.
LEMMA PromiseEvict ==
  ASSUME Core, EvictVictim, UNCHANGED held
  PROVE  [Promise!Next]_Promise!vars
<1>1. PICK s \in Storages : IsVictim(s) /\ (UnregisterDone(s) \/ UnregisterFailed)
  BY DEF EvictVictim
<1>2. s \in registered /\ leases[s] = 0
  <2>1. s \in Idle
    BY <1>1 DEF IsVictim, Candidates, Idle, ToSet
  <2>2. QED
    BY <2>1 DEF Core, Tables, IdleIsUnleased
<1>3. CASE UnregisterDone(s)
  BY <1>2, <1>3, PromiseDrop DEF UnregisterDone, Promise!Next
<1>4. CASE UnregisterFailed
  BY <1>4, PromiseStutter DEF UnregisterFailed
<1>5. QED
  BY <1>1, <1>3, <1>4

\* Holding what is registered shares it, registering admits it, and releasing lets
\* it go, with its registration or without.
LEMMA PromiseHold ==
  ASSUME Typed, Core, NEW p \in Callers, HoldNext(p) \/ SettleRegister(p) \/ ReleaseNext(p)
  PROVE  [Promise!Next]_Promise!vars
<1> DEFINE H == [q \in Callers |-> Held(q)]
<1>1. TypedCallers /\ Locals /\ LeasesCounted
  BY DEF Typed, Core, Tables
<1>2. ASSUME NEW s \in Storages, Hold(p, s)
      PROVE  H' = [H EXCEPT ![p] = @ \cup {s}]
  <2>1. \A q \in Callers : held'[q] = IF q = p THEN Append(held[p], s) ELSE held[q]
    BY <1>1, <1>2 DEF Hold, TypedCallers
  <2>2. ToSet(Append(held[p], s)) = Held(p) \cup {s}
    BY <1>1, ToSetAppend DEF TypedCallers, Held
  <2>3. QED
    BY <2>1, <2>2 DEF Held
<1>3. CASE HoldNext(p)
  <2> DEFINE s == req[p][at[p]]
  <2>1. s \in Storages
    BY <1>1, <1>3 DEF HoldNext, TypedCallers
  <2>2. CASE s \in registered
    <3>1. Hold(p, s) /\ UNCHANGED registered
      BY <1>3, <2>2 DEF HoldNext
    <3>2. Promise!Share(p, s)
      BY <1>2, <2>1, <2>2, <3>1 DEF Promise!Share
    <3>3. QED
      BY <2>1, <3>2 DEF Promise!Next
  <2>3. CASE s \notin registered
    BY <1>3, <2>3, PromiseStutter DEF HoldNext
  <2>4. QED
    BY <2>2, <2>3
<1>4. CASE SettleRegister(p)
  <2> DEFINE s == Head(pend[p])
  <2>1. /\ Hold(p, s) /\ registered' = (registered \ {}) \cup {s}
        /\ s \in Storages /\ s \notin registered
    BY <1>4, PendTail DEF SettleRegister, Offering, HeadReady
  <2> HIDE DEF s
  <2>2. Promise!Admit(p, s)
    <3>1. \E gone \in SUBSET Promise!Unheld : registered' = (registered \ gone) \cup {s}
      BY <2>1
    <3>2. QED
      BY <1>2, <2>1, <3>1 DEF Promise!Admit
  <2>3. QED
    BY <2>1, <2>2 DEF Promise!Next
<1>5. CASE ReleaseNext(p)
  <2> DEFINE s == Head(held[p])
  <2>1. /\ s \in Storages /\ s \in Held(p)
        /\ \A q \in Callers : Held(q)' = IF q = p THEN Held(p) \ {s} ELSE Held(q)
    BY <1>1, <1>5, ReleaseCounts DEF ReleaseNext, Locals
  <2>2. \/ UNCHANGED registered
        \/ leases[s] = 1 /\ registered' = registered \ {s}
    BY <1>5 DEF ReleaseNext, UnregisterDone
  <2> HIDE DEF s
  <2>3. leases[s] = 1 => \A q \in Callers \ {p} : s \notin Held(q)
    BY <1>1, <2>1, LeaseCounts
  <2>4. Promise!LetGo(p, s)
    <3>1. H' = [H EXCEPT ![p] = @ \ {s}] /\ s \in H[p]
      BY <2>1
    <3>2. QED
      BY <2>2, <2>3, <3>1 DEF Promise!LetGo
  <2>5. QED
    BY <2>1, <2>4 DEF Promise!Next
<1>6. QED
  BY <1>3, <1>4, <1>5

\* Every step of the manager is a step of the promise or none.
LEMMA PromiseStep ==
  ASSUME IInv, [Next]_vars
  PROVE  [Promise!Next]_Promise!vars
<1> USE DEF IInv, callerVars
<1>1. ASSUME NEW p \in Callers, Progress(p)
      PROVE  [Promise!Next]_Promise!vars
  <2> USE DEF managerVars, tableVars
  <2>1. CASE \E s \in Storages : ReserveEvict(p, s)
    BY <2>1, PromiseEvict DEF ReserveEvict
  <2>2. CASE RetryEvict(p) \/ TrimEvict(p) \/ ClearNext(p)
    BY <2>2, PromiseEvict DEF RetryEvict, TrimEvict, ClearNext
  <2>3. CASE HoldNext(p) \/ SettleRegister(p) \/ ReleaseNext(p)
    BY <2>3, PromiseHold
  <2>4. CASE \E s \in Storages : ReserveTake(p, s) \/ ReserveSkip(p, s)
    BY <2>4, PromiseStutter DEF ReserveTake, ReserveSkip
  <2>5. CASE SettleRefused(p) \/ RetryExhausted(p) \/ DiscardNext(p)
    BY <2>5, PromiseStutter DEF SettleRefused, RetryExhausted, DiscardNext, EvictPending
  <2>6. CASE \/ Admit(p) \/ HoldDone(p) \/ ReserveDone(p)
             \/ FillFirst(p) \/ FillRest(p) \/ FillRaises(p) \/ TakeLock(p)
    BY <2>6, PromiseStutter
    DEF Admit, HoldDone, ReserveDone, FillFirst, FillRest, FillRaises, TakeLock
  <2>7. CASE \/ SettleStop(p) \/ SettleNoCapacity(p) \/ SettleRaises(p) \/ RetryAgain(p)
             \/ OpenLease(p) \/ FailRetire(p) \/ ReleaseDone(p) \/ TrimDone(p) \/ ClearDone(p)
    BY <2>7, PromiseStutter
    DEF SettleStop, SettleNoCapacity, SettleRaises, RetryAgain, OpenLease, FailRetire,
        ReleaseDone, TrimDone, ClearDone
  <2>8. QED
    BY <1>1, <2>1, <2>2, <2>3, <2>4, <2>5, <2>6, <2>7 DEF Progress
<1>2. ASSUME NEW p \in Callers, Choice(p)
      PROVE  [Promise!Next]_Promise!vars
  BY <1>2, PromiseStutter
  DEF Choice, CallAcquire, CloseLease, SetBudget, Clear, StartTransfer, EndTransfers,
      managerVars, tableVars
<1>3. ASSUME NEW p \in Callers, NEW s \in Storages, OwnerGone(p, s)
      PROVE  [Promise!Next]_Promise!vars
  <2>1. CASE leases[s] = 0 /\ s \in registered /\ UnregisterDone(s)
    BY <1>3, <2>1, PromiseDrop DEF OwnerGone, UnregisterDone, Promise!Next
  <2>2. CASE ~(leases[s] = 0 /\ s \in registered /\ UnregisterDone(s))
    <3>1. UNCHANGED <<held, registered>>
      BY <1>3, <2>2 DEF OwnerGone, UnregisterDone, UnregisterFailed
    <3>2. QED
      BY <3>1, PromiseStutter
  <2>3. QED
    BY <2>1, <2>2
<1>4. CASE Rest \/ UNCHANGED vars
  BY <1>4, PromiseStutter DEF Rest, vars, managerVars, tableVars
<1>5. QED
  BY <1>1, <1>2, <1>3, <1>4 DEF Next

\* The manager implements LeasedPool: whoever evicts, clears or loses an owner, and
\* whatever the runtime answers, only what nobody holds ever leaves.
THEOREM Refinement == Spec => KeepsPromise
<1>1. Init => Promise!Init
  BY DEF Init, Promise!Init, Held, ToSet
<1>2. IInv /\ [Next]_vars => [Promise!Next]_Promise!vars
  BY PromiseStep
<1>3. QED
  BY <1>1, <1>2, Invariance, PTL DEF Spec, KeepsPromise, Promise!Spec

-----------------------------------------------------------------------------
(***************************************************************************)
(* The manager's books: what it counts agrees with what it pins, the       *)
(* budget is exceeded only by what is leased, and nothing is kept that     *)
(* nobody uses.  The invariants below are inductive given IInv, which is   *)
(* available before and after every step.                                  *)
(***************************************************************************)

Pins == registered \cup Pending

\* Only what is registered has tensors whose death matters.
OwnersRegistered == \A s \in Storages : owners[s] # {} => s \in registered

-----------------------------------------------------------------------------
(* Pages *)

PagesOf(R) == UNION {FirstPage[s] .. LastPage[s] : s \in R}
EndingAt(R, g) == {s \in R : g \in Boundaries(s)}

\* A range has one or two boundary pages, both its own, so that reserving it never
\* frees pages.
LEMMA NeedNat ==
  ASSUME NEW s \in Storages, NEW b
  PROVE  PageReservation(b, s) \in Nat
<1> DEFINE B == Boundaries(s)
           C == {g \in B : b[g] > 0}
<1>1. FirstPage[s] \in Nat /\ LastPage[s] \in Nat /\ FirstPage[s] <= LastPage[s]
  BY StorageAssumption
<1>2. IsFiniteSet({FirstPage[s]}) /\ Cardinality({FirstPage[s]}) = 1
  BY FS_Singleton
<1>3. IsFiniteSet(B) /\ Cardinality(B) \in Nat /\ Cardinality(B) <= LastPage[s] - FirstPage[s] + 1
  <2>1. CASE FirstPage[s] = LastPage[s]
    <3>1. B = {FirstPage[s]}
      BY <2>1 DEF Boundaries
    <3>2. QED
      BY <1>1, <1>2, <2>1, <3>1
  <2>2. CASE FirstPage[s] # LastPage[s]
    <3>1. B = {FirstPage[s]} \cup {LastPage[s]}
      BY DEF Boundaries
    <3>2. IsFiniteSet(B) /\ Cardinality(B) = 2
      BY <1>2, <2>2, <3>1, FS_AddElement
    <3>3. QED
      BY <1>1, <2>2, <3>2
  <2>3. QED
    BY <2>1, <2>2
<1>4. Cardinality(C) \in Nat /\ Cardinality(C) <= Cardinality(B)
  BY <1>3, FS_Subset, FS_CardinalityType
<1>5. PageReservation(b, s) = LastPage[s] - FirstPage[s] + 1 - Cardinality(C)
  BY DEF PageReservation
<1> HIDE DEF B, C
<1>6. QED
  BY <1>1, <1>3, <1>4, <1>5

\* The pages of some ranges are finitely many.
LEMMA PagesFinite ==
  ASSUME NEW R \in SUBSET Storages
  PROVE  IsFiniteSet(PagesOf(R)) /\ Cardinality(PagesOf(R)) \in Nat
<1> DEFINE f == [t \in R |-> FirstPage[t] .. LastPage[t]]
           T == {FirstPage[t] .. LastPage[t] : t \in R}
<1>1. IsFiniteSet(R)
  BY StorageAssumption, FS_Subset
<1>2. IsFiniteSet(T)
  <2>1. f \in Surjection(R, T)
    BY DEF Surjection
  <2>2. QED
    BY <1>1, <2>1, FS_Surjection
<1>3. \A U \in T : IsFiniteSet(U)
  <2>1. ASSUME NEW t \in R
        PROVE  IsFiniteSet(FirstPage[t] .. LastPage[t])
    <3>1. FirstPage[t] \in Int /\ LastPage[t] \in Int
      BY StorageAssumption
    <3>2. QED
      BY <3>1, FS_Interval
  <2>2. QED
    BY <2>1
<1>4. IsFiniteSet(PagesOf(R))
  BY <1>2, <1>3, FS_UNION DEF PagesOf
<1>5. QED
  BY <1>4, FS_CardinalityType

\* What a range adds to the pages of others is what PageReservation says, when the
\* boundary counts are theirs: ranges meet at their ends only.
LEMMA AddRange ==
  ASSUME NEW R \in SUBSET (Storages \ FileBacked), NEW s \in (Storages \ FileBacked) \ R,
         NEW b, \A g \in Boundaries(s) : b[g] = Cardinality(EndingAt(R, g))
  PROVE  Cardinality(PagesOf(R \cup {s})) = Cardinality(PagesOf(R)) + PageReservation(b, s)
<1> DEFINE O == FirstPage[s] .. LastPage[s]
           S == {g \in Boundaries(s) : b[g] > 0}
<1>1. \A t \in Storages : /\ FirstPage[t] \in Nat /\ LastPage[t] \in Nat
                          /\ FirstPage[t] <= LastPage[t]
  BY StorageAssumption
<1>2. IsFiniteSet(R)
  BY StorageAssumption, FS_Subset
<1>3. IsFiniteSet(PagesOf(R))
  BY PagesFinite
<1>4. IsFiniteSet(O) /\ Cardinality(O) = LastPage[s] - FirstPage[s] + 1
  <2>1. FirstPage[s] \in Int /\ LastPage[s] \in Int /\ FirstPage[s] <= LastPage[s]
    BY <1>1
  <2>2. QED
    BY <2>1, FS_Interval
<1>5. ASSUME NEW g \in Boundaries(s)
      PROVE  b[g] > 0 <=> EndingAt(R, g) # {}
  <2>1. IsFiniteSet(EndingAt(R, g))
    BY <1>2, FS_Subset DEF EndingAt
  <2>2. Cardinality(EndingAt(R, g)) \in Nat /\ b[g] = Cardinality(EndingAt(R, g))
    BY <2>1, FS_CardinalityType
  <2>3. Cardinality(EndingAt(R, g)) = 0 <=> EndingAt(R, g) = {}
    BY <2>1, FS_EmptySet
  <2>4. QED
    BY <2>2, <2>3
<1>6. ASSUME NEW g \in PagesOf(R) \cap O
      PROVE  g \in S
  <2>1. PICK t \in R : g \in FirstPage[t] .. LastPage[t]
    BY DEF PagesOf
  <2>2. LastPage[t] <= FirstPage[s] \/ LastPage[s] <= FirstPage[t]
    BY DisjointAssumption
  <2>3. g \in Boundaries(s) /\ g \in Boundaries(t)
    BY <1>1, <2>1, <2>2 DEF Boundaries
  <2>4. QED
    BY <1>5, <2>3 DEF EndingAt
<1>7. ASSUME NEW g \in S
      PROVE  g \in PagesOf(R) \cap O
  <2>1. PICK t \in R : g \in Boundaries(t)
    BY <1>5 DEF EndingAt
  <2>2. g \in FirstPage[t] .. LastPage[t] /\ g \in O
    BY <1>1, <2>1 DEF Boundaries
  <2>3. QED
    BY <2>2 DEF PagesOf
<1>8. PagesOf(R) \cap O = S
  BY <1>6, <1>7
<1>9. PagesOf(R \cup {s}) = PagesOf(R) \cup O
  BY DEF PagesOf
<1>10. Cardinality(PagesOf(R) \cup O) = Cardinality(PagesOf(R)) + Cardinality(O) - Cardinality(S)
  <2> HIDE DEF O, S
  <2>1. QED
    BY <1>3, <1>4, <1>8, FS_Union
<1>11. Cardinality(PagesOf(R)) \in Nat /\ Cardinality(S) \in Nat
  BY <1>3, <1>8, FS_CardinalityType, FS_Subset
<1>12. PageReservation(b, s) = LastPage[s] - FirstPage[s] + 1 - Cardinality(S)
  BY DEF PageReservation
<1> HIDE DEF O, S
<1>13. FirstPage[s] \in Nat /\ LastPage[s] \in Nat
  BY <1>1
<1>14. Cardinality(O) - Cardinality(S) = PageReservation(b, s)
  BY <1>4, <1>11, <1>12, <1>13
<1>15. Cardinality(O) \in Int
  BY <1>4, <1>13
<1>16. QED
  BY <1>9, <1>10, <1>11, <1>14, <1>15

-----------------------------------------------------------------------------
(* What the steps change *)

\* Everything the books are about, and what they are checked against.
bookVars == <<tableVars, pageable, budgetVars, failures, lifeVars, held, created, pend, paged>>

\* An eviction loop is inside a call, whose own state it leaves alone.
Evicts == EvictVictim /\ UNCHANGED <<lock, budget, pageable, mark, callerVars>>

\* Pending storage is given up.
GivesUp(p) == SettleRefused(p) \/ RetryExhausted(p) \/ DiscardNext(p)

\* The steps that touch the books; all the others leave them alone.
LEMMA Kinds ==
  ASSUME [Next]_vars
  PROVE  \/ UNCHANGED bookVars
         \/ Evicts
         \/ \E p \in Callers : \/ HoldNext(p) \/ SettleRegister(p) \/ GivesUp(p)
                               \/ OpenLease(p) \/ FailRetire(p) \/ ReleaseNext(p) \/ TrimDone(p)
         \/ \E p \in Callers, s \in Storages : ReserveTake(p, s) \/ OwnerGone(p, s)
<1> USE DEF bookVars, callerVars, managerVars, leaseVars, Evicts
<1>1. ASSUME NEW p \in Callers, Progress(p)
      PROVE  \/ UNCHANGED bookVars
             \/ Evicts
             \/ \/ HoldNext(p) \/ SettleRegister(p) \/ GivesUp(p)
                \/ OpenLease(p) \/ FailRetire(p) \/ ReleaseNext(p) \/ TrimDone(p)
             \/ \E s \in Storages : ReserveTake(p, s)
  <2>1. CASE \E s \in Storages : ReserveEvict(p, s)
    BY <2>1 DEF ReserveEvict
  <2>2. CASE RetryEvict(p) \/ TrimEvict(p) \/ ClearNext(p)
    BY <2>2 DEF RetryEvict, TrimEvict, ClearNext
  <2>3. CASE \E s \in Storages : ReserveSkip(p, s)
    BY <2>3 DEF ReserveSkip
  <2>4. CASE \/ Admit(p) \/ HoldDone(p) \/ ReserveDone(p)
             \/ FillFirst(p) \/ FillRest(p) \/ FillRaises(p) \/ TakeLock(p)
    BY <2>4 DEF Admit, HoldDone, ReserveDone, FillFirst, FillRest, FillRaises, TakeLock
  <2>5. CASE \/ SettleStop(p) \/ SettleNoCapacity(p) \/ SettleRaises(p) \/ RetryAgain(p)
             \/ ReleaseDone(p) \/ ClearDone(p)
    BY <2>5 DEF SettleStop, SettleNoCapacity, SettleRaises, RetryAgain, ReleaseDone, ClearDone
  <2>6. QED
    BY <1>1, <2>1, <2>2, <2>3, <2>4, <2>5 DEF Progress, GivesUp
<1>2. ASSUME NEW p \in Callers, Choice(p)
      PROVE  UNCHANGED bookVars
  BY <1>2 DEF Choice, CallAcquire, CloseLease, SetBudget, Clear, StartTransfer, EndTransfers
<1>3. CASE Rest \/ UNCHANGED vars
  BY <1>3 DEF Rest, vars
<1>4. QED
  BY <1>1, <1>2, <1>3 DEF Next

\* The victim is registered, and nobody leases it.
LEMMA EvictsRegistered ==
  ASSUME IInv, Evicts
  PROVE  \E s \in Storages :
            /\ s \in registered /\ s \in Idle /\ leases[s] = 0 /\ tried' = tried \cup {s}
            /\ UnregisterDone(s) \/ (UnregisterFailed /\ UNCHANGED <<retired, owners>>)
            /\ UNCHANGED <<leases, open>>
<1>1. PICK s \in Storages :
        /\ IsVictim(s) /\ tried' = tried \cup {s}
        /\ UnregisterDone(s) \/ (UnregisterFailed /\ UNCHANGED <<retired, owners>>)
        /\ UNCHANGED <<leases, open>>
  BY DEF Evicts, EvictVictim
<1>2. s \in Idle
  BY <1>1 DEF IsVictim, Candidates, Idle, ToSet
<1>3. s \in registered /\ leases[s] = 0
  BY <1>2 DEF IInv, Core, Tables, IdleIsUnleased
<1>4. QED
  BY <1>1, <1>2, <1>3

\* What an acquisition holds, or lets go of, is registered.
LEMMA HeadHeld ==
  ASSUME IInv, NEW p \in Callers, held[p] # <<>>
  PROVE  /\ Head(held[p]) \in Storages /\ Head(held[p]) \in registered
         /\ Head(held[p]) \in Held(p)
<1>1. held[p] \in Seq(Storages) /\ HeldStaysRegistered
  BY DEF IInv, Typed, TypedCallers, Core, Tables
<1>2. Head(held[p]) \in Held(p) /\ Head(held[p]) \in Storages
  BY <1>1, ToSetEmpty, HeadTailProperties DEF Held
<1>3. QED
  BY <1>1, <1>2 DEF HeldStaysRegistered

\* A range's owners go with its registration.
LEMMA OwnersStep ==
  ASSUME IInv, OwnersRegistered, [Next]_vars
  PROVE  OwnersRegistered'
<1>1. owners \in [Storages -> SUBSET Callers]
  BY DEF IInv, Typed, TypedManager
<1>2. ASSUME NEW s \in Storages, UnregisterDone(s)
      PROVE  OwnersRegistered'
  BY <1>1, <1>2 DEF OwnersRegistered, UnregisterDone
<1>3. ASSUME registered' = registered,
             \A s \in Storages : owners'[s] \subseteq owners[s] \/ s \in registered
      PROVE  OwnersRegistered'
  BY <1>3 DEF OwnersRegistered
<1>4. CASE UNCHANGED bookVars
  BY <1>4 DEF bookVars, tableVars, OwnersRegistered
<1>5. CASE Evicts
  BY <1>2, <1>3, <1>5, EvictsRegistered DEF UnregisterFailed
<1>6. ASSUME NEW p \in Callers,
             \/ GivesUp(p) \/ OpenLease(p) \/ FailRetire(p) \/ TrimDone(p)
             \/ \E s \in Storages : ReserveTake(p, s)
      PROVE  OwnersRegistered'
  BY <1>3, <1>6 DEF GivesUp, SettleRefused, RetryExhausted, DiscardNext, EvictPending, OpenLease,
                    FailRetire, TrimDone, ReserveTake
<1>7. ASSUME NEW p \in Callers, HoldNext(p)
      PROVE  OwnersRegistered'
  BY <1>1, <1>3, <1>7 DEF HoldNext, Hold
<1>8. ASSUME NEW p \in Callers, SettleRegister(p)
      PROVE  OwnersRegistered'
  BY <1>1, <1>8 DEF OwnersRegistered, SettleRegister, Hold
<1>9. ASSUME NEW p \in Callers, ReleaseNext(p)
      PROVE  OwnersRegistered'
  <2>1. Head(held[p]) \in Storages
    BY <1>9, HeadHeld DEF ReleaseNext
  <2>2. UnregisterDone(Head(held[p])) \/ UNCHANGED <<registered, owners>>
    BY <1>9 DEF ReleaseNext
  <2>3. QED
    BY <1>2, <1>3, <2>1, <2>2
<1>10. ASSUME NEW p \in Callers, NEW s \in Storages, OwnerGone(p, s)
       PROVE  OwnersRegistered'
  <2>1. CASE UnregisterDone(s)
    BY <1>2, <2>1
  <2>2. CASE ~UnregisterDone(s)
    BY <1>1, <1>3, <1>10, <2>2 DEF OwnerGone, UnregisterFailed
  <2>3. QED
    BY <2>1, <2>2
<1>11. QED
  BY <1>4, <1>5, <1>6, <1>7, <1>8, <1>9, <1>10, Kinds

-----------------------------------------------------------------------------
(* Nothing leaks *)

\* The stages of a call in which it has created nothing.
Outside == {"free", "waiting", "hold", "reserve", "leased", "release", "trim", "clear"}

\* Until its lease is open, what an acquisition has registered is among what it
\* holds, for the handler to retire and release.
CreatedHeld ==
    \A p \in Callers :
        /\ created[p] \subseteq Held(p)
        /\ pc[p] \in Outside => created[p] = {}

\* An acquisition registers and opens its lease between reserving and "leased".
LEMMA CreatedStep ==
  ASSUME IInv, CreatedHeld, [Next]_vars
  PROVE  CreatedHeld'
<1> USE DEF vars, managerVars, callerVars, loopVars, askVars, leaseVars, Goto, Enter, Leave, Inside
<1>1. /\ TypedCallers /\ Sections
      /\ \A p \in Callers : created[p] \subseteq Held(p)
      /\ \A p \in Callers : pc[p] \in Outside => created[p] = {}
  BY DEF IInv, Typed, Core, CreatedHeld
<1>2. ASSUME UNCHANGED <<held, created>>,
             \A p \in Callers : pc'[p] = pc[p] \/ pc[p] \in Outside \/ pc'[p] \notin Outside
      PROVE  CreatedHeld'
  <2>1. \A p \in Callers : Held(p)' = Held(p)
    BY <1>2 DEF Held
  <2>2. QED
    BY <1>1, <1>2, <2>1 DEF CreatedHeld
<1>3. ASSUME NEW p \in Callers, NEW s \in Storages, Hold(p, s)
      PROVE  \A q \in Callers : Held(q)' = IF q = p THEN Held(p) \cup {s} ELSE Held(q)
  <2>1. \A q \in Callers : held'[q] = IF q = p THEN Append(held[p], s) ELSE held[q]
    BY <1>1, <1>3 DEF Hold, TypedCallers
  <2>2. ToSet(Append(held[p], s)) = ToSet(held[p]) \cup {s}
    BY <1>1, ToSetAppend DEF TypedCallers
  <2>3. QED
    BY <2>1, <2>2 DEF Held
<1>4. ASSUME NEW p \in Callers, Progress(p)
      PROVE  CreatedHeld'
  <2>1. CASE HoldNext(p)
    <3> DEFINE s == req[p][at[p]]
    <3>1. s \in Storages
      BY <1>1, <2>1 DEF HoldNext, TypedCallers
    <3>2. CASE s \in registered
      <4>1. Hold(p, s) /\ UNCHANGED <<created, pc>>
        BY <2>1, <3>2 DEF HoldNext
      <4>2. QED
        BY <1>1, <1>3, <3>1, <4>1 DEF CreatedHeld
    <3>3. CASE s \notin registered
      BY <1>2, <2>1, <3>3 DEF HoldNext
    <3>4. QED
      BY <3>2, <3>3
  <2>2. CASE SettleRegister(p)
    <3> DEFINE s == Head(pend[p])
    <3>1. /\ Hold(p, s) /\ created' = [created EXCEPT ![p] = @ \cup {s}] /\ UNCHANGED pc
          /\ pc[p] \in {"early", "final"} /\ s \in Storages
      BY <1>1, <2>2, HeadTailProperties
      DEF SettleRegister, Offering, Settling, HeadReady, TypedCallers
    <3>2. created' \in [Callers -> SUBSET Storages]
      BY <1>1, <3>1 DEF TypedCallers
    <3> HIDE DEF s
    <3>3. \A q \in Callers : created'[q] = IF q = p THEN created[p] \cup {s} ELSE created[q]
      BY <1>1, <3>1 DEF TypedCallers
    <3>4. QED
      BY <1>1, <1>3, <3>1, <3>3 DEF CreatedHeld, Outside
  <2>3. CASE ReleaseNext(p)
    <3>1. /\ created[p] = {} /\ UNCHANGED <<created, pc>>
          /\ \A q \in Callers : q # p => held'[q] = held[q]
      BY <1>1, <2>3 DEF ReleaseNext, Outside, TypedCallers
    <3>2. QED
      BY <1>1, <3>1 DEF CreatedHeld, Held
  <2>4. CASE OpenLease(p) \/ FailRetire(p)
    <3>1. /\ \A q \in Callers : created'[q] = IF q = p THEN {} ELSE created[q]
          /\ \A q \in Callers : q # p => pc'[q] = pc[q]
          /\ UNCHANGED held
      BY <1>1, <2>4 DEF OpenLease, FailRetire, TypedCallers
    <3>2. QED
      BY <1>1, <3>1 DEF CreatedHeld, Held
  <2>5. CASE GivesUp(p)
    BY <1>1, <1>2, <2>5 DEF GivesUp, SettleRefused, RetryExhausted, DiscardNext, TypedCallers, Outside
  <2>6. CASE \E s \in Storages : ReserveEvict(p, s) \/ ReserveTake(p, s) \/ ReserveSkip(p, s)
    BY <1>2, <2>6 DEF ReserveEvict, ReserveTake, ReserveSkip
  <2>7. CASE RetryEvict(p) \/ TrimEvict(p) \/ ClearNext(p)
    BY <1>2, <2>7 DEF RetryEvict, TrimEvict, ClearNext
  <2>8. CASE Admit(p) \/ HoldDone(p) \/ ReserveDone(p)
    BY <1>1, <1>2, <2>8 DEF Admit, HoldDone, ReserveDone, TypedCallers, Outside
  <2>9. CASE FillFirst(p) \/ FillRest(p) \/ FillRaises(p) \/ TakeLock(p)
    BY <1>1, <1>2, <2>9 DEF FillFirst, FillRest, FillRaises, TakeLock, TypedCallers, Outside
  <2>10. CASE SettleStop(p) \/ SettleNoCapacity(p) \/ SettleRaises(p) \/ RetryAgain(p)
    BY <1>1, <1>2, <2>10
    DEF SettleStop, SettleNoCapacity, SettleRaises, RetryAgain, TypedCallers, Outside
  <2>11. CASE ReleaseDone(p) \/ TrimDone(p) \/ ClearDone(p)
    BY <1>1, <1>2, <2>11 DEF ReleaseDone, TrimDone, ClearDone, TypedCallers, Outside
  <2>12. QED
    BY <1>4, <2>1, <2>2, <2>3, <2>4, <2>5, <2>6, <2>7, <2>8, <2>9, <2>10, <2>11
    DEF Progress, GivesUp
<1>5. ASSUME NEW p \in Callers, Choice(p)
      PROVE  CreatedHeld'
  BY <1>1, <1>2, <1>5
  DEF Choice, CallAcquire, CloseLease, SetBudget, Clear, StartTransfer, EndTransfers,
      TypedCallers, Outside
<1>6. CASE (\E p \in Callers, s \in Storages : OwnerGone(p, s)) \/ Rest \/ UNCHANGED vars
  BY <1>2, <1>6 DEF OwnerGone, Rest
<1>7. QED
  BY <1>4, <1>5, <1>6 DEF Next

\* The manager is rooted through every step that registers, opens, drops or closes.
LEMMA RootedStep ==
  ASSUME IInv, OwnersRegistered, RootedExactly, [Next]_vars
  PROVE  RootedExactly'
<1>1. rooted \in BOOLEAN /\ open \subseteq Callers
  BY DEF IInv, Typed, TypedManager
<1>2. ASSUME NEW s \in registered, UnregisterDone(s), open' = open
      PROVE  RootedExactly'
  BY <1>1, <1>2 DEF RootedExactly, UnregisterDone, DropRoot
<1>3. ASSUME UNCHANGED <<registered, open, rooted>>
      PROVE  RootedExactly'
  BY <1>3 DEF RootedExactly
<1>4. CASE UNCHANGED bookVars
  BY <1>3, <1>4 DEF bookVars, tableVars, lifeVars
<1>5. CASE Evicts
  BY <1>2, <1>3, <1>5, EvictsRegistered DEF UnregisterFailed
<1>6. ASSUME NEW p \in Callers,
             HoldNext(p) \/ GivesUp(p) \/ FailRetire(p) \/ \E s \in Storages : ReserveTake(p, s)
      PROVE  RootedExactly'
  BY <1>3, <1>6 DEF HoldNext, GivesUp, SettleRefused, RetryExhausted, DiscardNext, EvictPending,
                    FailRetire, ReserveTake, lifeVars
<1>7. ASSUME NEW p \in Callers, SettleRegister(p) \/ OpenLease(p)
      PROVE  RootedExactly'
  BY <1>7 DEF RootedExactly, SettleRegister, OpenLease
<1>8. ASSUME NEW p \in Callers, TrimDone(p)
      PROVE  RootedExactly'
  <2>1. CASE p \in open
    BY <1>1, <1>8, <2>1 DEF RootedExactly, TrimDone, DropRoot
  <2>2. CASE p \notin open
    <3>1. open' = open
      BY <1>8, <2>2 DEF TrimDone
    <3>2. QED
      BY <1>3, <1>8, <2>2, <3>1 DEF TrimDone
  <2>3. QED
    BY <2>1, <2>2
<1>9. ASSUME NEW p \in Callers, ReleaseNext(p)
      PROVE  RootedExactly'
  <2>1. Head(held[p]) \in registered
    BY <1>9, HeadHeld DEF ReleaseNext
  <2>2. UNCHANGED <<registered, rooted>> \/ UnregisterDone(Head(held[p]))
    BY <1>9 DEF ReleaseNext
  <2>3. QED
    BY <1>2, <1>3, <1>9, <2>1, <2>2 DEF ReleaseNext
<1>10. ASSUME NEW p \in Callers, NEW s \in Storages, OwnerGone(p, s)
       PROVE  RootedExactly'
  <2>1. s \in registered
    BY <1>10 DEF OwnerGone, OwnersRegistered
  <2>2. UNCHANGED <<registered, rooted>> \/ UnregisterDone(s)
    BY <1>10 DEF OwnerGone, UnregisterFailed
  <2>3. QED
    BY <1>2, <1>3, <1>10, <2>1, <2>2 DEF OwnerGone
<1>11. QED
  BY <1>4, <1>5, <1>6, <1>7, <1>8, <1>9, <1>10, Kinds

\* While no unregistration fails, what is retired is still leased: it is retired
\* either at once or while leased, and its last lease takes it along.
LEMMA RetiredStep ==
  ASSUME IInv, OwnersRegistered, CreatedHeld, RetiredIsReleased, [Next]_vars
  PROVE  RetiredIsReleased'
<1>1. /\ TypedManager /\ TypedCallers /\ LeasesCounted /\ HeldStaysRegistered
      /\ leases \in [Storages -> Int] /\ failures \in Nat
      /\ retired \subseteq Storages /\ \A s \in Storages : leases[s] \in Nat
  BY LeaseCounts DEF IInv, Typed, TypedManager, Core, Tables
<1>2. ASSUME NEW s \in Storages, UnregisterDone(s), \A t \in Storages \ {s} : leases'[t] = leases[t]
      PROVE  RetiredIsReleased'
  BY <1>1, <1>2 DEF RetiredIsReleased, UnregisterDone
<1>3. ASSUME UNCHANGED failures, retired' \subseteq retired, registered \subseteq registered',
             \A s \in Storages : leases[s] > 0 => leases'[s] > 0
      PROVE  RetiredIsReleased'
  BY <1>1, <1>3 DEF RetiredIsReleased
<1>4. ASSUME failures' = failures + 1
      PROVE  RetiredIsReleased'
  BY <1>1, <1>4 DEF RetiredIsReleased
<1>5. CASE UNCHANGED bookVars
  BY <1>3, <1>5 DEF bookVars, tableVars
<1>6. CASE Evicts
  BY <1>2, <1>4, <1>6, EvictsRegistered DEF UnregisterFailed
<1>7. ASSUME NEW p \in Callers,
             GivesUp(p) \/ OpenLease(p) \/ TrimDone(p) \/ \E s \in Storages : ReserveTake(p, s)
      PROVE  RetiredIsReleased'
  BY <1>3, <1>7 DEF GivesUp, SettleRefused, RetryExhausted, DiscardNext, EvictPending,
                    OpenLease, TrimDone, ReserveTake
<1>8. ASSUME NEW p \in Callers, HoldNext(p) \/ SettleRegister(p)
      PROVE  RetiredIsReleased'
  <2>1. /\ UNCHANGED <<failures, retired>> /\ registered \subseteq registered'
        /\ \/ UNCHANGED leases
           \/ \E s : leases' = [leases EXCEPT ![s] = @ + 1]
    BY <1>8 DEF HoldNext, SettleRegister, Hold
  <2>2. \A s \in Storages : leases[s] > 0 => leases'[s] > 0
    BY <1>1, <2>1
  <2>3. QED
    BY <1>3, <2>1, <2>2
<1>9. ASSUME NEW p \in Callers, FailRetire(p)
      PROVE  RetiredIsReleased'
  <2>1. created[p] \subseteq Held(p)
    BY DEF CreatedHeld
  <2>2. \A s \in created[p] : s \in registered /\ s \in Storages /\ leases[s] > 0
    <3>1. SUFFICES ASSUME NEW s \in created[p]
                   PROVE  s \in registered /\ s \in Storages /\ leases[s] > 0
      OBVIOUS
    <3>2. s \in registered /\ s \in Storages
      BY <1>1, <2>1 DEF HeldStaysRegistered, TypedManager
    <3>3. leases[s] # 0
      BY <1>1, <2>1, <3>2, LeaseCounts
    <3>4. QED
      BY <1>1, <3>2, <3>3
  <2>3. QED
    BY <1>9, <2>2 DEF FailRetire, RetiredIsReleased
<1>10. ASSUME NEW p \in Callers, ReleaseNext(p)
       PROVE  RetiredIsReleased'
  <2> DEFINE s == Head(held[p])
  <2>1. s \in Storages
    BY <1>10, HeadHeld DEF ReleaseNext
  <2>2. \A t \in Storages : leases'[t] = IF t = s THEN leases[s] - 1 ELSE leases[t]
    BY <1>1, <1>10, <2>1 DEF ReleaseNext
  <2>3. CASE UnregisterDone(s)
    BY <1>2, <2>1, <2>2, <2>3
  <2>4. CASE ~UnregisterDone(s)
    <3>1. /\ UNCHANGED <<registered, retired>>
          /\ \/ leases[s] # 1 /\ UNCHANGED failures
             \/ leases[s] = 1 /\ s \in retired /\ failures' = failures + 1
             \/ leases[s] = 1 /\ s \notin retired /\ UNCHANGED failures
      BY <1>10, <2>4 DEF ReleaseNext, Orphan
    <3> HIDE DEF s
    <3>2. QED
      BY <1>1, <1>4, <2>1, <2>2, <3>1 DEF RetiredIsReleased
  <2>5. QED
    BY <2>3, <2>4
<1>11. ASSUME NEW p \in Callers, NEW s \in Storages, OwnerGone(p, s)
       PROVE  RetiredIsReleased'
  <2>1. s \in registered /\ UNCHANGED leases
    BY <1>11 DEF OwnerGone, OwnersRegistered
  <2>2. CASE UnregisterDone(s)
    BY <1>2, <2>1, <2>2
  <2>3. CASE ~UnregisterDone(s) /\ leases[s] = 0
    BY <1>4, <1>11, <2>3 DEF OwnerGone, UnregisterFailed
  <2>4. CASE ~UnregisterDone(s) /\ leases[s] # 0
    <3>1. retired' = retired \cup {s} /\ UNCHANGED <<registered, failures>>
      BY <1>11, <2>4 DEF OwnerGone
    <3>2. leases[s] > 0
      BY <1>1, <2>4
    <3>3. QED
      BY <2>1, <3>1, <3>2 DEF RetiredIsReleased
  <2>5. QED
    BY <2>2, <2>3, <2>4
<1>12. QED
  BY <1>5, <1>6, <1>7, <1>8, <1>9, <1>10, <1>11, Kinds

-----------------------------------------------------------------------------
(* What the steps pin and unpin *)

\* A step pins one more range or copy, lets one go, or changes no pin.
Gains(s) ==
    /\ s \notin Pins /\ Pins' = Pins \cup {s} /\ Reserve(s)
    /\ starts' = [starts EXCEPT ![s] = @ + 1]
    /\ UNCHANGED <<pageable, paged>>

Loses(s) ==
    /\ s \in Pins /\ Pins' = Pins \ {s} /\ Unreserve(s)
    /\ starts' = [starts EXCEPT ![s] = @ - 1]
    /\ UNCHANGED <<pageable, paged>>

Keeps ==
    /\ Pins' = Pins /\ UNCHANGED budgetVars
    /\ \/ UNCHANGED <<starts, pageable, paged>>
       \/ \E p \in Callers : OpenLease(p) \/ TrimDone(p)

\* Pinned storage is storage; what is pending is not registered.
LEMMA PinsType ==
  ASSUME IInv
  PROVE  /\ Pending \subseteq Storages /\ Pending \cap registered = {}
         /\ Pins \subseteq Storages
<1>1. /\ pend \in [Callers -> Seq(Storages)] /\ registered \subseteq Storages
      /\ \A p \in Callers : ToSet(pend[p]) \cap registered = {}
  BY DEF IInv, Typed, TypedManager, TypedCallers, Core, Tables, Exclusive
<1>2. \A p \in Callers : ToSet(pend[p]) \subseteq Storages
  BY <1>1, ToSetEmpty
<1>3. QED
  BY <1>1, <1>2 DEF Pending, Pins

\* A sequence that does not repeat with one more element had it not.
LEMMA AppendNew ==
  ASSUME NEW S, NEW t \in Seq(S), NEW e \in S, IsInjective(Append(t, e))
  PROVE  e \notin ToSet(t)
<1>1. /\ DOMAIN t = 1 .. Len(t) /\ DOMAIN Append(t, e) = 1 .. Len(t) + 1
      /\ \A i \in 1 .. Len(t) : Append(t, e)[i] = t[i]
      /\ Append(t, e)[Len(t) + 1] = e
      /\ Len(t) \in Nat
  BY AppendProperties
<1>2. SUFFICES ASSUME NEW i \in 1 .. Len(t), t[i] = e
               PROVE  FALSE
  BY <1>1 DEF ToSet
<1>3. Append(t, e)[i] = Append(t, e)[Len(t) + 1] /\ i # Len(t) + 1
  BY <1>1, <1>2
<1>4. i \in DOMAIN Append(t, e) /\ Len(t) + 1 \in DOMAIN Append(t, e)
  BY <1>1
<1>5. QED
  BY <1>3, <1>4 DEF IsInjective

\* Dropping a registration unpins it.
LEMMA DropLoses ==
  ASSUME IInv, NEW s \in registered, UnregisterDone(s), UNCHANGED <<pend, pageable, paged>>
  PROVE  Loses(s)
<1>1. Pending' = Pending
  BY DEF Pending
<1>2. Pins' = Pins \ {s}
  BY <1>1, PinsType DEF UnregisterDone, Pins
<1>3. QED
  BY <1>2 DEF Loses, UnregisterDone, Pins

\* No sequence, no elements.
LEMMA ToSetNone == ToSet(<<>>) = {}
BY DEF ToSet

\* The head of what a caller has pending leaves the pending storage.
LEMMA TailPending ==
  ASSUME IInv, NEW p \in Callers, pend[p] # <<>>, pend' = [pend EXCEPT ![p] = Tail(@)]
  PROVE  /\ Head(pend[p]) \in Pending /\ Head(pend[p]) \in Storages
         /\ Head(pend[p]) \notin registered
         /\ Pending' = Pending \ {Head(pend[p])}
<1>1. /\ Head(pend[p]) \in Storages /\ Head(pend[p]) \in ToSet(pend[p])
      /\ Head(pend[p]) \notin registered
      /\ ToSet(pend'[p]) = ToSet(pend[p]) \ {Head(pend[p])}
      /\ \A q \in Callers : q # p => pend'[q] = pend[q] /\ pend[q] = <<>>
  BY PendTail DEF IInv
<1>2. \A q \in Callers : q # p => ToSet(pend[q]) = {} /\ ToSet(pend'[q]) = {}
  BY <1>1, ToSetNone
<1>3. Pending = ToSet(pend[p]) /\ Pending' = ToSet(pend'[p])
  BY <1>2 DEF Pending
<1>4. QED
  BY <1>1, <1>3

\* Every step pins or unpins at most one range or copy.
LEMMA PinStep ==
  ASSUME IInv, IInv', OwnersRegistered, [Next]_vars
  PROVE  Keeps \/ \E s \in Storages : Gains(s) \/ Loses(s)
<1> USE DEF callerVars, managerVars, tableVars, leaseVars
<1>1. CASE UNCHANGED bookVars
  <2>1. Pending' = Pending
    BY <1>1 DEF bookVars, Pending
  <2>2. QED
    BY <1>1, <2>1 DEF bookVars, Keeps, Pins
<1>2. ASSUME UNCHANGED <<registered, pend, starts, pageable, paged, budgetVars>>
      PROVE  Keeps
  <2>1. Pending' = Pending
    BY <1>2 DEF Pending
  <2>2. QED
    BY <1>2, <2>1 DEF Keeps, Pins
<1>3. registered \subseteq Storages
  BY DEF IInv, Typed, TypedManager
<1>4. CASE Evicts
  <2>1. UNCHANGED <<pend, pageable, paged>>
    BY <1>4 DEF Evicts
  <2>2. PICK s \in registered : UnregisterDone(s) \/ UnregisterFailed
    BY <1>4, EvictsRegistered
  <2>3. QED
    BY <1>2, <1>3, <2>1, <2>2, DropLoses DEF UnregisterFailed
<1>5. ASSUME NEW p \in Callers, HoldNext(p) \/ FailRetire(p)
      PROVE  Keeps
  BY <1>2, <1>5 DEF HoldNext, FailRetire
<1>6. ASSUME NEW p \in Callers, OpenLease(p) \/ TrimDone(p)
      PROVE  Keeps
  <2>1. UNCHANGED <<registered, pend, budgetVars>>
    BY <1>6 DEF OpenLease, TrimDone
  <2>2. Pending' = Pending
    BY <2>1 DEF Pending
  <2>3. QED
    BY <1>6, <2>1, <2>2 DEF Keeps, Pins
<1>7. ASSUME NEW p \in Callers, SettleRegister(p)
      PROVE  Keeps
  <2> DEFINE s == Head(pend[p])
  <2>1. /\ pend[p] # <<>> /\ pend' = [pend EXCEPT ![p] = Tail(@)]
        /\ registered' = registered \cup {s}
        /\ UNCHANGED <<starts, pageable, paged, budgetVars>>
    BY <1>7 DEF SettleRegister, Offering, HeadReady
  <2>2. s \in Pending /\ Pending' = Pending \ {s}
    BY <2>1, TailPending
  <2> HIDE DEF s
  <2>3. Pins' = Pins
    BY <2>1, <2>2 DEF Pins
  <2>4. QED
    BY <2>1, <2>3 DEF Keeps
<1>8. ASSUME NEW p \in Callers, GivesUp(p)
      PROVE  \E s \in Storages : Loses(s)
  <2> DEFINE s == Head(pend[p])
  <2>1. pend[p] # <<>>
    <3>1. CASE SettleRefused(p) \/ DiscardNext(p)
      BY <3>1 DEF SettleRefused, DiscardNext, Offering, HeadReady
    <3>2. CASE RetryExhausted(p)
      BY <3>2 DEF RetryExhausted, Retrying, Settling, IInv, Core, Sections, Typed, TypedManager
    <3>3. QED
      BY <1>8, <3>1, <3>2 DEF GivesUp
  <2>2. /\ pend' = [pend EXCEPT ![p] = Tail(@)] /\ Unreserve(s) /\ UNCHANGED registered
        /\ starts' = [starts EXCEPT ![s] = @ - 1]
        /\ UNCHANGED <<pageable, paged>>
    BY <1>8 DEF GivesUp, SettleRefused, RetryExhausted, DiscardNext, EvictPending
  <2>3. s \in Pending /\ s \in Storages /\ s \notin registered /\ Pending' = Pending \ {s}
    BY <2>1, <2>2, TailPending
  <2> HIDE DEF s
  <2>4. Loses(s)
    BY <2>2, <2>3 DEF Loses, Pins
  <2>5. QED
    BY <2>3, <2>4
<1>9. ASSUME NEW p \in Callers, NEW s \in Storages, ReserveTake(p, s)
      PROVE  Gains(s)
  <2>1. /\ pend' = [pend EXCEPT ![p] = Append(@, s)] /\ Reserve(s) /\ UNCHANGED registered
        /\ starts' = [starts EXCEPT ![s] = @ + 1]
        /\ UNCHANGED <<pageable, paged>>
    BY <1>9 DEF ReserveTake
  <2>2. /\ pend[p] \in Seq(Storages) /\ pend'[p] = Append(pend[p], s)
        /\ \A q \in Callers : q # p => pend'[q] = pend[q]
    BY <2>1 DEF IInv, Typed, TypedCallers
  <2>3. /\ IsInjective(pend'[p]) /\ ToSet(pend'[p]) \cap registered' = {}
        /\ \A q \in Callers : pend'[p] # <<>> /\ pend'[q] # <<>> => p = q
    BY DEF IInv, Core, Locals, Tables, Exclusive
  <2>4. ToSet(pend'[p]) = ToSet(pend[p]) \cup {s} /\ s \notin ToSet(pend[p])
    BY <2>2, <2>3, ToSetAppend, AppendNew
  <2>5. pend'[p] # <<>>
    BY <2>4, ToSetNone
  <2>6. \A q \in Callers : q # p => pend[q] = <<>> /\ pend'[q] = <<>>
    BY <2>2, <2>3, <2>5
  <2>7. Pending' = Pending \cup {s} /\ s \notin Pending
    <3>1. \A q \in Callers : q # p => ToSet(pend[q]) = {} /\ ToSet(pend'[q]) = {}
      BY <2>6, ToSetNone
    <3>2. QED
      BY <2>4, <3>1 DEF Pending
  <2>8. QED
    BY <2>1, <2>3, <2>4, <2>7 DEF Gains, Pins
<1>10. ASSUME NEW p \in Callers, ReleaseNext(p)
       PROVE  Keeps \/ \E s \in Storages : Loses(s)
  <2> DEFINE s == Head(held[p])
  <2>1. s \in registered /\ s \in Storages
    BY <1>10, HeadHeld DEF ReleaseNext
  <2>2. UNCHANGED <<pend, pageable, paged>>
    BY <1>10 DEF ReleaseNext
  <2>3. UnregisterDone(s) \/ UNCHANGED <<registered, starts, budgetVars>>
    BY <1>10 DEF ReleaseNext
  <2> HIDE DEF s
  <2>4. QED
    BY <1>2, <2>1, <2>2, <2>3, DropLoses
<1>11. ASSUME NEW p \in Callers, NEW s \in Storages, OwnerGone(p, s)
       PROVE  Keeps \/ Loses(s)
  <2>1. s \in registered
    BY <1>11 DEF OwnerGone, OwnersRegistered
  <2>2. UNCHANGED <<pend, pageable, paged>>
    BY <1>11 DEF OwnerGone
  <2>3. UnregisterDone(s) \/ UNCHANGED <<registered, starts, budgetVars>>
    BY <1>11 DEF OwnerGone, UnregisterFailed
  <2>4. QED
    BY <1>2, <2>1, <2>2, <2>3, DropLoses
<1>12. QED
  BY <1>1, <1>4, <1>5, <1>6, <1>7, <1>8, <1>9, <1>10, <1>11, Kinds

-----------------------------------------------------------------------------
(* The pages pinned *)

\* One range more or less at its own ends.
LEMMA OneEnd ==
  ASSUME NEW R \in SUBSET Storages, NEW s \in Storages \ R, NEW g
  PROVE  /\ Cardinality(EndingAt(R, g)) \in Nat
         /\ Cardinality(EndingAt(R \cup {s}, g)) =
                Cardinality(EndingAt(R, g)) + IF g \in Boundaries(s) THEN 1 ELSE 0
<1>1. IsFiniteSet(EndingAt(R, g))
  BY StorageAssumption, FS_Subset DEF EndingAt
<1>2. Cardinality(EndingAt(R, g)) \in Nat
  BY <1>1, FS_CardinalityType
<1>3. CASE g \in Boundaries(s)
  <2>1. EndingAt(R \cup {s}, g) = EndingAt(R, g) \cup {s} /\ s \notin EndingAt(R, g)
    BY <1>3 DEF EndingAt
  <2>2. QED
    BY <1>1, <1>2, <1>3, <2>1, FS_AddElement
<1>4. CASE g \notin Boundaries(s)
  <2>1. EndingAt(R \cup {s}, g) = EndingAt(R, g)
    BY <1>4 DEF EndingAt
  <2>2. QED
    BY <1>2, <1>4, <2>1
<1>5. QED
  BY <1>3, <1>4

\* The books of a set of pins, and how they change with one pin.
Booked(P, b, n) ==
    /\ \A g \in Pages : b[g] = Cardinality(EndingAt(P \ FileBacked, g))
    /\ n = Cardinality(PagesOf(P \ FileBacked)) + Sum(SizePages, P \cap FileBacked)

\* One more pin: the books of the smaller set agree exactly when those of the larger do.
LEMMA BookOne ==
  ASSUME NEW P \in SUBSET Storages, NEW s \in Storages \ P,
         NEW b \in [Pages -> Int], NEW c \in [Pages -> Int], NEW n \in Int, NEW m \in Int,
         s \in FileBacked => c = b /\ m = n + SizePages[s],
         s \notin FileBacked =>
            /\ \A g \in Pages : c[g] = b[g] + IF g \in Boundaries(s) THEN 1 ELSE 0
            /\ m = n + PageReservation(b, s)
  PROVE  Booked(P, b, n) <=> Booked(P \cup {s}, c, m)
<1> DEFINE R == P \ FileBacked
           F == P \cap FileBacked
<1>1. R \subseteq Storages \ FileBacked /\ F \subseteq Storages /\ IsFiniteSet(F) /\ IsFiniteSet(R)
  BY StorageAssumption, FS_Subset
<1>2. /\ SizePages[s] \in Int
      /\ \A t \in F : SizePages[t] \in Int
      /\ Sum(SizePages, F) \in Int
  <2>1. \A t \in Storages : SizePages[t] \in Int
    BY StorageAssumption
  <2>2. QED
    BY <1>1, <2>1, SumType
<1>3. CASE s \in FileBacked
  <2>1. (P \cup {s}) \ FileBacked = R /\ (P \cup {s}) \cap FileBacked = F \cup {s} /\ s \notin F
    BY <1>3
  <2>2. Sum(SizePages, F \cup {s}) = Sum(SizePages, F) + SizePages[s]
    BY <1>1, <1>2, <2>1, SumAdd
  <2>3. Cardinality(PagesOf(R)) \in Nat
    BY <1>1, PagesFinite
  <2>4. c = b /\ m = n + SizePages[s]
    BY <1>3
  <2> HIDE DEF R, F
  <2>5. /\ n = Cardinality(PagesOf(R)) + Sum(SizePages, F)
           <=> m = Cardinality(PagesOf(R)) + Sum(SizePages, F \cup {s})
    BY <1>2, <2>2, <2>3, <2>4
  <2>6. QED
    BY <2>1, <2>4, <2>5 DEF Booked, R, F
<1>4. CASE s \notin FileBacked
  <2>1. (P \cup {s}) \ FileBacked = R \cup {s} /\ (P \cup {s}) \cap FileBacked = F /\ s \notin R
    BY <1>4
  <2>2. /\ \A g \in Pages : c[g] = b[g] + IF g \in Boundaries(s) THEN 1 ELSE 0
        /\ m = n + PageReservation(b, s)
    BY <1>4
  <2>3. Cardinality(PagesOf(R)) \in Nat /\ PageReservation(b, s) \in Nat
    BY <1>1, PagesFinite, NeedNat
  <2>4. R \in SUBSET Storages
    BY <1>1
  <2>5. Boundaries(s) \subseteq Pages
    BY StorageAssumption DEF Boundaries, Pages
  <2> HIDE DEF R, F
  <2>6. ASSUME NEW g \in Pages
        PROVE  b[g] = Cardinality(EndingAt(R, g)) <=> c[g] = Cardinality(EndingAt(R \cup {s}, g))
    <3>1. /\ Cardinality(EndingAt(R, g)) \in Nat
          /\ Cardinality(EndingAt(R \cup {s}, g)) =
                 Cardinality(EndingAt(R, g)) + IF g \in Boundaries(s) THEN 1 ELSE 0
      BY <2>1, <2>4, OneEnd
    <3>2. b[g] \in Int /\ c[g] = b[g] + IF g \in Boundaries(s) THEN 1 ELSE 0
      BY <2>2
    <3>3. QED
      BY <3>1, <3>2
  <2>7. ASSUME \A g \in Pages : b[g] = Cardinality(EndingAt(R, g))
        PROVE  n = Cardinality(PagesOf(R)) + Sum(SizePages, F)
               <=> m = Cardinality(PagesOf(R \cup {s})) + Sum(SizePages, F)
    <3>1. Cardinality(PagesOf(R \cup {s})) = Cardinality(PagesOf(R)) + PageReservation(b, s)
      BY <1>1, <1>4, <2>1, <2>5, <2>7, AddRange DEF R
    <3>2. QED
      BY <1>2, <2>2, <2>3, <3>1
  <2>8. QED
    BY <2>1, <2>6, <2>7 DEF Booked, R, F
<1>5. QED
  BY <1>3, <1>4

\* Reserving counts the pages of one more pin, and letting one go takes away the
\* pages that no other covers.
LEMMA PagesStep ==
  ASSUME IInv, IInv', OwnersRegistered, Booked(Pins, boundary, pinned), [Next]_vars
  PROVE  Booked(Pins, boundary, pinned)'
<1>1. /\ boundary \in [Pages -> Int] /\ boundary' \in [Pages -> Int]
      /\ pinned \in Int /\ pinned' \in Int
  BY DEF IInv, Typed, TypedManager
<1>2. Pins \subseteq Storages
  BY PinsType
<1>3. CASE Keeps
  BY <1>3 DEF Keeps, budgetVars, Booked
<1>4. ASSUME NEW s \in Storages, Gains(s)
      PROVE  Booked(Pins, boundary, pinned)'
  <2>1. s \notin Pins /\ Pins' = Pins \cup {s} /\ Reserve(s)
    BY <1>4 DEF Gains
  <2>2. s \in FileBacked => boundary' = boundary /\ pinned' = pinned + SizePages[s]
    BY <2>1 DEF Reserve, Need
  <2>3. s \notin FileBacked =>
           /\ \A g \in Pages : boundary'[g] = boundary[g] + IF g \in Boundaries(s) THEN 1 ELSE 0
           /\ pinned' = pinned + PageReservation(boundary, s)
    BY <2>1 DEF Reserve, Need
  <2>4. Booked(Pins \cup {s}, boundary', pinned')
    BY <1>1, <1>2, <2>1, <2>2, <2>3, BookOne
  <2>5. QED
    BY <2>1, <2>4
<1>5. ASSUME NEW s \in Storages, Loses(s)
      PROVE  Booked(Pins, boundary, pinned)'
  <2>1. s \in Pins /\ Pins' = Pins \ {s} /\ Unreserve(s)
    BY <1>5 DEF Loses
  <2>2. SizePages[s] \in Int /\ PageReservation(boundary', s) \in Nat
    BY StorageAssumption, NeedNat
  <2>3. s \in FileBacked => boundary = boundary' /\ pinned = pinned' + SizePages[s]
    BY <1>1, <2>1, <2>2 DEF Unreserve
  <2>4. s \notin FileBacked =>
           /\ \A g \in Pages : boundary[g] = boundary'[g] + IF g \in Boundaries(s) THEN 1 ELSE 0
           /\ pinned = pinned' + PageReservation(boundary', s)
    <3>1. ASSUME s \notin FileBacked
          PROVE  /\ boundary' = [g \in Pages |-> boundary[g] - IF g \in Boundaries(s) THEN 1 ELSE 0]
                 /\ pinned' = pinned - PageReservation(boundary', s)
      BY <2>1, <3>1 DEF Unreserve
    <3>2. QED
      BY <1>1, <2>2, <3>1
  <2>5. Pins = Pins' \cup {s} /\ s \in Storages \ Pins'
    BY <2>1
  <2>6. Booked(Pins' \cup {s}, boundary, pinned) => Booked(Pins', boundary', pinned')
    BY <1>1, <1>2, <2>3, <2>4, <2>5, BookOne
  <2>7. QED
    BY <2>5, <2>6
<1>6. QED
  BY <1>3, <1>4, <1>5, PinStep

-----------------------------------------------------------------------------
(* The table of starts *)

\* Pageable leases are counted, and a caller has some only while its lease is open.
PageableCounted ==
    /\ \A s \in Storages : pageable[s] = Cardinality({p \in Callers : s \in paged[p]})
    /\ \A p \in Callers : paged[p] # {} => pc[p] \in {"leased", "release", "trim"}

\* A set of callers with one more, or one less.
LEMMA OneCaller ==
  ASSUME NEW C \in SUBSET Callers, NEW p \in Callers
  PROVE  /\ Cardinality(C) \in Nat
         /\ p \notin C => Cardinality(C \cup {p}) = Cardinality(C) + 1
         /\ p \in C => Cardinality(C \ {p}) = Cardinality(C) - 1
         /\ p \in C => Cardinality(C) > 0
<1>1. IsFiniteSet(C)
  BY CallerAssumption, FS_Subset
<1>2. Cardinality(C) \in Nat
  BY <1>1, FS_CardinalityType
<1>3. p \in C => Cardinality(C) # 0
  BY <1>1, FS_EmptySet
<1>4. p \notin C => Cardinality(C \cup {p}) = Cardinality(C) + 1
  BY <1>1, FS_AddElement
<1>5. p \in C => Cardinality(C \ {p}) = Cardinality(C) - 1
  BY <1>1, FS_RemoveElement
<1>6. QED
  BY <1>2, <1>3, <1>4, <1>5

\* Opening a lease counts one pageable lease of what it does not hold, and closing
\* it counts them out.
LEMMA PageableStep ==
  ASSUME IInv, PageableCounted, [Next]_vars
  PROVE  PageableCounted'
<1> USE DEF vars, managerVars, callerVars, loopVars, askVars, leaseVars, Goto, Enter, Leave, Inside
<1> DEFINE Open == {"leased", "release", "trim"}
<1>1. /\ TypedManager /\ TypedCallers /\ Sections
      /\ \A s \in Storages : pageable[s] = Cardinality({p \in Callers : s \in paged[p]})
      /\ \A p \in Callers : paged[p] # {} => pc[p] \in Open
  BY DEF IInv, Typed, Core, PageableCounted
<1>2. ASSUME UNCHANGED <<pageable, paged>>,
             \A p \in Callers : pc'[p] = pc[p] \/ pc[p] \notin Open \/ pc'[p] \in Open
      PROVE  PageableCounted'
  BY <1>1, <1>2 DEF PageableCounted
<1>3. ASSUME NEW p \in Callers, OpenLease(p)
      PROVE  PageableCounted'
  <2> DEFINE rest == Asked(p) \ Held(p)
  <2>1. /\ pc[p] = "open" /\ paged' = [paged EXCEPT ![p] = rest]
        /\ pageable' = [s \in Storages |-> pageable[s] + IF s \in rest THEN 1 ELSE 0]
        /\ pc' = [pc EXCEPT ![p] = "leased"]
    BY <1>3 DEF OpenLease
  <2> HIDE DEF rest
  <2>2. paged[p] = {}
    BY <1>1, <2>1
  <2>3. /\ \A q \in Callers : paged'[q] = IF q = p THEN rest ELSE paged[q]
        /\ \A q \in Callers : pc'[q] = IF q = p THEN "leased" ELSE pc[q]
    BY <1>1, <2>1 DEF TypedCallers
  <2>4. ASSUME NEW s \in Storages
        PROVE  pageable'[s] = Cardinality({q \in Callers : s \in paged'[q]})
    <3> DEFINE C == {q \in Callers : s \in paged[q]}
               D == {q \in Callers : s \in paged'[q]}
    <3>1. C \in SUBSET Callers /\ p \notin C /\ pageable[s] = Cardinality(C)
      BY <1>1, <2>2
    <3>2. D = IF s \in rest THEN C \cup {p} ELSE C
      BY <2>2, <2>3
    <3>3. pageable'[s] = pageable[s] + IF s \in rest THEN 1 ELSE 0
      BY <2>1
    <3> HIDE DEF C, D
    <3>4. Cardinality(C) \in Nat /\ Cardinality(C \cup {p}) = Cardinality(C) + 1
      BY <3>1, OneCaller
    <3>5. pageable'[s] = Cardinality(D)
      BY <3>1, <3>2, <3>3, <3>4
    <3>6. QED
      BY <3>5 DEF D
  <2>5. QED
    BY <1>1, <2>3, <2>4 DEF PageableCounted
<1>4. ASSUME NEW p \in Callers, TrimDone(p)
      PROVE  PageableCounted'
  <2>1. /\ paged' = [paged EXCEPT ![p] = {}]
        /\ pageable' = [s \in Storages |-> pageable[s] - IF s \in paged[p] THEN 1 ELSE 0]
        /\ pc' = [pc EXCEPT ![p] = "free"]
    BY <1>4 DEF TrimDone
  <2>2. /\ \A q \in Callers : paged'[q] = IF q = p THEN {} ELSE paged[q]
        /\ \A q \in Callers : q # p => pc'[q] = pc[q]
    BY <1>1, <2>1 DEF TypedCallers
  <2>3. ASSUME NEW s \in Storages
        PROVE  pageable'[s] = Cardinality({q \in Callers : s \in paged'[q]})
    <3> DEFINE C == {q \in Callers : s \in paged[q]}
               D == {q \in Callers : s \in paged'[q]}
    <3>1. C \in SUBSET Callers /\ pageable[s] = Cardinality(C) /\ (p \in C <=> s \in paged[p])
      BY <1>1
    <3>2. D = IF s \in paged[p] THEN C \ {p} ELSE C
      BY <2>2
    <3>3. pageable'[s] = pageable[s] - IF s \in paged[p] THEN 1 ELSE 0
      BY <2>1
    <3> HIDE DEF C, D
    <3>4. /\ Cardinality(C) \in Nat
          /\ s \in paged[p] => Cardinality(C \ {p}) = Cardinality(C) - 1
      BY <3>1, OneCaller
    <3>5. pageable'[s] = Cardinality(D)
      BY <3>1, <3>2, <3>3, <3>4
    <3>6. QED
      BY <3>5 DEF D
  <2>4. QED
    BY <1>1, <2>2, <2>3 DEF PageableCounted
<1>5. ASSUME NEW p \in Callers, Progress(p)
      PROVE  PageableCounted'
  <2>1. CASE \E s \in Storages : ReserveEvict(p, s) \/ ReserveTake(p, s) \/ ReserveSkip(p, s)
    BY <1>2, <2>1 DEF ReserveEvict, ReserveTake, ReserveSkip
  <2>2. CASE RetryEvict(p) \/ TrimEvict(p) \/ ClearNext(p)
    BY <1>2, <2>2 DEF RetryEvict, TrimEvict, ClearNext
  <2>3. CASE Admit(p) \/ HoldNext(p) \/ HoldDone(p) \/ ReserveDone(p)
    BY <1>1, <1>2, <2>3 DEF Admit, HoldNext, HoldDone, ReserveDone, TypedCallers
  <2>4. CASE FillFirst(p) \/ FillRest(p) \/ FillRaises(p) \/ TakeLock(p)
    BY <1>1, <1>2, <2>4 DEF FillFirst, FillRest, FillRaises, TakeLock, TypedCallers
  <2>5. CASE SettleStop(p) \/ SettleNoCapacity(p) \/ SettleRaises(p) \/ RetryAgain(p)
    BY <1>1, <1>2, <2>5
    DEF SettleStop, SettleNoCapacity, SettleRaises, RetryAgain, Settling, Offering, Retrying, TypedCallers
  <2>6. CASE GivesUp(p) \/ SettleRegister(p)
    BY <1>1, <1>2, <2>6
    DEF GivesUp, SettleRefused, RetryExhausted, DiscardNext, SettleRegister, Settling, Offering,
        Retrying, TypedCallers
  <2>7. CASE ReleaseNext(p) \/ ReleaseDone(p) \/ ClearDone(p) \/ FailRetire(p)
    BY <1>1, <1>2, <2>7 DEF ReleaseNext, ReleaseDone, ClearDone, FailRetire, TypedCallers
  <2>8. QED
    BY <1>3, <1>4, <1>5, <2>1, <2>2, <2>3, <2>4, <2>5, <2>6, <2>7 DEF Progress, GivesUp
<1>6. ASSUME NEW p \in Callers, Choice(p)
      PROVE  PageableCounted'
  BY <1>1, <1>2, <1>6
  DEF Choice, CallAcquire, CloseLease, SetBudget, Clear, StartTransfer, EndTransfers, TypedCallers
<1>7. CASE (\E p \in Callers, s \in Storages : OwnerGone(p, s)) \/ Rest \/ UNCHANGED vars
  BY <1>2, <1>7 DEF OwnerGone, Rest
<1>8. QED
  BY <1>5, <1>6, <1>7 DEF Next

\* A range enters the table when it is first pinned and when it is first leased
\* pageable, and leaves it as often.
LEMMA StartsStep ==
  ASSUME IInv, IInv', OwnersRegistered, PageableCounted, StartsMatch, [Next]_vars
  PROVE  StartsMatch'
<1>1. /\ starts \in [Storages -> Int] /\ pageable \in [Storages -> Int]
      /\ \A s \in Storages :
            starts[s] = (IF s \in Pins THEN 1 ELSE 0) + (IF pageable[s] > 0 THEN 1 ELSE 0)
      /\ paged \in [Callers -> SUBSET Storages]
  BY DEF StartsMatch, Pins, IInv, Typed, TypedManager, TypedCallers
<1>2. SUFFICES \A s \in Storages :
                  starts'[s] = (IF s \in Pins' THEN 1 ELSE 0) + (IF pageable'[s] > 0 THEN 1 ELSE 0)
  BY DEF StartsMatch, Pins
<1>3. ASSUME NEW t \in Storages, Gains(t)
      PROVE  \A s \in Storages :
                starts'[s] = (IF s \in Pins' THEN 1 ELSE 0) + (IF pageable'[s] > 0 THEN 1 ELSE 0)
  BY <1>1, <1>3 DEF Gains
<1>4. ASSUME NEW t \in Storages, Loses(t)
      PROVE  \A s \in Storages :
                starts'[s] = (IF s \in Pins' THEN 1 ELSE 0) + (IF pageable'[s] > 0 THEN 1 ELSE 0)
  BY <1>1, <1>4 DEF Loses
<1>5. CASE Keeps
  <2>1. Pins' = Pins
    BY <1>5 DEF Keeps
  <2>2. CASE UNCHANGED <<starts, pageable, paged>>
    BY <1>1, <2>1, <2>2
  <2>3. ASSUME NEW p \in Callers, OpenLease(p), NEW s \in Storages
        PROVE  starts'[s] = (IF s \in Pins' THEN 1 ELSE 0) + (IF pageable'[s] > 0 THEN 1 ELSE 0)
    <3> DEFINE new == s \in Asked(p) \ Held(p)
    <3>1. /\ pageable'[s] = pageable[s] + IF new THEN 1 ELSE 0
          /\ starts'[s] = starts[s] + IF new /\ pageable[s] = 0 THEN 1 ELSE 0
      BY <2>3 DEF OpenLease
    <3>2. pageable[s] \in Nat
      <4>1. {q \in Callers : s \in paged[q]} \in SUBSET Callers
        OBVIOUS
      <4>2. QED
        BY <2>3, <4>1, OneCaller DEF PageableCounted
    <3> HIDE DEF new
    <3>3. QED
      BY <1>1, <2>1, <3>1, <3>2
  <2>4. ASSUME NEW p \in Callers, TrimDone(p), NEW s \in Storages
        PROVE  starts'[s] = (IF s \in Pins' THEN 1 ELSE 0) + (IF pageable'[s] > 0 THEN 1 ELSE 0)
    <3> DEFINE C == {q \in Callers : s \in paged[q]}
               mine == s \in paged[p]
    <3>1. /\ pageable'[s] = pageable[s] - IF mine THEN 1 ELSE 0
          /\ starts'[s] = starts[s] - IF mine /\ pageable[s] = 1 THEN 1 ELSE 0
      BY <2>4 DEF TrimDone
    <3>2. /\ C \in SUBSET Callers /\ pageable[s] = Cardinality(C) /\ (p \in C <=> mine)
      BY <2>4 DEF PageableCounted
    <3> HIDE DEF C, mine
    <3>3. pageable[s] \in Nat /\ (mine => pageable[s] > 0)
      BY <2>4, <3>2, OneCaller
    <3>4. QED
      BY <1>1, <2>1, <3>1, <3>3
  <2>5. QED
    BY <1>5, <2>2, <2>3, <2>4 DEF Keeps
<1>6. QED
  BY <1>3, <1>4, <1>5, PinStep

-----------------------------------------------------------------------------
(* The budget *)

\* The lock holder is in a loop that goes through the idle registrations.
Evicting(p) ==
    \/ pc[p] = "reserve" /\ at[p] <= Len(req[p])
    \/ pc[p] \in {"trim", "clear"}
    \/ pc[p] \in {"early", "final"} /\ mark # -1

\* Only such a loop has been through any; and what it has been through is gone,
\* unless an unregistration failed.
TriedByLoop ==
    /\ tried # {} => lock \in Callers /\ Evicting(lock)
    /\ failures = 0 => tried \cap Idle = {}

Closing == {"release", "trim"}

\* OverBudgetOnlyLeased at every step, not only between sections: a lease that is
\* being closed has its trailing _fit(0) before it.
Trimmed ==
    failures = 0 /\ ~Fits(0) => Idle = {} \/ (lock \in Callers /\ pc[lock] \in Closing)

\* Unregistering takes a range out of the LRU and adds no page.
LEMMA DropShrinks ==
  ASSUME IInv, NEW s \in Storages, UnregisterDone(s)
  PROVE  Idle' = Idle \ {s} /\ pinned' <= pinned
<1>1. idle \in Seq(Storages) /\ IsInjective(idle)
  BY DEF IInv, Typed, TypedManager, Core, Tables, IdleIsUnleased
<1>2. Idle' = Idle \ {s}
  BY <1>1, ToSetRemoveFirst DEF UnregisterDone, Unidle, Idle
<1>3. pinned \in Int /\ SizePages[s] \in Nat /\ PageReservation(boundary', s) \in Nat
  BY NeedNat, StorageAssumption DEF IInv, Typed, TypedManager
<1>4. QED
  BY <1>2, <1>3 DEF UnregisterDone, Unreserve

\* Giving up what is pending adds no page either.
LEMMA GivesUpShrinks ==
  ASSUME IInv, NEW p \in Callers, GivesUp(p)
  PROVE  pinned' <= pinned
<1>1. Unreserve(Head(pend[p])) /\ pend[p] # <<>>
  BY DEF GivesUp, SettleRefused, RetryExhausted, DiscardNext, EvictPending, Offering, HeadReady,
         Retrying, Settling, IInv, Core, Sections, Typed, TypedManager
<1>2. Head(pend[p]) \in Storages
  BY <1>1, HeadTailProperties DEF IInv, Typed, TypedCallers
<1>3. /\ pinned \in Int /\ SizePages[Head(pend[p])] \in Nat
      /\ PageReservation(boundary', Head(pend[p])) \in Nat
  BY <1>2, NeedNat, StorageAssumption DEF IInv, Typed, TypedManager
<1>4. QED
  BY <1>1, <1>3 DEF Unreserve

\* No step but a release makes anything idle, and failures are never forgotten.
LEMMA IdleShrinks ==
  ASSUME IInv, [Next]_vars, \A p \in Callers : ~ReleaseNext(p)
  PROVE  Idle' \subseteq Idle /\ (failures' = 0 => failures = 0)
<1>1. /\ failures \in Nat /\ idle \in Seq(Storages) /\ IsInjective(idle) /\ req \in [Callers -> Seq(Storages)]
      /\ at \in [Callers -> Nat \ {0}]
  BY DEF IInv, Typed, TypedManager, TypedCallers, Core, Tables, IdleIsUnleased
<1>2. ASSUME NEW s \in Storages, UnregisterDone(s)
      PROVE  Idle' \subseteq Idle /\ (failures' = 0 => failures = 0)
  BY <1>2, DropShrinks DEF UnregisterDone
<1>3. ASSUME UNCHANGED <<idle, failures>>
      PROVE  Idle' \subseteq Idle /\ (failures' = 0 => failures = 0)
  BY <1>3 DEF Idle
<1>4. ASSUME UnregisterFailed
      PROVE  Idle' \subseteq Idle /\ (failures' = 0 => failures = 0)
  BY <1>1, <1>4 DEF UnregisterFailed, Idle
<1>5. CASE UNCHANGED bookVars
  BY <1>3, <1>5 DEF bookVars, tableVars
<1>6. CASE Evicts
  BY <1>2, <1>4, <1>6, EvictsRegistered
<1>7. ASSUME NEW p \in Callers,
             \/ SettleRegister(p) \/ GivesUp(p) \/ OpenLease(p) \/ FailRetire(p) \/ TrimDone(p)
             \/ \E s \in Storages : ReserveTake(p, s)
      PROVE  Idle' \subseteq Idle /\ (failures' = 0 => failures = 0)
  BY <1>3, <1>7 DEF SettleRegister, GivesUp, SettleRefused, RetryExhausted, DiscardNext, EvictPending,
                    OpenLease, FailRetire, TrimDone, ReserveTake
<1>8. ASSUME NEW p \in Callers, HoldNext(p)
      PROVE  Idle' \subseteq Idle /\ (failures' = 0 => failures = 0)
  <2>1. UNCHANGED failures /\ (UNCHANGED idle \/ idle' = RemoveFirst(idle, req[p][at[p]]))
    BY <1>8 DEF HoldNext, Unidle
  <2>2. ToSet(RemoveFirst(idle, req[p][at[p]])) = ToSet(idle) \ {req[p][at[p]]}
    BY <1>1, ToSetRemoveFirst
  <2>3. QED
    BY <1>3, <2>1, <2>2 DEF Idle
<1>9. ASSUME NEW p \in Callers, NEW s \in Storages, OwnerGone(p, s)
      PROVE  Idle' \subseteq Idle /\ (failures' = 0 => failures = 0)
  <2>1. UnregisterDone(s) \/ UnregisterFailed \/ UNCHANGED <<idle, failures>>
    BY <1>9 DEF OwnerGone
  <2>2. QED
    BY <1>2, <1>3, <1>4, <2>1
<1>10. QED
  BY <1>5, <1>6, <1>7, <1>8, <1>9, Kinds

\* Only an eviction adds to `tried`.
LEMMA TriedKinds ==
  ASSUME [Next]_vars
  PROVE  Evicts \/ tried' = {} \/ UNCHANGED tried
<1> USE DEF vars, managerVars, callerVars, loopVars, leaseVars, Evicts
<1>1. ASSUME NEW p \in Callers, Progress(p)
      PROVE  Evicts \/ tried' = {} \/ UNCHANGED tried
  <2>1. CASE \E s \in Storages : ReserveEvict(p, s)
    BY <2>1 DEF ReserveEvict
  <2>2. CASE RetryEvict(p) \/ TrimEvict(p) \/ ClearNext(p)
    BY <2>2 DEF RetryEvict, TrimEvict, ClearNext
  <2>3. CASE \E s \in Storages : ReserveTake(p, s) \/ ReserveSkip(p, s)
    BY <2>3 DEF ReserveTake, ReserveSkip
  <2>4. CASE RetryAgain(p) \/ RetryExhausted(p) \/ TrimDone(p) \/ ClearDone(p)
    BY <2>4 DEF RetryAgain, RetryExhausted, TrimDone, ClearDone
  <2>5. CASE \/ Admit(p) \/ HoldNext(p) \/ HoldDone(p) \/ ReserveDone(p)
             \/ FillFirst(p) \/ FillRest(p) \/ FillRaises(p) \/ TakeLock(p)
    BY <2>5 DEF Admit, HoldNext, HoldDone, ReserveDone, FillFirst, FillRest, FillRaises, TakeLock
  <2>6. CASE \/ SettleStop(p) \/ SettleRefused(p) \/ SettleRegister(p) \/ SettleNoCapacity(p)
             \/ SettleRaises(p) \/ DiscardNext(p) \/ OpenLease(p) \/ FailRetire(p)
             \/ ReleaseNext(p) \/ ReleaseDone(p)
    BY <2>6 DEF SettleStop, SettleRefused, SettleRegister, SettleNoCapacity, SettleRaises,
                DiscardNext, OpenLease, FailRetire, ReleaseNext, ReleaseDone
  <2>7. QED
    BY <1>1, <2>1, <2>2, <2>3, <2>4, <2>5, <2>6 DEF Progress
<1>2. ASSUME NEW p \in Callers, Choice(p)
      PROVE  UNCHANGED tried
  BY <1>2 DEF Choice, CallAcquire, CloseLease, SetBudget, Clear, StartTransfer, EndTransfers
<1>3. CASE (\E p \in Callers, s \in Storages : OwnerGone(p, s)) \/ Rest \/ UNCHANGED vars
  BY <1>3 DEF OwnerGone, Rest
<1>4. QED
  BY <1>1, <1>2, <1>3 DEF Next

\* The loops empty `tried` when they end, so that a later one starts afresh.
LEMMA TriedStep ==
  ASSUME IInv, TriedByLoop, [Next]_vars
  PROVE  TriedByLoop'
<1> USE DEF vars, managerVars, callerVars, loopVars, askVars, leaseVars, Goto, Enter, Leave, Inside
<1>1. /\ TypedManager /\ TypedCallers /\ Nobody \notin Callers
      /\ tried # {} => lock \in Callers /\ Evicting(lock)
      /\ failures = 0 => tried \cap Idle = {}
  BY CallerAssumption DEF IInv, Typed, TriedByLoop
<1>2. tried' # {} => lock' \in Callers /\ Evicting(lock)'
  <2>1. ASSUME tried' \subseteq tried,
               tried # {} /\ lock \in Callers /\ Evicting(lock) =>
                  /\ lock' = lock
                  /\ UNCHANGED <<mark, pc[lock], at[lock], req[lock]>>
        PROVE  tried' # {} => lock' \in Callers /\ Evicting(lock)'
    BY <1>1, <2>1 DEF Evicting
  <2>2. ASSUME NEW p \in Callers, lock = p, Evicting(p), UNCHANGED <<lock, mark, pc, at, req>>
        PROVE  lock' \in Callers /\ Evicting(lock)'
    BY <2>2 DEF Evicting
  <2>3. ASSUME NEW p \in Callers, Progress(p)
        PROVE  tried' # {} => lock' \in Callers /\ Evicting(lock)'
    <3>1. CASE \E s \in Storages : ReserveEvict(p, s)
      BY <2>2, <3>1 DEF ReserveEvict, Reserving, Evicting
    <3>2. CASE RetryEvict(p) \/ TrimEvict(p) \/ ClearNext(p)
      BY <2>2, <3>2 DEF RetryEvict, Retrying, Settling, TrimEvict, ClearNext, Evicting
    <3>3. CASE \E s \in Storages : ReserveTake(p, s) \/ ReserveSkip(p, s)
      BY <3>3 DEF ReserveTake, ReserveSkip
    <3>4. CASE RetryAgain(p) \/ RetryExhausted(p) \/ TrimDone(p) \/ ClearDone(p)
      BY <3>4 DEF RetryAgain, RetryExhausted, TrimDone, ClearDone
    <3>5. CASE ReserveDone(p)
      <4>1. lock = p /\ pc[p] = "reserve" /\ ~(at[p] <= Len(req[p])) /\ UNCHANGED tried
        <5>1. at[p] \in Nat /\ Len(req[p]) \in Nat
          BY <1>1 DEF TypedCallers
        <5>2. QED
          BY <3>5, <5>1 DEF ReserveDone
      <4>2. QED
        BY <1>1, <4>1 DEF Evicting
    <3>6. CASE Admit(p) \/ TakeLock(p)
      BY <1>1, <3>6 DEF Admit, TakeLock
    <3>7. CASE HoldNext(p) \/ HoldDone(p)
      BY <1>1, <3>7 DEF HoldNext, HoldDone, Evicting
    <3>8. CASE FillFirst(p) \/ FillRest(p) \/ FillRaises(p)
      BY <1>1, <2>1, <3>8 DEF FillFirst, FillRest, FillRaises, Evicting, TypedCallers
    <3>9. CASE SettleStop(p) \/ SettleRefused(p) \/ SettleRegister(p) \/ SettleNoCapacity(p) \/ SettleRaises(p)
      BY <1>1, <3>9 DEF SettleStop, SettleRefused, SettleRegister, SettleNoCapacity, SettleRaises,
                        Settling, Offering, Evicting
    <3>10. CASE DiscardNext(p) \/ OpenLease(p) \/ FailRetire(p) \/ ReleaseNext(p) \/ ReleaseDone(p)
      BY <1>1, <3>10 DEF DiscardNext, OpenLease, FailRetire, ReleaseNext, ReleaseDone, Evicting
    <3>11. QED
      BY <2>3, <3>1, <3>2, <3>3, <3>4, <3>5, <3>6, <3>7, <3>8, <3>9, <3>10 DEF Progress
  <2>4. ASSUME NEW p \in Callers, Choice(p)
        PROVE  tried' # {} => lock' \in Callers /\ Evicting(lock)'
    <3>1. CASE CloseLease(p) \/ SetBudget(p) \/ Clear(p)
      BY <1>1, <3>1 DEF CloseLease, SetBudget, Clear
    <3>2. CASE CallAcquire(p)
      BY <1>1, <2>1, <3>2 DEF CallAcquire, Evicting, TypedCallers
    <3>3. CASE (\E s \in Storages : StartTransfer(p, s)) \/ EndTransfers(p)
      BY <2>1, <3>3 DEF StartTransfer, EndTransfers
    <3>4. QED
      BY <2>4, <3>1, <3>2, <3>3 DEF Choice
  <2>5. CASE (\E p \in Callers, s \in Storages : OwnerGone(p, s)) \/ Rest \/ UNCHANGED vars
    BY <2>1, <2>5 DEF OwnerGone, Rest
  <2>6. QED
    BY <2>3, <2>4, <2>5 DEF Next
<1>3. failures' = 0 => tried' \cap Idle' = {}
  <2>1. CASE Evicts
    <3>1. PICK s \in Storages : tried' = tried \cup {s} /\ (UnregisterDone(s) \/ UnregisterFailed)
      BY <2>1, EvictsRegistered
    <3>2. CASE UnregisterDone(s)
      BY <1>1, <3>1, <3>2, DropShrinks DEF UnregisterDone
    <3>3. CASE UnregisterFailed
      BY <1>1, <3>3 DEF UnregisterFailed, TypedManager
    <3>4. QED
      BY <3>1, <3>2, <3>3
  <2>2. ASSUME NEW p \in Callers, ReleaseNext(p)
        PROVE  tried' = {}
    BY <1>1, <2>2 DEF ReleaseNext, Evicting
  <2>3. CASE ~Evicts /\ \A p \in Callers : ~ReleaseNext(p)
    <3>1. tried' \subseteq tried
      BY <2>3, TriedKinds
    <3>2. QED
      BY <1>1, <2>3, <3>1, IdleShrinks
  <2>4. QED
    BY <2>1, <2>2, <2>3
<1>4. QED
  BY <1>2, <1>3 DEF TriedByLoop

\* Whatever makes storage idle or lowers the budget trims before it lets the lock
\* go, and the trim stops only within the budget or with nothing idle.
LEMMA TrimmedStep ==
  ASSUME IInv, TriedByLoop, Trimmed, [Next]_vars
  PROVE  Trimmed'
<1> USE DEF vars, managerVars, callerVars, loopVars, askVars, leaseVars, Goto, Enter, Leave, Inside
<1>1. /\ TypedManager /\ TypedCallers /\ Nobody \notin Callers /\ pinned \in Int /\ failures \in Nat
      /\ failures = 0 => tried \cap Idle = {}
      /\ failures = 0 /\ ~Fits(0) => Idle = {} \/ (lock \in Callers /\ pc[lock] \in Closing)
  BY CallerAssumption DEF IInv, Typed, TypedManager, TriedByLoop, Trimmed
<1>2. ASSUME Idle' \subseteq Idle, failures' = 0 => failures = 0, ~Fits(0)' => ~Fits(0),
             lock \in Callers /\ pc[lock] \in Closing => lock' = lock /\ pc'[lock] \in Closing
      PROVE  Trimmed'
  BY <1>1, <1>2 DEF Trimmed
<1>3. ASSUME pinned' <= pinned, pinned' \in Int, budget' = budget
      PROVE  ~Fits(0)' => ~Fits(0)
  <2>1. budget = Unlimited \/ budget \in Nat
    BY <1>1, CallerAssumption DEF TypedManager
  <2>2. QED
    BY <1>1, <1>3, <2>1 DEF Fits, Within
<1>4. ASSUME NEW p \in Callers, lock' = p, pc'[p] \in Closing
      PROVE  Trimmed'
  BY <1>4 DEF Trimmed
<1>5. ASSUME UNCHANGED <<idle, failures, pinned, budget>>,
             lock \in Callers /\ pc[lock] \in Closing => lock' = lock /\ pc'[lock] \in Closing
      PROVE  Trimmed'
  BY <1>2, <1>5 DEF Idle, Fits, Within
<1>6. CASE Evicts
  <2>1. PICK s \in Storages : UnregisterDone(s) \/ UnregisterFailed
    BY <1>6, EvictsRegistered
  <2>2. CASE UnregisterDone(s)
    <3>1. Idle' = Idle \ {s} /\ pinned' <= pinned /\ pinned' \in Int /\ UNCHANGED failures
      BY <2>2, DropShrinks, TypedStep DEF UnregisterDone, Typed, TypedManager
    <3>2. QED
      BY <1>2, <1>3, <1>6, <3>1 DEF Evicts
  <2>3. CASE UnregisterFailed
    BY <1>1, <2>3 DEF UnregisterFailed, Trimmed
  <2>4. QED
    BY <2>1, <2>2, <2>3
<1>7. ASSUME NEW p \in Callers, Progress(p), ~Evicts
      PROVE  Trimmed'
  <2>1. CASE \E s \in Storages : ReserveTake(p, s)
    <3>1. PICK s \in Storages : ReserveTake(p, s)
      BY <2>1
    <3>2. Fits(Need(s)) /\ pinned' = pinned + Need(s) /\ budget' = budget
      BY <3>1 DEF ReserveTake, Reserve
    <3>3. Need(s) \in Int
      BY NeedNat, StorageAssumption DEF Need
    <3>4. Fits(0)'
      BY <1>1, <3>2, <3>3 DEF Fits, Within
    <3>5. QED
      BY <3>4 DEF Trimmed
  <2>2. CASE TrimDone(p)
    <3>1. UNCHANGED <<idle, failures, pinned, budget>> /\ TrimOver
      BY <2>2 DEF TrimDone, budgetVars
    <3>2. Idle' = Idle /\ Fits(0)' = Fits(0)
      BY <3>1 DEF Idle, Fits, Within
    <3>3. CASE Fits(0)
      BY <3>2, <3>3 DEF Trimmed
    <3>4. CASE Candidates = {}
      <4>1. Idle \subseteq tried
        BY <3>4 DEF Candidates, Idle, ToSet
      <4>2. QED
        BY <1>1, <3>1, <3>2, <4>1 DEF Trimmed
    <3>5. QED
      BY <3>1, <3>3, <3>4 DEF TrimOver
  <2>3. CASE ReleaseNext(p) \/ ReleaseDone(p) \/ FailRetire(p)
    BY <1>1, <1>4, <2>3 DEF ReleaseNext, ReleaseDone, FailRetire, TypedCallers, Closing
  <2>4. CASE GivesUp(p)
    <3>1. pinned' <= pinned
      BY <2>4, GivesUpShrinks
    <3>2. pinned' \in Int
      BY TypedStep DEF Typed, TypedManager
    <3>3. UNCHANGED <<idle, failures, budget>> /\ lock = p /\ pc[p] \notin Closing
      BY <2>4 DEF GivesUp, SettleRefused, RetryExhausted, DiscardNext, EvictPending, Offering,
                  Retrying, Settling, Closing
    <3>4. QED
      BY <1>2, <1>3, <3>1, <3>2, <3>3 DEF Idle
  <2>5. CASE HoldNext(p)
    <3>1. \A q \in Callers : ~ReleaseNext(q)
      BY <1>1, <2>5 DEF HoldNext, ReleaseNext
    <3>2. Idle' \subseteq Idle
      BY <3>1, IdleShrinks
    <3>3. UNCHANGED <<failures, pinned, budget, lock, pc>>
      BY <2>5 DEF HoldNext, budgetVars
    <3>4. QED
      BY <1>2, <3>2, <3>3 DEF Fits, Within
  <2>6. CASE \E s \in Storages : ReserveSkip(p, s)
    BY <1>5, <2>6 DEF ReserveSkip, tableVars, budgetVars
  <2>7. CASE Admit(p) \/ HoldDone(p) \/ ReserveDone(p) \/ TakeLock(p)
    BY <1>1, <1>5, <2>7 DEF Admit, HoldDone, ReserveDone, TakeLock, tableVars, budgetVars, Closing
  <2>8. CASE FillFirst(p) \/ FillRest(p) \/ FillRaises(p)
    BY <1>1, <1>5, <2>8 DEF FillFirst, FillRest, FillRaises, tableVars, budgetVars, Closing, TypedCallers
  <2>9. CASE SettleStop(p) \/ SettleRegister(p) \/ SettleNoCapacity(p) \/ SettleRaises(p) \/ RetryAgain(p)
    BY <1>1, <1>5, <2>9 DEF SettleStop, SettleRegister, SettleNoCapacity, SettleRaises, RetryAgain,
                            Settling, Offering, Retrying, tableVars, budgetVars, Closing
  <2>10. CASE OpenLease(p) \/ ClearDone(p)
    BY <1>1, <1>5, <2>10 DEF OpenLease, ClearDone, tableVars, budgetVars, Closing
  <2>11. CASE RetryEvict(p) \/ TrimEvict(p) \/ ClearNext(p) \/ \E s \in Storages : ReserveEvict(p, s)
    BY <1>7, <2>11 DEF RetryEvict, TrimEvict, ClearNext, ReserveEvict, Evicts
  <2>12. QED
    BY <1>7, <2>1, <2>2, <2>3, <2>4, <2>5, <2>6, <2>7, <2>8, <2>9, <2>10, <2>11 DEF Progress, GivesUp
<1>8. ASSUME NEW p \in Callers, Choice(p)
      PROVE  Trimmed'
  <2>1. CASE CloseLease(p) \/ SetBudget(p)
    BY <1>1, <1>4, <2>1 DEF CloseLease, SetBudget, TypedCallers, Closing
  <2>2. CASE Clear(p)
    BY <1>1, <1>5, <2>2 DEF Clear, tableVars, budgetVars
  <2>3. CASE CallAcquire(p)
    BY <1>1, <1>5, <2>3 DEF CallAcquire, tableVars, budgetVars, TypedCallers, Closing
  <2>4. CASE (\E s \in Storages : StartTransfer(p, s)) \/ EndTransfers(p)
    BY <1>5, <2>4 DEF StartTransfer, EndTransfers, tableVars, budgetVars
  <2>5. QED
    BY <1>8, <2>1, <2>2, <2>3, <2>4 DEF Choice
<1>9. ASSUME NEW p \in Callers, NEW s \in Storages, OwnerGone(p, s)
      PROVE  Trimmed'
  <2>1. CASE UnregisterDone(s)
    <3>1. Idle' = Idle \ {s} /\ pinned' <= pinned
      BY <2>1, DropShrinks
    <3>2. pinned' \in Int
      BY TypedStep DEF Typed, TypedManager
    <3>3. UNCHANGED <<failures, budget, lock, pc>>
      BY <1>9, <2>1 DEF OwnerGone, UnregisterDone
    <3>4. QED
      BY <1>2, <1>3, <3>1, <3>2, <3>3
  <2>2. CASE UnregisterFailed
    BY <1>1, <2>2 DEF UnregisterFailed, Trimmed
  <2>3. CASE ~UnregisterDone(s) /\ ~UnregisterFailed
    BY <1>5, <1>9, <2>3 DEF OwnerGone, budgetVars
  <2>4. QED
    BY <2>1, <2>2, <2>3
<1>10. CASE Rest \/ UNCHANGED vars
  BY <1>5, <1>10 DEF Rest, tableVars, budgetVars
<1>11. QED
  BY <1>6, <1>7, <1>8, <1>9, <1>10 DEF Next

-----------------------------------------------------------------------------
(* What it gives *)

\* The books: what the steps above keep, given IInv.
Books ==
    /\ OwnersRegistered /\ CreatedHeld /\ RootedExactly /\ RetiredIsReleased
    /\ Booked(Pins, boundary, pinned) /\ PageableCounted /\ StartsMatch
    /\ TriedByLoop /\ Trimmed

\* Initially the books are empty.
LEMMA InitBooks ==
  ASSUME Init
  PROVE  Books
<1>1. OwnersRegistered /\ RootedExactly /\ RetiredIsReleased
  BY DEF Init, OwnersRegistered, RootedExactly, RetiredIsReleased
<1>2. CreatedHeld
  BY DEF Init, CreatedHeld
<1>3. Pending = {} /\ Pins = {} /\ Idle = {}
  BY ToSetNone DEF Init, Pending, Pins, Idle
<1>4. Booked(Pins, boundary, pinned)
  <2>1. \A g \in Pages : EndingAt({}, g) = {}
    BY DEF EndingAt
  <2>2. PagesOf({}) = {}
    BY DEF PagesOf
  <2>3. Sum(SizePages, {}) = 0
    BY SumEmpty
  <2>4. /\ boundary = [g \in Pages |-> 0] /\ pinned = 0
        /\ Pins \ FileBacked = {} /\ Pins \cap FileBacked = {}
    BY <1>3 DEF Init
  <2>5. \A g \in Pages : boundary[g] = Cardinality(EndingAt(Pins \ FileBacked, g))
    BY <2>1, <2>4, FS_EmptySet
  <2>6. pinned = Cardinality(PagesOf(Pins \ FileBacked)) + Sum(SizePages, Pins \cap FileBacked)
    BY <2>2, <2>3, <2>4, FS_EmptySet
  <2>7. QED
    BY <2>5, <2>6 DEF Booked
<1>5. PageableCounted
  <2>1. \A s \in Storages : {p \in Callers : s \in paged[p]} = {}
    BY DEF Init
  <2>2. QED
    BY <2>1, FS_EmptySet DEF Init, PageableCounted
<1>6. StartsMatch
  BY <1>3 DEF Init, StartsMatch
<1>7. TriedByLoop /\ Trimmed
  BY <1>3 DEF Init, TriedByLoop, Trimmed
<1>8. QED
  BY <1>1, <1>2, <1>4, <1>5, <1>6, <1>7 DEF Books

\* The books hold of every behaviour.
THEOREM BooksKept == Spec => []Books
<1>1. Init => Books
  BY InitBooks
<1>2. IInv /\ IInv' /\ Books /\ [Next]_vars => Books'
  <2>1. ASSUME IInv, IInv', Books, [Next]_vars
        PROVE  Books'
    <3>1. /\ OwnersRegistered /\ CreatedHeld /\ RootedExactly /\ RetiredIsReleased
          /\ Booked(Pins, boundary, pinned) /\ PageableCounted /\ StartsMatch
          /\ TriedByLoop /\ Trimmed
      BY <2>1 DEF Books
    <3>2. OwnersRegistered' /\ CreatedHeld' /\ RootedExactly' /\ RetiredIsReleased'
      BY <2>1, <3>1, OwnersStep, CreatedStep, RootedStep, RetiredStep
    <3>3. Booked(Pins, boundary, pinned)'
      BY <2>1, <3>1, PagesStep
    <3>4. PageableCounted' /\ StartsMatch'
      BY <2>1, <3>1, PageableStep, StartsStep
    <3>5. TriedByLoop' /\ Trimmed'
      BY <2>1, <3>1, TriedStep, TrimmedStep
    <3>6. QED
      BY <3>2, <3>3, <3>4, <3>5 DEF Books
  <2>2. QED
    BY <2>1
<1>3. QED
  BY <1>1, <1>2, Invariance, PTL DEF Spec

\* While every unregistration succeeds, a registration whose owner is gone goes with
\* its last lease; and the manager is rooted exactly while it has something to keep.
THEOREM NoLeaks == Spec => []NothingLeaks
<1>1. Books => NothingLeaks
  BY DEF Books, NothingLeaks
<1>2. QED
  BY <1>1, BooksKept, PTL

\* The books agree with what is pinned, for any ranges that meet at their ends only:
\* _pinned_bytes is the size of their union and of the copies; with no failed
\* unregistration the budget is exceeded only by what is leased; and _starts lists
\* each range once for being pinned and once for being leased pageable.
THEOREM BooksAgree == Spec => []Accounting
<1>1. IInv /\ Books => Accounting
  <2>1. SUFFICES ASSUME IInv, Books
                 PROVE  PinnedIsUnion /\ OverBudgetOnlyLeased /\ StartsMatch
    BY DEF Accounting
  <2>2. Booked(Pins, boundary, pinned) /\ Trimmed /\ StartsMatch
    BY <2>1 DEF Books
  <2>3. PinnedIsUnion
    BY <2>2 DEF Booked, PinnedIsUnion, InPlacePages, PagesOf, Sum, Pins
  <2>4. OverBudgetOnlyLeased
    <3>1. SUFFICES ASSUME lock = Nobody, failures = 0, ~Fits(0)
                   PROVE  idle = <<>>
      BY DEF OverBudgetOnlyLeased
    <3>2. Idle = {}
      BY <2>2, <3>1, CallerAssumption DEF Trimmed
    <3>3. idle \in Seq(Storages)
      BY <2>1 DEF IInv, Typed, TypedManager
    <3>4. QED
      BY <3>2, <3>3, ToSetEmpty DEF Idle
  <2>5. QED
    BY <2>2, <2>3, <2>4
<1>2. QED
  BY <1>1, Invariance, BooksKept, PTL

=============================================================================
