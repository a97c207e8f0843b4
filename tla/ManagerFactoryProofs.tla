------------------------ MODULE ManagerFactoryProofs ------------------------
(***************************************************************************)
(* For any number of goroutines, accounts, regions and roles: the read and *)
(* write locks of ManagerFor exclude each other, every manager it returns  *)
(* is one for its arguments, and a cached manager settles.                 *)
(***************************************************************************)
EXTENDS ManagerFactory, TLAPS

\* Why the lock excludes: a writer is announced before it waits for the readers.
Announced == \A c \in Callers : pc[c] \in {"drain", "write", "unlock"} => writer = c

\* Why the right manager is found: it is stored where its key says.
StoredByKey == \A id \in RmIds : cache[id] # None => RmId(cache[id].key) = id

FactoryInv == TypeOK /\ Announced /\ StoredByKey /\ RightManager

\* rmId tells any two combinations apart.
LEMMA RmIdInjective == \A k1, k2 \in Keys : RmId(k1) = RmId(k2) => k1 = k2
  BY DEF RmId, Keys

LEMMA RmIdType == \A k \in Keys : RmId(k) \in RmIds
  BY DEF RmIds

LEMMA InitInv == Init => FactoryInv
<1> SUFFICES ASSUME Init PROVE FactoryInv
  OBVIOUS
<1>1. (CHOOSE k \in Keys : TRUE) \in Keys
  BY KeysAssumption
<1>2. TypeOK
  BY <1>1 DEF Init, TypeOK, PCs
<1>3. Announced /\ StoredByKey /\ RightManager
  BY DEF Init, Announced, StoredByKey, RightManager
<1> QED
  BY <1>2, <1>3 DEF FactoryInv

LEMMA NextInv == FactoryInv /\ [Next]_vars => FactoryInv'
<1> SUFFICES ASSUME FactoryInv, [Next]_vars PROVE FactoryInv'
  OBVIOUS
<1> USE DEF FactoryInv
<1>1. ASSUME NEW c \in Callers, Call(c) PROVE FactoryInv'
  <2>1. TypeOK'
    BY <1>1 DEF Call, At, TypeOK, PCs
  <2>2. (Announced /\ StoredByKey)'
    BY <1>1 DEF Call, At, TypeOK, Announced, StoredByKey
  <2>3. RightManager'
    BY <1>1 DEF Call, At, TypeOK, RightManager
  <2> QED
    BY <2>1, <2>2, <2>3
<1>2. ASSUME NEW c \in Callers, RLock(c) PROVE FactoryInv'
  <2>1. TypeOK'
    BY <1>2, NoneAssumption DEF RLock, At, TypeOK, PCs, Announced
  <2>2. (Announced /\ StoredByKey /\ RightManager)'
    BY <1>2 DEF RLock, At, TypeOK, Announced, StoredByKey, RightManager
  <2> QED
    BY <2>1, <2>2
<1>3. ASSUME NEW c \in Callers, Lookup(c) PROVE FactoryInv'
  <2>1. TypeOK'
    BY <1>3, RmIdType DEF Lookup, RUnlock, At, TypeOK, PCs, Found
  <2>2. (Announced /\ StoredByKey)'
    BY <1>3 DEF Lookup, At, TypeOK, Announced, StoredByKey
  <2>3. RightManager'
    BY <1>3, RmIdType, RmIdInjective
    DEF Lookup, At, TypeOK, Found, StoredByKey, RightManager, Managers
  <2> QED
    BY <2>1, <2>2, <2>3
<1>4. ASSUME NEW c \in Callers, Lock(c) PROVE FactoryInv'
  <2>1. TypeOK'
    BY <1>4, NoneAssumption DEF Lock, At, TypeOK, PCs, Announced
  <2>2. (Announced /\ StoredByKey /\ RightManager)'
    BY <1>4, NoneAssumption DEF Lock, At, TypeOK, Announced, StoredByKey, RightManager
  <2> QED
    BY <2>1, <2>2
<1>5. ASSUME NEW c \in Callers, ReadersLeft(c) PROVE FactoryInv'
  <2>1. TypeOK'
    BY <1>5 DEF ReadersLeft, At, TypeOK, PCs, Announced
  <2>2. (Announced /\ StoredByKey /\ RightManager)'
    BY <1>5 DEF ReadersLeft, At, TypeOK, Announced, StoredByKey, RightManager
  <2> QED
    BY <2>1, <2>2
<1>6. ASSUME NEW c \in Callers, NewResourceManager(c) PROVE FactoryInv'
  <2> DEFINE rm == [by |-> c, key |-> key[c]]
  <2>1. rm \in Managers /\ RmId(rm.key) = RmId(key[c]) /\ RmId(key[c]) \in RmIds
    BY RmIdType DEF Managers, TypeOK
  <2>2. TypeOK'
    BY <1>6, <2>1 DEF NewResourceManager, ReturnError, At, TypeOK, PCs, Announced
  <2>3. Announced'
    BY <1>6 DEF NewResourceManager, ReturnError, At, TypeOK, Announced
  <2>4. StoredByKey'
    BY <1>6, <2>1 DEF NewResourceManager, ReturnError, TypeOK, StoredByKey
  <2>5. RightManager'
    BY <1>6, <2>1 DEF NewResourceManager, ReturnError, TypeOK, RightManager
  <2> QED
    BY <2>2, <2>3, <2>4, <2>5
<1>7. ASSUME NEW c \in Callers, Unlock(c) PROVE FactoryInv'
  <2>1. TypeOK'
    BY <1>7, NoneAssumption DEF Unlock, TypeOK, PCs, Announced
  <2>2. (Announced /\ StoredByKey /\ RightManager)'
    BY <1>7, NoneAssumption DEF Unlock, TypeOK, Announced, StoredByKey, RightManager
  <2> QED
    BY <2>1, <2>2
<1>8. CASE UNCHANGED vars
  BY <1>8 DEF vars, TypeOK, Announced, StoredByKey, RightManager
<1> QED
  BY <1>1, <1>2, <1>3, <1>4, <1>5, <1>6, <1>7, <1>8 DEF Next, Step

LEMMA FactoryInvariant == Spec => []FactoryInv
  BY InitInv, NextInv, PTL DEF Spec

\* The state keeps its types and the lock excludes, however many goroutines call.
THEOREM LockExcludes == Spec => []TypeOK
<1>1. FactoryInv => TypeOK
  BY DEF FactoryInv
<1> QED
  BY FactoryInvariant, <1>1, PTL

\* A manager that is returned is one for the account, region and role asked for.
THEOREM ManagerIsRight == Spec => []RightManager
<1>1. FactoryInv => RightManager
  BY DEF FactoryInv
<1> QED
  BY FactoryInvariant, <1>1, PTL

LEMMA StepSettles ==
  ASSUME FactoryInv, [Next]_vars, NEW id \in RmIds, Missed(id) = {}, cache[id] # None
  PROVE  cache'[id] = cache[id] /\ Missed(id)' = {}
<1> USE DEF FactoryInv
<1>1. ASSUME NEW c \in Callers, Call(c) PROVE cache'[id] = cache[id] /\ Missed(id)' = {}
  BY <1>1 DEF Call, At, TypeOK, Missed
<1>2. ASSUME NEW c \in Callers, RLock(c) PROVE cache'[id] = cache[id] /\ Missed(id)' = {}
  BY <1>2 DEF RLock, At, TypeOK, Missed
<1>3. ASSUME NEW c \in Callers, Lookup(c) PROVE cache'[id] = cache[id] /\ Missed(id)' = {}
  BY <1>3 DEF Lookup, At, TypeOK, Missed, Found
<1>4. ASSUME NEW c \in Callers, Lock(c) PROVE cache'[id] = cache[id] /\ Missed(id)' = {}
  BY <1>4 DEF Lock, At, TypeOK, Missed
<1>5. ASSUME NEW c \in Callers, ReadersLeft(c) PROVE cache'[id] = cache[id] /\ Missed(id)' = {}
  BY <1>5 DEF ReadersLeft, At, TypeOK, Missed
<1>6. ASSUME NEW c \in Callers, NewResourceManager(c)
      PROVE  cache'[id] = cache[id] /\ Missed(id)' = {}
  <2>1. pc[c] = "write" /\ RmId(key[c]) # id
    BY <1>6 DEF NewResourceManager, ReturnError, At, Missed
  <2> QED
    BY <1>6, <2>1 DEF NewResourceManager, ReturnError, At, TypeOK, Missed
<1>7. ASSUME NEW c \in Callers, Unlock(c) PROVE cache'[id] = cache[id] /\ Missed(id)' = {}
  BY <1>7 DEF Unlock, TypeOK, Missed
<1>8. CASE UNCHANGED vars
  BY <1>8 DEF vars, Missed
<1> QED
  BY <1>1, <1>2, <1>3, <1>4, <1>5, <1>6, <1>7, <1>8 DEF Next, Step

\* A cached manager is replaced only by calls that looked before it was cached.
THEOREM CacheStable == Spec => CacheSettles
<1>1. FactoryInv /\ [Next]_vars =>
        [\A id \in RmIds : Missed(id) = {} /\ cache[id] # None => cache'[id] = cache[id]
                                                                 /\ Missed(id)' = {}]_vars
  BY StepSettles
<1> QED
  BY FactoryInvariant, <1>1, PTL DEF Spec, CacheSettles
=============================================================================
