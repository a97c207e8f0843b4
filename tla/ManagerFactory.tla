--------------------------- MODULE ManagerFactory ---------------------------
(***************************************************************************)
(* resourceManagerFactory: the cache of resource managers that all workers *)
(* of a controller share, guarded by a sync.RWMutex. The two packages      *)
(* (permission, resource_share) have the same code and a factory each.     *)
(***************************************************************************)
EXTENDS FiniteSets

CONSTANTS
  Callers,   \* the goroutines that may be in ManagerFor at the same time
  Accounts, Regions, Roles,
  None       \* no manager, nobody

Keys == [account : Accounts, region : Regions, role : Roles]

\* rmId. An account id and a region have no "/", so the text tells all three apart.
Mutant_WithoutRole(k) == <<k.account, k.region>>
RmId(k) == <<k.account, k.region, k.role>>
RmIds == {RmId(k) : k \in Keys}

\* A manager is told apart by the call that made it.
Managers == [by : Callers, key : Keys]

ASSUME KeysAssumption == Keys # {}
ASSUME NoneAssumption == None \notin Callers \cup Managers

VARIABLES
  pc,       \* where each goroutine is in ManagerFor
  key,      \* the arguments of its current or last call
  result,   \* what that call has returned
  cache,    \* rmCache
  readers,  \* goroutines that hold the read lock
  writer    \* the goroutine that holds the write lock, or will once the readers left

vars == <<pc, key, result, cache, readers, writer>>

PCs == {"idle", "rlock", "rwait", "read", "lock", "drain", "write", "unlock"}

\* ... and the lock excludes: while one goroutine writes, none reads.
TypeOK ==
  /\ pc \in [Callers -> PCs] /\ key \in [Callers -> Keys]
  /\ result \in [Callers -> Managers \cup {None}]
  /\ cache \in [RmIds -> Managers \cup {None}]
  /\ readers = {c \in Callers : pc[c] = "read"}
  /\ writer \in Callers \cup {None}
  /\ \A c \in Callers : pc[c] \in {"write", "unlock"} => writer = c /\ readers = {}

At(c, from, to) == pc[c] = from /\ pc' = [pc EXCEPT ![c] = to]

-----------------------------------------------------------------------------
Call(c) ==
  /\ At(c, "idle", "rlock")
  /\ \E k \in Keys : key' = [key EXCEPT ![c] = k]
  /\ result' = [result EXCEPT ![c] = None]
  /\ UNCHANGED <<cache, readers, writer>>

\* A writer, even one that still waits for the readers, keeps new readers out.
RLock(c) ==
  /\ \/ writer = None /\ At(c, "rlock", "read") /\ readers' = readers \cup {c}
     \/ writer # None /\ At(c, "rlock", "rwait") /\ UNCHANGED readers
  /\ UNCHANGED <<key, result, cache, writer>>

Mutant_StillReading(c) == readers
RUnlock(c) == readers \ {c}

Mutant_NeverFound(id) == FALSE
Found(id) == cache[id] # None

\* The lookup, RUnlock, and the return if it was found.
Lookup(c) ==
  LET id == RmId(key[c]) IN
  /\ \/ Found(id) /\ At(c, "read", "idle") /\ result' = [result EXCEPT ![c] = cache[id]]
     \/ ~Found(id) /\ At(c, "read", "lock") /\ UNCHANGED result
  /\ readers' = RUnlock(c)
  /\ UNCHANGED <<key, cache, writer>>

Lock(c) ==
  /\ writer = None /\ At(c, "lock", "drain") /\ writer' = c
  /\ UNCHANGED <<key, result, cache, readers>>
ReadersLeft(c) ==
  /\ readers = {} /\ At(c, "drain", "write")
  /\ UNCHANGED <<key, result, cache, readers, writer>>

Mutant_RetryForEver(c) == At(c, "write", "drain")
\* Unlock is deferred: it comes after the return of an error, too. (Today's
\* newResourceManager has none to return; ManagerFor is ready for one.)
ReturnError(c) == At(c, "write", "unlock")

\* The cache is not looked at again under the write lock.
NewResourceManager(c) ==
  LET rm == [by |-> c, key |-> key[c]] IN
  /\ \/ /\ At(c, "write", "unlock")
        /\ cache' = [cache EXCEPT ![RmId(key[c])] = rm]
        /\ result' = [result EXCEPT ![c] = rm]
     \/ ReturnError(c) /\ UNCHANGED <<cache, result>>
  /\ UNCHANGED <<key, readers, writer>>

\* The readers that had to wait all get in before the next writer.
Unlock(c) ==
  LET waiting == {d \in Callers : pc[d] = "rwait"} IN
  /\ pc[c] = "unlock"
  /\ pc' = [d \in Callers |-> IF d = c THEN "idle" ELSE IF d \in waiting THEN "read" ELSE pc[d]]
  /\ readers' = waiting /\ writer' = None
  /\ UNCHANGED <<key, result, cache>>

-----------------------------------------------------------------------------
Init ==
  /\ pc = [c \in Callers |-> "idle"]
  /\ key = [c \in Callers |-> CHOOSE k \in Keys : TRUE]
  /\ result = [c \in Callers |-> None]
  /\ cache = [id \in RmIds |-> None]
  /\ readers = {} /\ writer = None

Step(c) == RLock(c) \/ Lookup(c) \/ ReadersLeft(c) \/ NewResourceManager(c) \/ Unlock(c)
Next == \E c \in Callers : Call(c) \/ Step(c) \/ Lock(c)
Spec == Init /\ [][Next]_vars

\* Goroutines are scheduled; a waiting writer of a sync.Mutex is served before
\* those that came later (its starvation mode).
FairSpec == Spec /\ \A c \in Callers : WF_vars(Step(c)) /\ SF_vars(Lock(c))

-----------------------------------------------------------------------------
\* Whoever made it and whenever it was cached, the manager a call returns is
\* one for the account, region and role it asked for.
RightManager == \A c \in Callers : result[c] # None => result[c].key = key[c]

\* Between the lookup that missed and the store: goroutines about to replace id.
Missed(id) == {c \in Callers : /\ pc[c] \in {"lock", "drain", "write"} /\ RmId(key[c]) = id}

\* A cached manager is replaced only by a call whose lookup came before it was
\* cached: once those have returned it stays.
CacheSettles ==
  [][\A id \in RmIds : Missed(id) = {} /\ cache[id] # None => cache'[id] = cache[id]
                                                            /\ Missed(id)' = {}]_vars

\* Every call returns, whatever the others do and also when making a manager fails.
CallsReturn == \A c \in Callers : pc[c] # "idle" ~> pc[c] = "idle"
=============================================================================
