----------------------- MODULE PermissionSettledProofs -----------------------
(***************************************************************************)
(* What it means that a Permission has settled as Synced, for every value  *)
(* of the constants, whether or not GetPermission lags behind the latest   *)
(* write: the tags in RAM are those of the spec and, for a user who waits  *)
(* until it has settled before the next edit, so is the policy, the        *)
(* version recorded never goes back and no other version is left behind.   *)
(***************************************************************************)
EXTENDS PermissionProofs, OperatorProofs

\* RAM refuses no call for reasons of its own and nobody else deletes the
\* permission. Answers, patches and workers may still be lost.
CallsServed == "api" \notin Faults /\ "external" \notin Faults

-----------------------------------------------------------------------------
(* The tags in RAM are those of the spec.                                  *)

\* What is left to do for the tags at each point of an update: all of it, the
\* second call of syncTags, nothing.
TagsAsRead ==
  /\ pc \in FoundPcs => ram.nver > 0
  /\ pc \in {"status", "untag"} => lat.spec.tags = ram.tags
  /\ pc = "tag" => TagKeysAs(ram.tags, Added, des.spec.tags) = des.spec.tags
  /\ pc \in {"newver", "delver", "setdef"} => ram.tags = des.spec.tags

\* A reconcile ends as Synced only when the tags are those of its copy of the spec ...
OutcomeTagged == pc = "done" /\ out.synced = "True" => ram.tags = des.spec.tags

\* ... and the copy is that of the resource unless an edit has queued it again.
CopyCurrent == pc # "idle" /\ ~queued => des.spec = cr.spec

TagInv == VersionInv /\ TagsAsRead /\ OutcomeTagged /\ CopyCurrent /\ SyncedMeansTagged

LEMMA InitTagInv == Init => TagInv
<1> SUFFICES ASSUME Init PROVE TagInv
  OBVIOUS
<1>1. VersionInv
  BY InitVersionInv
<1>2. pc = "idle" /\ queued = TRUE
  BY DEF Init
<1> QED
  BY <1>1, <1>2 DEF TagInv, TagsAsRead, OutcomeTagged, CopyCurrent, SyncedMeansTagged,
     SettledSynced, Quiet, FoundPcs

\* The permission that an update has found is alive: had it been deleted, its
\* resource would be on the way out.
LEMMA FoundIsLive == ASSUME TagInv, pc \in FoundPcs PROVE ram.perm = "live"
BY Shape DEF TagInv, TagsAsRead, VersionInv, Retired, DeletePcs, FoundPcs, RamState

\* No step but those of syncTags changes the tags under an update in progress.
LEMMA StepTagsAsRead ==
  ASSUME CallsServed, TagInv, [Next]_vars
  PROVE  TagsAsRead'
<1> USE Shape DEF TagInv, TagsAsRead, FoundPcs, mem, env, CallsServed
<1>1. CASE StartReconcile
  BY <1>1 DEF StartReconcile
<1>2. CASE SdkFind
  <2>1. CASE pc' = "status" /\ lat' = RamRead /\ RamFound
    <3>1. ram.nver > 0
      BY <2>1 DEF RamFound
    <3>2. lat'.spec.tags = ram.tags
      BY <2>1 DEF RamRead
    <3> QED
      BY <1>2, <2>1, <3>1, <3>2 DEF SdkFind
  <2>2. CASE pc' \in {"mark", "create", "done"}
    BY <2>2
  <2> QED
    BY <1>2, <2>1, <2>2 DEF SdkFind, FailDesired, FailWith, Finish
<1>3. CASE MarkManaged
  BY <1>3 DEF MarkManaged, FailDesired, FailWith, Finish
<1>4. CASE SdkCreate
  BY <1>4 DEF SdkCreate, FailDesired, FailWith, Finish
<1>5. CASE PatchLatestStatus
  BY <1>5 DEF PatchLatestStatus, AfterTags, TagsDiffer, FailLatest, FailWith, Finish
<1>6. CASE Untag
  <2>1. lat.spec.tags \in Tagging /\ des.spec.tags \in Tagging /\ ram.tags = lat.spec.tags
    BY <1>6 DEF Untag, Latest, Desired, SpecFields
  <2>2. ram.perm = "live"
    BY <1>6, FoundIsLive DEF Untag
  <2>3. ram'.tags = UntagKeys(lat.spec.tags, Removed)
    <3>1. CASE Removed = {}
      <4>1. UntagKeys(lat.spec.tags, Removed) = lat.spec.tags
        BY <2>1, <3>1 DEF UntagKeys, Tagging
      <4> QED
        BY <1>6, <2>1, <3>1, <4>1 DEF Untag
    <3>2. CASE Removed # {}
      BY <1>6, <2>1, <2>2, <3>2 DEF Untag, Fault, RamState
    <3> QED
      BY <3>1, <3>2
  <2>4. TagKeysAs(ram'.tags, Added, des.spec.tags) = des.spec.tags
    BY <2>1, <2>3, TagsSynced DEF Removed, Added
  <2>5. Added' = Added /\ UNCHANGED <<des, lat>> /\ pc' = "tag" /\ ram'.nver = ram.nver
    BY <1>6 DEF Untag, Added, RamState
  <2> QED
    BY <1>6, <2>4, <2>5 DEF Untag
<1>7. CASE Tag
  <2>1. pc' \in {"newver", "done"} /\ UNCHANGED des /\ ram'.nver = ram.nver /\ ram.nver > 0
    BY <1>7 DEF Tag, AfterTags, FailLatest, FailWith, Finish, RamState
  <2>2. CASE pc' = "done"
    BY <2>2
  <2>3. CASE pc' = "newver"
    <3>1. ram'.tags = des.spec.tags
      <4>1. CASE Added # {}
        BY <1>7, <2>3, <4>1 DEF Tag, Fault, FailLatest, FailWith, Finish, RamState
      <4>2. CASE Added = {}
        <5>1. TagKeysAs(ram.tags, Added, des.spec.tags) = ram.tags
          BY <4>2 DEF TagKeysAs, RamState, Tagging
        <5> QED
          BY <1>7, <4>2, <5>1 DEF Tag
      <4> QED
        BY <4>1, <4>2
    <3> QED
      BY <2>1, <2>3, <3>1
  <2> QED
    BY <2>1, <2>2, <2>3
<1>8. CASE CreatePermissionVersion
  <2>1. pc' \in {"delver", "done"} /\ UNCHANGED des /\ ram.tags = des.spec.tags /\ ram.nver > 0
    BY <1>8 DEF CreatePermissionVersion, FailLatest, FailWith, Finish
  <2>2. ram'.tags = ram.tags /\ ram'.nver \in {ram.nver, ram.nver + 1}
    BY <1>8 DEF CreatePermissionVersion, RamVersionAdded, RamState
  <2> QED
    BY <2>1, <2>2
<1>9. CASE DeleteNonDefaultPermissionVersion
  BY <1>9 DEF DeleteNonDefaultPermissionVersion, RamVersionDeleted, RamState, FailLatest,
     FailWith,
     Finish
<1>10. CASE SetDefaultPermissionVersion
  BY <1>10 DEF SetDefaultPermissionVersion, FailLatest, FailWith, Finish
<1>11. CASE PatchStatus
  BY <1>11 DEF PatchStatus
<1>12. CASE FindBeforeDelete
  BY <1>12 DEF FindBeforeDelete, FailDesired, FailWith, Finish
<1>13. CASE SdkDelete
  BY <1>13 DEF SdkDelete, DeleteFailed, FailLatest, FailWith, Finish
<1>14. CASE MarkUnmanaged
  BY <1>14 DEF MarkUnmanaged, FailDesired, FailWith, Finish
<1>15. CASE EditSpec
  BY <1>15 DEF EditSpec, Added
<1>16. CASE DeleteResource
  BY <1>16 DEF DeleteResource, Added
<1>17. CASE Resync
  BY <1>17 DEF Resync, Added
<1>18. CASE CrashRestart
  BY <1>18 DEF CrashRestart
<1>19. CASE Attach
  BY <1>19 DEF Attach, Added, RamState
<1>20. CASE Detach
  BY <1>20 DEF Detach, Added, RamState
<1>21. CASE DeletedElsewhere
  BY <1>21 DEF DeletedElsewhere, Fault
<1>22. CASE Propagate
  BY <1>22 DEF Propagate, Added, RamState
<1>23. CASE Purge
  BY <1>23 DEF Purge, Added, RamState
<1>24. CASE UNCHANGED vars
  BY <1>24 DEF vars, Added
<1> QED
  BY <1>1, <1>2, <1>3, <1>4, <1>5, <1>6, <1>7, <1>8, <1>9, <1>10, <1>11, <1>12, <1>13, <1>14,
     <1>15, <1>16, <1>17, <1>18, <1>19, <1>20, <1>21, <1>22, <1>23, <1>24
  DEF Next, Worker, Update, Environment

\* An update ends as Synced only once both calls of syncTags are done with.
LEMMA StepOutcomeTagged ==
  ASSUME CallsServed, TagInv, [Next]_vars
  PROVE  OutcomeTagged'
<1> USE Shape DEF TagInv, TagsAsRead, OutcomeTagged, FoundPcs, mem, env, CallsServed
<1>1. CASE StartReconcile
  BY <1>1 DEF StartReconcile
<1>2. CASE SdkFind
  <2>1. CASE RamFound /\ des.spec = RamRead.spec /\ UNCHANGED <<des, ram>>
    BY <2>1 DEF RamRead
  <2>2. CASE pc' # "done"
    BY <2>2
  <2>3. CASE FailDesired("error")
    BY <2>3 DEF FailDesired, FailWith, Finish
  <2> QED
    BY <1>2, <2>1, <2>2, <2>3 DEF SdkFind
<1>3. CASE MarkManaged
  BY <1>3 DEF MarkManaged, FailDesired, FailWith, Finish
<1>4. CASE SdkCreate
  <2>1. CASE ram' = RamCreated(des.spec)
    BY <1>4, <2>1 DEF SdkCreate, RamCreated
  <2>2. CASE \E c \in {"error", "terminal"} : FailDesired(c)
    BY <2>2 DEF FailDesired, FailWith, Finish
  <2> QED
    BY <1>4, <2>1, <2>2 DEF SdkCreate, ErrorFor
<1>5. CASE PatchLatestStatus
  BY <1>5 DEF PatchLatestStatus, AfterTags, TagsDiffer, FailLatest, FailWith, Finish
<1>6. CASE Untag
  BY <1>6 DEF Untag
<1>7. CASE Tag
  <2>1. CASE ram' = [ram EXCEPT !.tags = TagKeysAs(@, Added, des.spec.tags)]
    BY <1>7, <2>1 DEF Tag, RamState
  <2>2. CASE Added = {} /\ UNCHANGED ram
    <3>1. TagKeysAs(ram.tags, Added, des.spec.tags) = ram.tags
      BY <2>2 DEF TagKeysAs, RamState, Tagging
    <3> QED
      BY <1>7, <2>2, <3>1 DEF Tag
  <2>3. CASE FailLatest
    BY <2>3 DEF FailLatest, FailWith, Finish
  <2> QED
    BY <1>7, <2>1, <2>2, <2>3 DEF Tag
<1>8. CASE CreatePermissionVersion
  BY <1>8 DEF CreatePermissionVersion, FailLatest, FailWith, Finish, ErrorFor
<1>9. CASE DeleteNonDefaultPermissionVersion
  BY <1>9 DEF DeleteNonDefaultPermissionVersion, FailLatest, FailWith, Finish
<1>10. CASE SetDefaultPermissionVersion
  BY <1>10 DEF SetDefaultPermissionVersion, Updated, FailLatest, FailWith, Finish
<1>11. CASE PatchStatus
  BY <1>11 DEF PatchStatus
<1>12. CASE FindBeforeDelete
  BY <1>12 DEF FindBeforeDelete, FailDesired, FailWith, Finish
<1>13. CASE SdkDelete
  BY <1>13 DEF SdkDelete, DeleteFailed, FailLatest, FailWith, Finish
<1>14. CASE MarkUnmanaged
  BY <1>14 DEF MarkUnmanaged, FailDesired, FailWith, Finish
<1>15. CASE EditSpec
  BY <1>15 DEF EditSpec
<1>16. CASE DeleteResource
  BY <1>16 DEF DeleteResource
<1>17. CASE Resync
  BY <1>17 DEF Resync
<1>18. CASE CrashRestart
  BY <1>18 DEF CrashRestart
<1>19. CASE Attach
  BY <1>19 DEF Attach, RamState
<1>20. CASE Detach
  BY <1>20 DEF Detach, RamState
<1>21. CASE DeletedElsewhere
  BY <1>21 DEF DeletedElsewhere, Fault
<1>22. CASE Propagate
  BY <1>22 DEF Propagate, RamState
<1>23. CASE Purge
  BY <1>23 DEF Purge, RamState
<1>24. CASE UNCHANGED vars
  BY <1>24 DEF vars
<1> QED
  BY <1>1, <1>2, <1>3, <1>4, <1>5, <1>6, <1>7, <1>8, <1>9, <1>10, <1>11, <1>12, <1>13, <1>14,
     <1>15, <1>16, <1>17, <1>18, <1>19, <1>20, <1>21, <1>22, <1>23, <1>24
  DEF Next, Worker, Update, Environment

\* An edit queues the resource, so a copy that nothing has queued again is current.
LEMMA StepCopyCurrent ==
  ASSUME TagInv, [Next]_vars
  PROVE  CopyCurrent'
<1> USE Shape DEF TagInv, CopyCurrent, mem, env
<1>1. CASE StartReconcile
  BY <1>1 DEF StartReconcile
<1>2. CASE UNCHANGED <<cr, des, queued>> /\ pc # "idle"
  BY <1>2
<1>3. CASE MarkManaged
  BY <1>3 DEF MarkManaged, Resource
<1>4. CASE PatchLatestStatus
  BY <1>4 DEF PatchLatestStatus, Resource
<1>5. CASE pc' = "idle"
  BY <1>5
<1>6. CASE MarkUnmanaged
  BY <1>6 DEF MarkUnmanaged
<1>7. CASE queued' = TRUE
  BY <1>7
<1>8. CASE UNCHANGED <<cr, pc, mem, queued>>
  BY <1>8
<1> QED
  BY <1>1, <1>2, <1>3, <1>4, <1>5, <1>6, <1>7, <1>8
  DEF Next, Worker, Update, Environment, SdkFind, SdkCreate, Untag, Tag, CreatePermissionVersion,
      DeleteNonDefaultPermissionVersion, SetDefaultPermissionVersion, PatchStatus,
      FindBeforeDelete,
      SdkDelete, EditSpec, DeleteResource, Resync, CrashRestart, Attach, Detach, DeletedElsewhere,
      Propagate, Purge, vars

\* A resource settles as Synced by the patch that ends a reconcile, and stays so
\* while only RAM and its other users move.
LEMMA Settling ==
  ASSUME "external" \notin Faults, VersionInv, [Next]_vars, SettledSynced'
  PROVE  \/ /\ pc = "done" /\ out.synced = "True" /\ ~queued /\ cr.life = "managed"
            /\ cr'.spec = cr.spec /\ UNCHANGED ram
         \/ /\ SettledSynced /\ UNCHANGED <<cr, pc>>
            /\ UNCHANGED <<ram.tags, ram.dflt, ram.text, ram.live>>
            /\ ram.perm = "live" => ram'.perm = "live"
<1> USE Shape DEF SettledSynced, Quiet, mem, env
<1>1. pc' = "idle" /\ queued' # TRUE /\ cr'.life = "managed" /\ cr'.synced = "True"
  OBVIOUS
<1>2. CASE PatchStatus
  <2>1. /\ cr.life # "gone"
        /\ cr' = [cr EXCEPT !.arn = out.arn, !.ver = out.ver, !.synced = out.synced]
    BY <1>1, <1>2 DEF PatchStatus
  <2> QED
    BY <1>1, <1>2, <2>1 DEF PatchStatus, Resource
<1>3. CASE MarkUnmanaged
  BY <1>1, <1>3 DEF MarkUnmanaged, FailDesired, FailWith, Finish, Resource
<1>4. CASE StartReconcile \/ SdkFind \/ MarkManaged \/ SdkCreate \/ FindBeforeDelete \/ SdkDelete
  BY <1>1, <1>4 DEF StartReconcile, SdkFind, MarkManaged, SdkCreate, FindBeforeDelete, SdkDelete,
     DeleteFailed, FailDesired, FailLatest, FailWith, Finish
<1>5. CASE Update
  BY <1>1, <1>5 DEF Update, PatchLatestStatus, Untag, Tag, CreatePermissionVersion,
     DeleteNonDefaultPermissionVersion, SetDefaultPermissionVersion, AfterTags, FailLatest,
     FailWith,
     Finish
<1>6. CASE EditSpec \/ DeleteResource \/ Resync \/ CrashRestart
  BY <1>1, <1>6 DEF EditSpec, DeleteResource, Resync, CrashRestart
<1>7. CASE Attach \/ Detach \/ Propagate \/ Purge
  BY <1>1, <1>7 DEF Attach, Detach, Propagate, Purge, RamState
<1>8. CASE DeletedElsewhere
  BY <1>8 DEF DeletedElsewhere, Fault
<1>9. CASE UNCHANGED vars
  BY <1>9 DEF vars
<1> QED
  BY <1>2, <1>3, <1>4, <1>5, <1>6, <1>7, <1>8, <1>9 DEF Next, Worker, Environment

LEMMA StepTagInv == ASSUME CallsServed, TagInv, [Next]_vars PROVE TagInv'
<1>1. VersionInv'
  BY StepVersionInv DEF TagInv, CallsServed
<1>2. SyncedMeansTagged'
  BY Settling DEF TagInv, CallsServed, SyncedMeansTagged, OutcomeTagged, CopyCurrent
<1> QED
  BY <1>1, <1>2, StepTagsAsRead, StepOutcomeTagged, StepCopyCurrent DEF TagInv

\* A resource that has settled as Synced has the tags of its spec in RAM, for any
\* user, any lag of GetPermission and any lost answer, patch or worker
\* (syncTags). The assumption is needed: a failing UntagResource is logged and
\* dropped, and a permission deleted elsewhere comes back from GetPermission.
THEOREM TagsSettled ==
  ASSUME CallsServed
  PROVE  Spec => []SyncedMeansTagged
<1>1. TagInv /\ [Next]_vars => TagInv'
  BY StepTagInv
<1>2. TagInv => SyncedMeansTagged
  BY DEF TagInv
<1> QED
  BY <1>1, <1>2, InitTagInv, PTL DEF Spec

-----------------------------------------------------------------------------
(* A user who waits until the resource has settled before the next edit.   *)

Waits == "external" \notin Faults /\ ~EditAnyTime

\* The copy in hand is current, and of a resource that is not being deleted
\* unless the reconcile is that of a deletion.
InHand ==
  pc # "idle" => /\ des.spec = cr.spec /\ cr.life # "gone"
                 /\ pc \notin DeletePcs \cup {"done"} => cr.life # "deleting"

\* The version in force is the newest RAM has handed out, and a live one.
RamNewest ==
  /\ ram.dflt = ram.nver
  /\ pc \in {"delver", "setdef"} => newv = ram.nver
  /\ ram.perm = "live" => ram.dflt \in ram.live
  /\ ram.nver > 0 => ram.text[ram.dflt] \notin BadTemplates

WaitInv == VersionInv /\ InHand /\ RamNewest

LEMMA InitWaitInv == Init => WaitInv
<1> SUFFICES ASSUME Init PROVE WaitInv
  OBVIOUS
<1>1. VersionInv
  BY InitVersionInv
<1>2. pc = "idle" /\ ram.perm = "none" /\ ram.dflt = 0 /\ ram.nver = 0
  BY DEF Init
<1> QED
  BY <1>1, <1>2 DEF WaitInv, InHand, RamNewest

\* The types and the order of the version numbers.
LEMMA Numbers ==
  ASSUME WaitInv
  PROVE  /\ cr \in Resource /\ ram \in RamState /\ des \in Desired /\ lat \in Latest
         /\ out \in Outcome /\ pc \in Calls /\ queued \in BOOLEAN
         /\ cr.ver \in Nat /\ des.ver \in Nat /\ lat.ver \in Nat /\ out.ver \in Nat /\ newv \in Nat
         /\ ram.nver \in Nat /\ ram.dflt \in Nat /\ ram.seen \in Nat
         /\ ram.seen <= ram.nver /\ ram.dflt = ram.nver
         /\ cr.ver <= ram.nver /\ des.ver <= ram.nver /\ lat.ver <= ram.nver /\ out.ver <= ram.nver
BY Shape, MaxVerAssumption
DEF WaitInv, VersionInv, VersionsBehind, TypeInv, TypeOK, VersionNumbers, RamNewest,
    Resource, RamState, Desired, Latest, Outcome

LEMMA StepInHand ==
  ASSUME Waits, WaitInv, [Next]_vars
  PROVE  InHand'
<1> USE Numbers DEF WaitInv, InHand, DeletePcs, mem, env
<1>1. CASE StartReconcile
  BY <1>1 DEF StartReconcile
<1>2. CASE SdkFind
  BY <1>2 DEF SdkFind, FailDesired, FailWith, Finish
<1>3. CASE MarkManaged
  BY <1>3 DEF MarkManaged, FailDesired, FailWith, Finish, Resource
<1>4. CASE SdkCreate
  BY <1>4 DEF SdkCreate, FailDesired, FailWith, Finish
<1>5. CASE PatchLatestStatus
  BY <1>5 DEF PatchLatestStatus, AfterTags, FailLatest, FailWith, Finish, Resource
<1>6. CASE Untag \/ Tag
  BY <1>6 DEF Untag, Tag, AfterTags, FailLatest, FailWith, Finish
<1>7. CASE \/ CreatePermissionVersion \/ DeleteNonDefaultPermissionVersion
           \/ SetDefaultPermissionVersion
  BY <1>7 DEF CreatePermissionVersion, DeleteNonDefaultPermissionVersion,
     SetDefaultPermissionVersion, FailLatest, FailWith, Finish
<1>8. CASE pc' = "idle"
  BY <1>8
<1>9. CASE FindBeforeDelete \/ SdkDelete
  BY <1>9 DEF FindBeforeDelete, SdkDelete, DeleteFailed, FailDesired, FailLatest, FailWith, Finish
<1>10. CASE MarkUnmanaged
  BY <1>10 DEF MarkUnmanaged, FailDesired, FailWith, Finish
<1>11. CASE EditSpec \/ DeleteResource \/ Resync
  BY <1>11, <1>8 DEF EditSpec, DeleteResource, Resync, Quiet, Waits
<1>12. CASE UNCHANGED <<cr, pc, mem>>
  BY <1>12
<1> QED
  BY <1>1, <1>2, <1>3, <1>4, <1>5, <1>6, <1>7, <1>8, <1>9, <1>10, <1>11, <1>12
  DEF Next, Worker, Update, Environment, PatchStatus, CrashRestart, Attach, Detach,
      DeletedElsewhere, Propagate, Purge, vars

\* What an accepted CreatePermissionVersion does.
LEMMA Adding ==
  ASSUME WaitInv, RamCanAddVersion(des.spec.tmpl), ram' = RamVersionAdded(des.spec.tmpl)
  PROVE  LET n == ram.nver + 1
         IN  /\ ram'.nver = n /\ ram'.dflt = n /\ ram'.seen = Shown(n)
             /\ ram'.live = ram.live \cup {n} /\ ram'.text[n] = des.spec.tmpl
             /\ \A v \in 1..ram.nver : ram'.text[v] = ram.text[v]
             /\ UNCHANGED <<ram.perm, ram.tags, ram.attached>>
             /\ ram.perm = "live" /\ des.spec.tmpl \notin BadTemplates
             /\ \A v \in ram.live : ram.text[v] # des.spec.tmpl
<1> DEFINE n == ram.nver + 1
<1>1. ram.perm = "live" /\ ram.nver < MaxVer /\ des.spec.tmpl \notin BadTemplates
      /\ \A v \in ram.live : ram.text[v] # des.spec.tmpl
  BY DEF RamCanAddVersion
<1>2. /\ ram'.nver = n /\ ram'.dflt = n /\ ram'.seen = Shown(n)
      /\ ram'.live = ram.live \cup {n}
      /\ ram'.text = [ram.text EXCEPT ![n] = des.spec.tmpl]
      /\ UNCHANGED <<ram.perm, ram.tags, ram.attached>>
  BY Numbers DEF RamVersionAdded, RamState
<1>3. ram.text \in [Versions -> Templates \cup {NoTemplate}] /\ n \in Versions
  BY <1>1, Numbers, MaxVerAssumption DEF RamState, Versions
<1>4. ram'.text[n] = des.spec.tmpl
  BY <1>2, <1>3
<1>5. \A v \in 1..ram.nver : ram'.text[v] = ram.text[v]
  <2> SUFFICES ASSUME NEW v \in 1..ram.nver PROVE ram'.text[v] = ram.text[v]
    OBVIOUS
  <2>1. v \in Versions /\ v # n
    BY <1>1, Numbers, MaxVerAssumption DEF Versions
  <2> QED
    BY <2>1, <1>2, <1>3
<1> QED
  BY <1>1, <1>2, <1>4, <1>5

\* A permission that is created is the first of its resource: every version
\* number the controller holds is 0.
LEMMA FirstCreation ==
  ASSUME WaitInv, pc = "create", ram.perm # "live"
  PROVE  ram.nver = 0 /\ ram.seen = 0 /\ cr.ver = 0 /\ des.ver = 0 /\ lat.ver = 0 /\ out.ver = 0
BY Numbers DEF WaitInv, VersionInv, Retired, DeletePcs

LEMMA Creating ==
  ASSUME WaitInv, ram' = RamCreated(des.spec)
  PROVE  /\ ram'.perm = "live" /\ ram'.dflt = 1 /\ ram'.nver = 1 /\ ram'.live = {1}
         /\ ram'.text[1] = des.spec.tmpl /\ ram'.tags = des.spec.tags
         /\ ram'.seen \in {0, 1} /\ ram'.attached = {}
BY MaxVerAssumption DEF RamCreated, Versions

LEMMA StepRamNewest ==
  ASSUME Waits, WaitInv, [Next]_vars
  PROVE  RamNewest'
<1> USE Numbers DEF WaitInv, RamNewest, mem, env
<1>1. CASE StartReconcile
  BY <1>1 DEF StartReconcile
<1>2. CASE SdkFind
  BY <1>2 DEF SdkFind, FailDesired, FailWith, Finish
<1>3. CASE MarkManaged
  BY <1>3 DEF MarkManaged, FailDesired, FailWith, Finish
<1>4. CASE SdkCreate
  <2>1. pc' = "done"
    BY <1>4 DEF SdkCreate, FailDesired, FailWith, Finish
  <2>2. CASE ram' = RamCreated(des.spec) /\ des.spec.tmpl \notin BadTemplates
    BY <2>1, <2>2, Creating
  <2>3. CASE UNCHANGED ram
    BY <2>1, <2>3
  <2> QED
    BY <1>4, <2>2, <2>3 DEF SdkCreate
<1>5. CASE PatchLatestStatus
  BY <1>5 DEF PatchLatestStatus, AfterTags, FailLatest, FailWith, Finish
<1>6. CASE Untag \/ Tag
  BY <1>6 DEF Untag, Tag, AfterTags, FailLatest, FailWith, Finish, RamState
<1>7. CASE CreatePermissionVersion
  <2>1. CASE /\ RamCanAddVersion(des.spec.tmpl) /\ newv' = ram.nver + 1
             /\ ram' = RamVersionAdded(des.spec.tmpl)
    BY <2>1, Adding
  <2>2. CASE UNCHANGED ram /\ pc' = "done"
    BY <2>2
  <2> QED
    BY <1>7, <2>1, <2>2 DEF CreatePermissionVersion, FailLatest, FailWith, Finish
<1>8. CASE DeleteNonDefaultPermissionVersion
  <2>1. UNCHANGED newv /\ pc = "delver" /\ pc' \in {"setdef", "done"}
    BY <1>8 DEF DeleteNonDefaultPermissionVersion, FailLatest, FailWith, Finish
  <2>2. UNCHANGED <<ram.dflt, ram.nver, ram.text, ram.perm>>
        /\ (ram.dflt \in ram.live => ram.dflt \in ram'.live)
    BY <1>8 DEF DeleteNonDefaultPermissionVersion, RamCanDeleteVersion, RamVersionDeleted,
       RamState
  <2> QED
    BY <2>1, <2>2
<1>9. CASE SetDefaultPermissionVersion
  <2>1. pc' = "done" /\ newv = ram.nver
    BY <1>9 DEF SetDefaultPermissionVersion, FailLatest, FailWith, Finish
  <2>2. UNCHANGED <<ram.dflt, ram.nver, ram.text, ram.perm, ram.live>>
    BY <1>9, <2>1 DEF SetDefaultPermissionVersion, RamDefaultSet, RamState
  <2> QED
    BY <2>1, <2>2
<1>10. CASE PatchStatus
  BY <1>10 DEF PatchStatus
<1>11. CASE FindBeforeDelete
  BY <1>11 DEF FindBeforeDelete, FailDesired, FailWith, Finish
<1>12. CASE SdkDelete
  BY <1>12 DEF SdkDelete, RamDeleted, DeleteFailed, FailLatest, FailWith, Finish, RamState
<1>13. CASE MarkUnmanaged
  BY <1>13 DEF MarkUnmanaged, FailDesired, FailWith, Finish
<1>14. CASE EditSpec \/ DeleteResource \/ Resync
  BY <1>14 DEF EditSpec, DeleteResource, Resync
<1>15. CASE CrashRestart
  BY <1>15 DEF CrashRestart
<1>16. CASE Attach \/ Detach \/ Propagate \/ Purge
  BY <1>16 DEF Attach, Detach, Propagate, Purge, RamState
<1>17. CASE DeletedElsewhere
  BY <1>17 DEF DeletedElsewhere, Fault, Waits
<1>18. CASE UNCHANGED vars
  BY <1>18 DEF vars
<1> QED
  BY <1>1, <1>2, <1>3, <1>4, <1>5, <1>6, <1>7, <1>8, <1>9, <1>10, <1>11, <1>12, <1>13, <1>14,
     <1>15, <1>16, <1>17, <1>18 DEF Next, Worker, Update, Environment

LEMMA StepWaitInv == ASSUME Waits, WaitInv, [Next]_vars PROVE WaitInv'
BY StepVersionInv, StepInHand, StepRamNewest DEF Waits, WaitInv

-----------------------------------------------------------------------------
(* The policy in force is that of the spec.                                *)

\* GetPermission shows the version in force, or nothing yet. If it lags behind, it
\* shows another policy, the one in force is that of the spec, and the resource
\* will be reconciled again before the user may edit or delete it.
ShowsForce == ram.seen \in {0, ram.dflt}
SeenBehind ==
  ~ShowsForce => /\ ram.text[ram.seen] # ram.text[ram.dflt]
                 /\ ram.text[ram.dflt] = cr.spec.tmpl
                 /\ pc = "idle" => queued
                 /\ cr.life \notin {"deleting", "gone"}

\* What an update makes of the policy it has read: if that is the one of the spec,
\* it is in force; if not, the new version is.
ReadInForce ==
  /\ pc \in FoundPcs => ram.perm = "live" /\ ram.seen # 0
  /\ pc \in {"status", "untag", "tag"} /\ lat.spec.tmpl = des.spec.tmpl =>
       ShowsForce /\ ram.text[ram.dflt] = des.spec.tmpl
  /\ pc = "delver" => ram.text[ram.dflt] = des.spec.tmpl

\* A reconcile does not end for good while GetPermission lags behind.
OutcomeInForce ==
  pc = "done" => /\ out.synced # "none"
                 /\ out.synced \in {"True", "terminal"} => ShowsForce
                 /\ out.synced = "True" => ram.perm = "live" /\ ram.text[ram.dflt] = des.spec.tmpl

PolicyInv ==
  WaitInv /\ SeenBehind /\ ReadInForce /\ OutcomeInForce /\ SyncedMeansPolicyInForce

LEMMA InitPolicyInv == Init => PolicyInv
<1> SUFFICES ASSUME Init PROVE PolicyInv
  OBVIOUS
<1>1. pc = "idle" /\ queued = TRUE /\ ram.seen = 0
  BY DEF Init
<1> QED
  BY <1>1, InitWaitInv DEF PolicyInv, SeenBehind, ShowsForce, ReadInForce, OutcomeInForce,
     FoundPcs, SyncedMeansPolicyInForce, SettledSynced, Quiet

\* RAM accepts a new version only when GetPermission has shown the one in force.
LEMMA AcceptedWhenShown ==
  ASSUME PolicyInv, pc = "newver", RamCanAddVersion(des.spec.tmpl)
  PROVE  /\ ram.seen = ram.dflt /\ ram.dflt \in 1..ram.nver
         /\ ram.text[ram.dflt] # des.spec.tmpl
<1>1. ram.dflt \in ram.live /\ ram.text[ram.dflt] # des.spec.tmpl
  BY DEF RamCanAddVersion, PolicyInv, WaitInv, RamNewest
<1>2. des.spec.tmpl = cr.spec.tmpl /\ ram.seen # 0
  BY DEF PolicyInv, WaitInv, InHand, ReadInForce, FoundPcs
<1>3. ram.seen = ram.dflt
  BY <1>1, <1>2 DEF PolicyInv, SeenBehind, ShowsForce
<1> QED
  BY <1>1, <1>2, <1>3, Numbers DEF PolicyInv

\* A policy that was read and is that of the spec is in force.
LEMMA ReadTells ==
  ASSUME PolicyInv, pc = "find", RamFound
  PROVE  /\ ram.perm = "live" /\ ram.seen # 0
         /\ RamRead.spec.tmpl = des.spec.tmpl => ShowsForce /\ ram.text[ram.dflt] = des.spec.tmpl
<1>1. /\ ram.seen # 0 /\ ram.perm # "none" /\ des.spec.tmpl = cr.spec.tmpl
      /\ cr.life \notin {"deleting", "gone"}
  BY DEF RamFound, PolicyInv, WaitInv, InHand, DeletePcs
<1>2. ram.perm = "live"
  BY <1>1, Numbers DEF PolicyInv, WaitInv, VersionInv, Retired
<1>3. RamRead.spec.tmpl = ram.text[ram.seen]
  BY DEF RamRead
<1> QED
  BY <1>1, <1>2, <1>3 DEF PolicyInv, SeenBehind, ShowsForce

\* A template that RAM rejects for good is no reason to stop while it lags.
LEMMA TerminalWhenShown ==
  ASSUME PolicyInv, pc # "idle", ErrorFor(des.spec.tmpl) = "terminal"
  PROVE  ShowsForce
<1>1. des.spec.tmpl \in BadTemplates /\ des.spec.tmpl = cr.spec.tmpl
  BY DEF ErrorFor, PolicyInv, WaitInv, InHand
<1>2. ram.nver > 0 => ram.text[ram.dflt] # cr.spec.tmpl
  BY <1>1 DEF PolicyInv, WaitInv, RamNewest
<1>3. ram.seen # 0 => ram.nver > 0
  BY Numbers DEF PolicyInv
<1> QED
  BY <1>2, <1>3 DEF PolicyInv, SeenBehind, ShowsForce

LEMMA StepSeenBehind ==
  ASSUME Waits, PolicyInv, [Next]_vars
  PROVE  SeenBehind'
<1> USE DEF PolicyInv, mem, env
<1>a. WaitInv
  OBVIOUS
<1> DEFINE Shown0 == UNCHANGED <<ram.seen, ram.dflt, ram.text>>
<1>b. ASSUME Shown0, ShowsForce PROVE SeenBehind'
  BY <1>b DEF SeenBehind, ShowsForce
<1>c. ASSUME Shown0, cr'.spec = cr.spec,
             cr'.life = cr.life \/ cr'.life \notin {"deleting", "gone"},
             pc' # "idle" \/ queued' = TRUE \/ UNCHANGED <<pc, queued>>
      PROVE  SeenBehind'
  BY <1>c DEF SeenBehind, ShowsForce
<1>1. CASE StartReconcile \/ SdkFind \/ FindBeforeDelete
  <2>1. pc' # "idle" /\ UNCHANGED <<cr, ram>>
    BY <1>1 DEF StartReconcile, SdkFind, FindBeforeDelete, FailDesired, FailWith, Finish
  <2> QED
    BY <2>1, <1>c
<1>2. CASE MarkManaged
  <2>1. pc' # "idle" /\ UNCHANGED ram /\ cr'.spec = cr.spec /\ cr'.life \in {cr.life, "managed"}
    BY <1>2, <1>a, Numbers DEF MarkManaged, FailDesired, FailWith, Finish, Resource
  <2> QED
    BY <2>1, <1>c
<1>3. CASE SdkCreate
  <2>1. CASE ram' = RamCreated(des.spec)
    BY <2>1, <1>a, Creating DEF SeenBehind, ShowsForce
  <2>2. CASE UNCHANGED ram
    <3>1. pc' # "idle" /\ UNCHANGED cr
      BY <1>3 DEF SdkCreate, FailDesired, FailWith, Finish
    <3> QED
      BY <2>2, <3>1, <1>c
  <2> QED
    BY <1>3, <2>1, <2>2 DEF SdkCreate
<1>4. CASE PatchLatestStatus
  <2>1. pc' # "idle" /\ UNCHANGED ram /\ cr'.spec = cr.spec /\ cr'.life = cr.life
    BY <1>4, <1>a, Numbers DEF PatchLatestStatus, AfterTags, FailLatest, FailWith, Finish, Resource
  <2> QED
    BY <2>1, <1>c
<1>5. CASE Untag \/ Tag \/ DeleteNonDefaultPermissionVersion \/ SdkDelete
  <2>1. pc' # "idle" /\ Shown0 /\ UNCHANGED cr
    BY <1>5, <1>a, Numbers DEF Untag, Tag, DeleteNonDefaultPermissionVersion, SdkDelete, AfterTags,
       FailLatest, DeleteFailed, FailWith, Finish, RamVersionDeleted, RamDeleted, RamState
  <2> QED
    BY <2>1, <1>c
<1>6. CASE CreatePermissionVersion
  <2>1. pc = "newver" /\ pc' # "idle" /\ UNCHANGED cr
    BY <1>6 DEF CreatePermissionVersion, FailLatest, FailWith, Finish
  <2>2. CASE RamCanAddVersion(des.spec.tmpl) /\ ram' = RamVersionAdded(des.spec.tmpl)
    <3> DEFINE n == ram.nver + 1
    <3>1. /\ ram.seen = ram.dflt /\ ram.dflt \in 1..ram.nver
          /\ ram.text[ram.dflt] # des.spec.tmpl
      BY <2>1, <2>2, AcceptedWhenShown
    <3>2. /\ ram'.dflt = n /\ ram'.seen = Shown(n) /\ ram'.text[n] = des.spec.tmpl
          /\ ram'.text[ram.dflt] = ram.text[ram.dflt]
      BY <2>2, <3>1, <1>a, Adding
    <3>3. des.spec.tmpl = cr.spec.tmpl /\ cr.life \notin {"deleting", "gone"}
      BY <2>1 DEF WaitInv, InHand, DeletePcs
    <3>4. ram'.seen \in {n, ram.seen}
      BY <3>2 DEF Shown
    <3> QED
      BY <2>1, <3>1, <3>2, <3>3, <3>4 DEF SeenBehind, ShowsForce
  <2>3. CASE UNCHANGED ram
    BY <2>1, <2>3, <1>c
  <2> QED
    BY <1>6, <2>2, <2>3 DEF CreatePermissionVersion
<1>7. CASE SetDefaultPermissionVersion
  <2>1. pc' # "idle" /\ UNCHANGED cr /\ newv = ram.dflt
    BY <1>7, <1>a, Numbers DEF SetDefaultPermissionVersion, FailLatest, FailWith, Finish, WaitInv,
       RamNewest
  <2>2. UNCHANGED <<ram.dflt, ram.text>> /\ ram'.seen \in {ram.seen, ram.dflt}
    BY <1>7, <1>a, <2>1, Numbers DEF SetDefaultPermissionVersion, RamDefaultSet, RamState, Shown
  <2> QED
    BY <2>1, <2>2 DEF SeenBehind, ShowsForce
<1>8. CASE PatchStatus
  <2>1. pc = "done" /\ UNCHANGED ram /\ cr'.spec = cr.spec /\ cr'.life = cr.life
    BY <1>8, <1>a, Numbers DEF PatchStatus, Resource
  <2>2. CASE ShowsForce
    BY <2>1, <2>2, <1>b
  <2>3. CASE ~ShowsForce
    <3>1. out.synced \in {"error", "False"}
      BY <2>1, <2>3, <1>a, Numbers DEF OutcomeInForce, Outcome, Synced
    <3>2. queued' = TRUE
      BY <1>8, <3>1 DEF PatchStatus
    <3> QED
      BY <2>1, <3>2, <1>c
  <2> QED
    BY <2>2, <2>3
<1>9. CASE MarkUnmanaged
  <2>1. cr.life = "deleting" /\ UNCHANGED ram
    BY <1>9 DEF MarkUnmanaged, WaitInv, VersionInv, Retired, DeletePcs
  <2> QED
    BY <2>1, <1>b DEF SeenBehind
<1>10. CASE EditSpec \/ DeleteResource
  <2>1. pc = "idle" /\ ~queued /\ UNCHANGED ram
    BY <1>10 DEF EditSpec, DeleteResource, Waits, Quiet
  <2> QED
    BY <2>1, <1>b DEF SeenBehind
<1>11. CASE Resync \/ CrashRestart
  BY <1>11, <1>c DEF Resync, CrashRestart
<1>12. CASE Attach \/ Detach \/ Purge
  <2>1. Shown0 /\ UNCHANGED <<cr, pc, queued>>
    BY <1>12, <1>a, Numbers DEF Attach, Detach, Purge, RamState
  <2> QED
    BY <2>1, <1>c
<1>13. CASE Propagate
  <2>1. ram'.seen = ram'.dflt
    BY <1>13, <1>a, Numbers DEF Propagate, RamState
  <2> QED
    BY <2>1 DEF SeenBehind, ShowsForce
<1>14. CASE DeletedElsewhere
  BY <1>14 DEF DeletedElsewhere, Fault, Waits
<1>15. CASE UNCHANGED vars
  BY <1>15, <1>c DEF vars
<1> QED
  BY <1>1, <1>2, <1>3, <1>4, <1>5, <1>6, <1>7, <1>8, <1>9, <1>10, <1>11, <1>12, <1>13, <1>14,
     <1>15 DEF Next, Worker, Update, Environment

LEMMA StepReadInForce ==
  ASSUME Waits, PolicyInv, [Next]_vars
  PROVE  ReadInForce'
<1> USE DEF PolicyInv, ReadInForce, FoundPcs, mem, env
<1>a. WaitInv
  OBVIOUS
<1>1. CASE SdkFind
  <2>1. CASE lat' = RamRead /\ pc' = "status" /\ RamFound
    <3>1. pc = "find" /\ UNCHANGED <<ram, des>>
      BY <1>1 DEF SdkFind
    <3> QED
      BY <2>1, <3>1, ReadTells DEF ShowsForce
  <2>2. CASE pc' \notin FoundPcs
    BY <2>2
  <2> QED
    BY <1>1, <2>1, <2>2 DEF SdkFind, FailDesired, FailWith, Finish
<1>2. CASE PatchLatestStatus
  <2>1. UNCHANGED <<ram, des, lat>> /\ pc = "status" /\ pc' \in {"untag", "newver", "done"}
    BY <1>2 DEF PatchLatestStatus, AfterTags, FailLatest, FailWith, Finish
  <2> QED
    BY <2>1 DEF ShowsForce
<1>3. CASE Untag \/ Tag
  <2>1. UNCHANGED <<ram.perm, ram.seen, ram.dflt, ram.text, des, lat>>
    BY <1>3, <1>a, Numbers DEF Untag, Tag, RamState
  <2>2. pc \in {"untag", "tag"} /\ pc' \in {"tag", "newver", "done"}
    BY <1>3 DEF Untag, Tag, AfterTags, FailLatest, FailWith, Finish
  <2> QED
    BY <2>1, <2>2 DEF ShowsForce
<1>4. CASE CreatePermissionVersion
  <2>1. pc = "newver" /\ pc' \in {"delver", "done"} /\ UNCHANGED des
    BY <1>4 DEF CreatePermissionVersion, FailLatest, FailWith, Finish
  <2>2. CASE RamCanAddVersion(des.spec.tmpl) /\ ram' = RamVersionAdded(des.spec.tmpl)
    <3> DEFINE n == ram.nver + 1
    <3>1. /\ ram'.dflt = n /\ ram'.seen = Shown(n) /\ ram'.text[n] = des.spec.tmpl
          /\ ram'.perm = ram.perm /\ n # 0
      BY <2>2, <1>a, Adding, Numbers
    <3>2. ram'.seen \in {n, ram.seen}
      BY <3>1 DEF Shown
    <3> QED
      BY <2>1, <3>1, <3>2
  <2>3. CASE pc' = "done"
    BY <2>3
  <2> QED
    BY <1>4, <2>2, <2>3 DEF CreatePermissionVersion, FailLatest, FailWith, Finish
<1>5. CASE DeleteNonDefaultPermissionVersion
  <2>1. UNCHANGED <<ram.perm, ram.seen, ram.dflt, ram.text, des>>
    BY <1>5, <1>a, Numbers DEF DeleteNonDefaultPermissionVersion, RamVersionDeleted, RamState
  <2>2. pc = "delver" /\ pc' \in {"setdef", "done"}
    BY <1>5 DEF DeleteNonDefaultPermissionVersion, FailLatest, FailWith, Finish
  <2> QED
    BY <2>1, <2>2
<1>6. CASE pc' \notin FoundPcs
  BY <1>6
<1>7. CASE UNCHANGED <<pc, des, lat>> /\ UNCHANGED <<ram.perm, ram.seen, ram.dflt, ram.text>>
  BY <1>7 DEF ShowsForce
<1>8. CASE Attach \/ Detach
  BY <1>7, <1>8, <1>a, Numbers DEF Attach, Detach, RamState
<1>9. CASE Propagate
  <2>1. /\ ram'.seen = ram.dflt /\ UNCHANGED <<ram.perm, ram.dflt, ram.text, pc, des, lat>>
        /\ ram.perm = "live"
    BY <1>9, <1>a, Numbers DEF Propagate, RamState
  <2>2. ram.dflt # 0
    BY <2>1, Shape DEF WaitInv
  <2> QED
    BY <2>1, <2>2 DEF ShowsForce
<1>10. CASE Purge
  <2>1. ram.perm # "live" /\ UNCHANGED pc
    BY <1>10 DEF Purge
  <2> QED
    BY <2>1
<1>11. CASE SetDefaultPermissionVersion \/ StartReconcile \/ MarkManaged \/ SdkCreate
            \/ PatchStatus \/ FindBeforeDelete \/ SdkDelete \/ MarkUnmanaged \/ CrashRestart
  BY <1>11, <1>6 DEF SetDefaultPermissionVersion, StartReconcile, MarkManaged, SdkCreate,
     PatchStatus, FindBeforeDelete, SdkDelete, MarkUnmanaged, CrashRestart, FailDesired, FailLatest,
     DeleteFailed, FailWith, Finish
<1>12. CASE EditSpec \/ DeleteResource \/ Resync \/ UNCHANGED vars
  BY <1>12, <1>7 DEF EditSpec, DeleteResource, Resync, vars
<1>13. CASE DeletedElsewhere
  BY <1>13 DEF DeletedElsewhere, Fault, Waits
<1> QED
  BY <1>1, <1>2, <1>3, <1>4, <1>5, <1>8, <1>9, <1>10, <1>11, <1>12, <1>13
  DEF Next, Worker, Update, Environment

LEMMA StepOutcomeInForce ==
  ASSUME Waits, PolicyInv, [Next]_vars
  PROVE  OutcomeInForce'
<1> USE DEF PolicyInv, OutcomeInForce, mem, env
<1>a. WaitInv
  OBVIOUS
<1>b. CASE pc' # "done" \/ out'.synced \in {"error", "False"}
  BY <1>b
<1>1. CASE SdkFind
  <2>1. CASE /\ RamFound /\ des.spec = RamRead.spec
             /\ Finish([arn |-> TRUE, ver |-> RamRead.ver, synced |-> "True"])
    <3>1. pc = "find" /\ UNCHANGED <<ram, des>> /\ out'.synced = "True"
      BY <1>1, <2>1 DEF SdkFind, Finish
    <3> QED
      BY <2>1, <3>1, ReadTells DEF ShowsForce
  <2> QED
    BY <1>1, <2>1, <1>b DEF SdkFind, FailDesired, FailWith, Finish
<1>2. CASE SdkCreate
  <2>1. pc = "create" /\ UNCHANGED des
    BY <1>2 DEF SdkCreate
  <2>2. CASE ram' = RamCreated(des.spec) /\ out'.synced = "True"
    BY <2>1, <2>2, <1>a, Creating DEF ShowsForce
  <2>3. CASE UNCHANGED ram /\ out'.synced = ErrorFor(des.spec.tmpl)
    BY <2>1, <2>3, TerminalWhenShown DEF ErrorFor, ShowsForce
  <2> QED
    BY <1>2, <2>2, <2>3, <1>b DEF SdkCreate, FailDesired, FailWith, Finish
<1>3. ASSUME AfterTags, pc \in {"status", "untag", "tag"}, UNCHANGED <<des, lat>>,
             UNCHANGED <<ram.perm, ram.seen, ram.dflt, ram.text>>
      PROVE  OutcomeInForce'
  <2>1. CASE TemplateDiffers
    BY <1>3, <2>1 DEF AfterTags
  <2>2. CASE ~TemplateDiffers
    BY <1>3, <2>2 DEF AfterTags, TemplateDiffers, Finish, Updated, ReadInForce, FoundPcs, ShowsForce
  <2> QED
    BY <2>1, <2>2
<1>4. CASE PatchLatestStatus
  <2>1. UNCHANGED <<ram, des, lat>> /\ pc = "status"
    BY <1>4 DEF PatchLatestStatus
  <2> QED
    BY <1>4, <2>1, <1>3, <1>b DEF PatchLatestStatus, FailLatest, FailWith, Finish
<1>5. CASE Tag
  <2>1. UNCHANGED <<ram.perm, ram.seen, ram.dflt, ram.text, des, lat>> /\ pc = "tag"
    BY <1>5, <1>a, Numbers DEF Tag, RamState
  <2> QED
    BY <1>5, <2>1, <1>3, <1>b DEF Tag, FailLatest, FailWith, Finish
<1>6. CASE CreatePermissionVersion
  <2>1. pc = "newver" /\ UNCHANGED des
    BY <1>6 DEF CreatePermissionVersion
  <2>2. CASE UNCHANGED ram /\ out'.synced = ErrorFor(des.spec.tmpl)
    BY <2>1, <2>2, TerminalWhenShown DEF ErrorFor, ShowsForce
  <2> QED
    BY <1>6, <2>2, <1>b DEF CreatePermissionVersion, FailLatest, FailWith, Finish
<1>7. CASE \/ StartReconcile \/ MarkManaged \/ Untag \/ DeleteNonDefaultPermissionVersion
           \/ SetDefaultPermissionVersion \/ PatchStatus \/ FindBeforeDelete \/ SdkDelete
           \/ MarkUnmanaged \/ CrashRestart
  BY <1>7, <1>b DEF StartReconcile, MarkManaged, Untag, DeleteNonDefaultPermissionVersion,
     SetDefaultPermissionVersion, PatchStatus, FindBeforeDelete, SdkDelete, MarkUnmanaged,
     CrashRestart, FailDesired, FailLatest, DeleteFailed, FailWith, Finish, Updated
<1>8. CASE UNCHANGED <<pc, des, out>> /\ UNCHANGED <<ram.perm, ram.seen, ram.dflt, ram.text>>
  BY <1>8 DEF ShowsForce
<1>9. CASE Attach \/ Detach
  BY <1>8, <1>9, <1>a, Numbers DEF Attach, Detach, RamState
<1>10. CASE Propagate
  <2>1. ram'.seen = ram.dflt /\ UNCHANGED <<ram.perm, ram.dflt, ram.text, pc, des, out>>
    BY <1>10, <1>a, Numbers DEF Propagate, RamState
  <2> QED
    BY <2>1 DEF ShowsForce
<1>11. CASE Purge
  <2>1. ram.perm # "live" /\ UNCHANGED <<ram.seen, ram.dflt, ram.text, pc, out>>
    BY <1>11, <1>a, Numbers DEF Purge, RamState
  <2> QED
    BY <2>1 DEF ShowsForce
<1>12. CASE EditSpec \/ DeleteResource \/ Resync \/ UNCHANGED vars
  BY <1>12, <1>8 DEF EditSpec, DeleteResource, Resync, vars
<1>13. CASE DeletedElsewhere
  BY <1>13 DEF DeletedElsewhere, Fault, Waits
<1> QED
  BY <1>1, <1>2, <1>4, <1>5, <1>6, <1>7, <1>9, <1>10, <1>11, <1>12, <1>13
  DEF Next, Worker, Update, Environment

\* For a user who waits, the policy in force is the one in the spec when the
\* resource has settled as Synced, even while GetPermission lags behind, and
\* whatever calls, answers, patches or workers fail: RAM refuses a second version of
\* one policy, and a refusal keeps the resource in the queue until RAM shows what it
\* has (customUpdatePermission).
THEOREM PatientPolicyInForce ==
  ASSUME Waits
  PROVE  Spec => []SyncedMeansPolicyInForce
<1>1. PolicyInv /\ [Next]_vars => PolicyInv'
  <2> SUFFICES ASSUME PolicyInv, [Next]_vars PROVE PolicyInv'
    OBVIOUS
  <2>1. WaitInv'
    BY StepWaitInv DEF PolicyInv
  <2>2. SyncedMeansPolicyInForce'
    BY Settling DEF Waits, PolicyInv, WaitInv, InHand, OutcomeInForce, SyncedMeansPolicyInForce
  <2> QED
    BY <2>1, <2>2, StepSeenBehind, StepReadInForce, StepOutcomeInForce DEF PolicyInv
<1>2. PolicyInv => SyncedMeansPolicyInForce
  BY DEF PolicyInv
<1> QED
  BY <1>1, <1>2, InitPolicyInv, PTL DEF Spec

-----------------------------------------------------------------------------
(* A user who waits and changes no name.                                   *)

\* RAM refuses no call, and the user edits neither the name nor the resource type,
\* which the hooks cannot change.
Patient == CallsServed /\ ~EditAnyTime /\ \A m, n \in Names : m = n

\* What GetPermission shows is never behind a version number the controller
\* holds, and when it lags behind the version in force it shows another policy.
SeenOrder ==
  ram.seen # 0 =>
    /\ cr.ver <= ram.seen /\ des.ver <= ram.seen /\ lat.ver <= ram.seen /\ out.ver <= ram.seen
    /\ ram.seen # ram.dflt => cr.ver = ram.seen /\ ram.text[ram.seen] # ram.text[ram.dflt]

\* How the version numbers in hand compare with the one in the custom resource.
CopiesOrdered ==
  /\ pc \notin {"idle", "done"} => des.ver = cr.ver
  /\ pc \in FoundPcs \cup {"delete"} => cr.ver <= lat.ver /\ lat.ver <= ram.seen /\ ram.seen # 0
  /\ pc \in FoundPcs => lat.ver = des.ver /\ lat.ver # 0
  /\ pc \in {"status", "untag", "tag"} => lat.spec.tmpl = ram.text[lat.ver]
  /\ pc = "status" => lat.spec # des.spec
  /\ pc \in {"untag", "tag"} => cr.ver = ram.dflt
  /\ pc = "done" => cr.ver <= out.ver

\* While the custom resource names an older version than the one in force, the
\* latter already has the policy and the tags of the spec, and the resource will
\* be reconciled again before the user may edit or delete it.
InForceAsSpec == ram.text[ram.dflt] = cr.spec.tmpl /\ ram.tags = cr.spec.tags
Lagging ==
  /\ cr.ver # ram.dflt => InForceAsSpec /\ (pc = "idle" => queued)
  /\ cr.life \in {"deleting", "gone"} => cr.ver = ram.dflt
  /\ pc = "done" =>
       /\ out.ver # ram.dflt => InForceAsSpec /\ out.synced \in {"error", "False"}
       /\ out.synced = "True" => ram.perm = "live" /\ ram.text[ram.dflt] = des.spec.tmpl

PatientInv ==
  TagInv /\ WaitInv /\ SeenOrder /\ CopiesOrdered /\ Lagging /\ SyncedMeansPolicyInForce

LEMMA Waiting == /\ PatientInv => WaitInv
                 /\ Patient => Waits
BY DEF PatientInv, Patient, CallsServed, Waits

LEMMA InitPatientInv == Init => PatientInv
<1> SUFFICES ASSUME Init PROVE PatientInv
  OBVIOUS
<1>1. TagInv /\ WaitInv
  BY InitTagInv, InitWaitInv
<1>2. /\ pc = "idle" /\ queued = TRUE /\ cr.ver = 0 /\ cr.life = "unmanaged"
      /\ ram.dflt = 0 /\ ram.seen = 0
  BY DEF Init
<1> QED
  BY <1>1, <1>2 DEF PatientInv, SeenOrder, CopiesOrdered, Lagging, FoundPcs,
     SyncedMeansPolicyInForce, SettledSynced, Quiet

\* RAM accepts a new version only for a resource that names the one in force,
\* and that GetPermission has already shown.
LEMMA AcceptedWhenCurrent ==
  ASSUME PatientInv, pc = "newver", RamCanAddVersion(des.spec.tmpl)
  PROVE  cr.ver = ram.dflt /\ ram.seen = ram.dflt /\ ram.dflt # 0 /\ ram.dflt \in ram.live
<1>1. ram.dflt \in ram.live /\ ram.text[ram.dflt] # des.spec.tmpl
  BY DEF RamCanAddVersion, PatientInv, WaitInv, RamNewest
<1>2. cr.ver = ram.dflt
  BY <1>1 DEF PatientInv, WaitInv, InHand, Lagging, InForceAsSpec
<1>3. cr.ver <= ram.seen /\ ram.seen # 0
  BY Numbers, Waiting DEF PatientInv, WaitInv, CopiesOrdered, FoundPcs
<1> QED
  BY <1>1, <1>2, <1>3, Numbers, Waiting

\* A read that agrees with the spec is of the version in force; one that does
\* not shows the version the resource names.
LEMMA ReadIsTelling ==
  ASSUME Patient, PatientInv, pc = "find", RamFound
  PROVE  /\ des.spec = RamRead.spec => ram.seen = ram.dflt
         /\ des.spec # RamRead.spec => ram.seen = cr.ver
<1>1. /\ ram.seen # 0 /\ des.spec = cr.spec /\ cr.ver <= ram.seen
      /\ ram.seen # ram.dflt => cr.ver = ram.seen /\ ram.text[ram.seen] # ram.text[ram.dflt]
      /\ cr.ver # ram.dflt => ram.text[ram.dflt] = cr.spec.tmpl /\ ram.tags = cr.spec.tags
  BY DEF PatientInv, WaitInv, RamFound, InHand, SeenOrder, Lagging, InForceAsSpec
<1>2. RamRead.spec = [tmpl |-> ram.text[ram.seen], tags |-> ram.tags, name |-> ram.name]
  BY DEF RamRead
<1>3. ASSUME des.spec = RamRead.spec PROVE ram.seen = ram.dflt
  BY <1>1, <1>2, <1>3
<1>4. ASSUME ram.seen # cr.ver PROVE des.spec = RamRead.spec
  <2>1. ram.text[ram.seen] = des.spec.tmpl /\ ram.tags = des.spec.tags
    BY <1>1, <1>4
  <2>2. ram.name = des.spec.name
    BY Numbers, Waiting DEF Patient, RamState, Desired, SpecFields
  <2>3. des.spec = [tmpl |-> des.spec.tmpl, tags |-> des.spec.tags, name |-> des.spec.name]
    BY Numbers, Waiting DEF Desired, SpecFields
  <2> QED
    BY <1>2, <2>1, <2>2, <2>3
<1> QED
  BY <1>3, <1>4

\* When the resource names an older version, its template is not one RAM rejects.
LEMMA LaggingIsRetried ==
  ASSUME PatientInv, cr.ver # ram.dflt, pc # "idle"
  PROVE  ErrorFor(des.spec.tmpl) = "error"
<1>1. ram.nver > 0
  BY Numbers, Waiting
<1> QED
  BY <1>1 DEF PatientInv, WaitInv, InHand, RamNewest, Lagging, InForceAsSpec, ErrorFor

\* RAM shows later versions as time goes by, never earlier ones.
LEMMA SeenGrows ==
  ASSUME Patient, PatientInv, [Next]_vars
  PROVE  ram.seen # 0 => ram'.seen >= ram.seen
<1> USE Numbers, Waiting DEF mem, env
<1>1. CASE UNCHANGED ram
  BY <1>1
<1>2. CASE SdkCreate
  BY <1>2, <1>1, FirstCreation, Waiting DEF SdkCreate
<1>3. CASE CreatePermissionVersion
  <2>1. CASE RamCanAddVersion(des.spec.tmpl) /\ ram' = RamVersionAdded(des.spec.tmpl)
    BY <2>1, Adding, Waiting DEF Shown
  <2> QED
    BY <1>3, <1>1, <2>1 DEF CreatePermissionVersion
<1>4. CASE SetDefaultPermissionVersion
  <2>1. ram' = ram \/ ram'.seen = Shown(newv)
    BY <1>4 DEF SetDefaultPermissionVersion, RamDefaultSet, RamState
  <2>2. newv = ram.nver
    BY <1>4 DEF SetDefaultPermissionVersion, PatientInv, WaitInv, RamNewest
  <2> QED
    BY <2>1, <2>2 DEF Shown
<1>5. CASE Untag \/ Tag \/ DeleteNonDefaultPermissionVersion \/ SdkDelete \/ Attach \/ Detach
           \/ DeletedElsewhere \/ Purge
  <2>1. ram'.seen = ram.seen
    BY <1>5 DEF Untag, Tag, DeleteNonDefaultPermissionVersion, SdkDelete, Attach, Detach,
       DeletedElsewhere, Purge, RamVersionDeleted, RamDeleted, RamState
  <2> QED
    BY <2>1
<1>6. CASE Propagate
  BY <1>6 DEF Propagate, RamState
<1> QED
  BY <1>1, <1>2, <1>3, <1>4, <1>5, <1>6
  DEF Next, Worker, Update, Environment, StartReconcile, SdkFind, MarkManaged, PatchLatestStatus,
      PatchStatus, FindBeforeDelete, MarkUnmanaged, EditSpec, DeleteResource, Resync,
      CrashRestart,
      vars

LEMMA StepSeenOrder ==
  ASSUME Patient, PatientInv, [Next]_vars
  PROVE  SeenOrder'
<1> USE Numbers, Waiting DEF PatientInv, WaitInv, SeenOrder, mem, env
<1>1. CASE StartReconcile
  BY <1>1 DEF StartReconcile
<1>2. CASE SdkFind
  <2>1. /\ UNCHANGED <<cr, des, ram>> /\ lat'.ver \in {lat.ver, ram.seen}
        /\ out'.ver \in {out.ver, ram.seen, des.ver}
    BY <1>2 DEF SdkFind, RamRead, FailDesired, FailWith, Finish
  <2> QED
    BY <2>1
<1>3. CASE MarkManaged
  <2>1. UNCHANGED <<ram, des, lat>> /\ cr'.ver = cr.ver /\ out'.ver \in {out.ver, des.ver}
    BY <1>3 DEF MarkManaged, FailDesired, FailWith, Finish, Resource
  <2> QED
    BY <2>1
<1>4. CASE SdkCreate
  <2>1. /\ UNCHANGED <<cr, des, lat>> /\ pc = "create"
    BY <1>4 DEF SdkCreate
  <2>2. CASE UNCHANGED ram /\ out'.ver = des.ver
    BY <2>1, <2>2
  <2>3. CASE ram.perm # "live" /\ ram' = RamCreated(des.spec) /\ out'.ver \in {1, des.ver}
    BY <2>1, <2>3, FirstCreation, Waiting, Creating
  <2> QED
    BY <1>4, <2>2, <2>3 DEF SdkCreate, FailDesired, FailWith, Finish
<1>5. CASE PatchLatestStatus
  <2>1. lat.ver = des.ver /\ des.ver = cr.ver
    BY <1>5 DEF PatchLatestStatus, CopiesOrdered, FoundPcs
  <2>2. UNCHANGED <<ram, des, lat>> /\ cr'.ver = cr.ver
    BY <1>5, <2>1 DEF PatchLatestStatus, Resource
  <2>3. out'.ver \in {out.ver, des.ver, lat.ver}
    BY <1>5 DEF PatchLatestStatus, AfterTags, Updated, FailLatest, FailWith, Finish
  <2> QED
    BY <2>1, <2>2, <2>3
<1>6. CASE Untag \/ Tag
  <2>1. UNCHANGED <<cr, des, lat, ram.seen, ram.dflt, ram.text>>
    BY <1>6 DEF Untag, Tag, RamState
  <2>2. out'.ver \in {out.ver, des.ver, lat.ver}
    BY <1>6 DEF Untag, Tag, AfterTags, Updated, FailLatest, FailWith, Finish
  <2> QED
    BY <2>1, <2>2
<1>7. CASE CreatePermissionVersion
  <2>1. UNCHANGED <<cr, des, lat>> /\ pc = "newver" /\ out'.ver \in {out.ver, lat.ver}
    BY <1>7 DEF CreatePermissionVersion, FailLatest, FailWith, Finish
  <2>2. CASE UNCHANGED ram
    BY <2>1, <2>2
  <2>3. CASE RamCanAddVersion(des.spec.tmpl) /\ ram' = RamVersionAdded(des.spec.tmpl)
    <3> DEFINE n == ram.nver + 1
    <3>1. cr.ver = ram.dflt /\ ram.seen = ram.dflt /\ ram.dflt # 0 /\ ram.dflt \in ram.live
      BY <2>1, <2>3, AcceptedWhenCurrent
    <3>2. /\ ram'.dflt = n /\ ram'.seen = Shown(n) /\ ram'.text[n] = des.spec.tmpl
          /\ ram'.text[ram.dflt] = ram.text[ram.dflt] /\ ram.text[ram.dflt] # des.spec.tmpl
      BY <2>3, <3>1, Adding, Waiting
    <3>3. CASE ram'.seen = n
      BY <2>1, <3>2, <3>3
    <3>4. CASE ram'.seen = ram.seen
      BY <2>1, <3>1, <3>2, <3>4
    <3> QED
      BY <3>2, <3>3, <3>4 DEF Shown
  <2> QED
    BY <1>7, <2>2, <2>3 DEF CreatePermissionVersion
<1>8. CASE DeleteNonDefaultPermissionVersion
  <2>1. UNCHANGED <<cr, des, lat, ram.seen, ram.dflt, ram.text>>
    BY <1>8 DEF DeleteNonDefaultPermissionVersion, RamVersionDeleted, RamState
  <2>2. out'.ver \in {out.ver, lat.ver}
    BY <1>8 DEF DeleteNonDefaultPermissionVersion, FailLatest, FailWith, Finish
  <2> QED
    BY <2>1, <2>2
<1>9. CASE SetDefaultPermissionVersion
  <2>1. newv = ram.dflt
    BY <1>9 DEF SetDefaultPermissionVersion, RamNewest
  <2>2. UNCHANGED <<cr, des, lat, ram.dflt, ram.text>> /\ ram'.seen \in {ram.seen, ram.dflt}
    BY <1>9, <2>1 DEF SetDefaultPermissionVersion, RamDefaultSet, Shown, RamState
  <2>3. out'.ver \in {des.ver, lat.ver}
    BY <1>9 DEF SetDefaultPermissionVersion, Updated, FailLatest, FailWith, Finish
  <2>4. CASE ram'.seen = ram.seen
    BY <2>2, <2>3, <2>4
  <2>5. CASE ram'.seen = ram.dflt
    BY <2>2, <2>3, <2>5
  <2> QED
    BY <2>2, <2>4, <2>5
<1>10. CASE PatchStatus
  <2>1. UNCHANGED ram /\ des'.ver = 0 /\ lat'.ver = 0 /\ out'.ver = 0 /\ pc = "done"
    BY <1>10 DEF PatchStatus, Forget, NoDesired, NoOutcome
  <2>2. cr'.ver \in {cr.ver, out.ver}
    BY <1>10 DEF PatchStatus, Resource
  <2>3. cr.ver <= out.ver
    BY <2>1 DEF CopiesOrdered
  <2> QED
    BY <2>1, <2>2, <2>3
<1>11. CASE FindBeforeDelete
  <2>1. /\ UNCHANGED <<cr, des, ram>> /\ lat'.ver \in {lat.ver, ram.seen}
        /\ out'.ver \in {out.ver, des.ver}
    BY <1>11 DEF FindBeforeDelete, RamRead, FailDesired, FailWith, Finish
  <2> QED
    BY <2>1
<1>12. CASE SdkDelete
  <2>1. UNCHANGED <<cr, des, lat, ram.seen, ram.dflt, ram.text>>
    BY <1>12 DEF SdkDelete, RamDeleted, RamState
  <2>2. out'.ver \in {out.ver, lat.ver}
    BY <1>12 DEF SdkDelete, DeleteFailed, FailLatest, FailWith, Finish
  <2> QED
    BY <2>1, <2>2
<1>13. CASE MarkUnmanaged
  <2>1. /\ UNCHANGED ram /\ cr'.ver = cr.ver /\ des'.ver \in {0, des.ver}
        /\ lat'.ver \in {0, lat.ver} /\ out'.ver \in {0, des.ver}
    BY <1>13 DEF MarkUnmanaged, Forget, NoDesired, NoOutcome, FailDesired, FailWith, Finish,
       Resource
  <2> QED
    BY <2>1
<1>14. CASE EditSpec \/ DeleteResource \/ Resync
  BY <1>14 DEF EditSpec, DeleteResource, Resync, Resource
<1>15. CASE CrashRestart
  BY <1>15 DEF CrashRestart, Forget, NoDesired, NoOutcome
<1>16. CASE Attach \/ Detach \/ Purge
  <2>1. UNCHANGED <<cr, des, lat, out, ram.seen, ram.dflt, ram.text>>
    BY <1>16 DEF Attach, Detach, Purge, RamState
  <2> QED
    BY <2>1
<1>17. CASE Propagate
  BY <1>17 DEF Propagate, RamState
<1>18. CASE DeletedElsewhere
  BY <1>18 DEF DeletedElsewhere, Fault, Patient, CallsServed
<1>19. CASE UNCHANGED vars
  BY <1>19 DEF vars
<1> QED
  BY <1>1, <1>2, <1>3, <1>4, <1>5, <1>6, <1>7, <1>8, <1>9, <1>10, <1>11, <1>12, <1>13, <1>14,
     <1>15, <1>16, <1>17, <1>18, <1>19 DEF Next, Worker, Update, Environment

LEMMA StepCopiesOrdered ==
  ASSUME Patient, PatientInv, [Next]_vars
  PROVE  CopiesOrdered'
<1>0. ram.seen # 0 => ram'.seen >= ram.seen /\ ram'.seen # 0
  <2>1. ram'.seen \in Nat
    <3>1. ram' \in RamState
      BY StepTypeInv DEF PatientInv, WaitInv, TagInv, VersionInv, TypeInv, TypeOK
    <3> QED
      BY <3>1, MaxVerAssumption DEF RamState
  <2> QED
    BY <2>1, SeenGrows, Numbers, Waiting
<1> USE Numbers, Waiting, <1>0 DEF PatientInv, WaitInv, CopiesOrdered, FoundPcs, mem, env
<1>1. CASE StartReconcile
  BY <1>1 DEF StartReconcile
<1>2. CASE SdkFind
  <2>1. /\ UNCHANGED <<cr, des, ram>> /\ pc = "find" /\ des.ver = cr.ver
    BY <1>2 DEF SdkFind
  <2>2. CASE pc' \in {"mark", "create"}
    BY <2>1, <2>2
  <2>3. CASE RamFound /\ lat' = RamRead /\ des.spec # RamRead.spec /\ pc' = "status"
    <3>1. ram.seen = cr.ver /\ ram.seen # 0
      BY <2>1, <2>3, ReadIsTelling DEF RamFound
    <3>2. lat'.ver = ram.seen /\ lat'.spec = RamRead.spec /\ lat'.spec.tmpl = ram.text[ram.seen]
      BY <2>3 DEF RamRead
    <3> QED
      BY <2>1, <2>3, <3>1, <3>2
  <2>4. CASE RamFound /\ pc' = "done" /\ out'.ver = ram.seen
    BY <2>1, <2>4 DEF RamFound, SeenOrder
  <2>5. CASE pc' = "done" /\ out'.ver = des.ver
    BY <2>1, <2>5
  <2> QED
    BY <1>2, <2>2, <2>3, <2>4, <2>5 DEF SdkFind, RamRead, FailDesired, FailWith, Finish
<1>3. CASE MarkManaged
  <2>1. /\ UNCHANGED <<ram, des>> /\ cr'.ver = cr.ver /\ des.ver = cr.ver
        /\ pc' = "create" \/ (pc' = "done" /\ out'.ver = des.ver)
    BY <1>3 DEF MarkManaged, FailDesired, FailWith, Finish, Resource
  <2> QED
    BY <2>1
<1>4. CASE SdkCreate
  <2>1. UNCHANGED <<cr, des>> /\ pc' = "done" /\ des.ver = cr.ver /\ pc = "create"
    BY <1>4 DEF SdkCreate, FailDesired, FailWith, Finish
  <2>2. CASE out'.ver = des.ver
    BY <2>1, <2>2
  <2>3. CASE ram.perm # "live" /\ out'.ver = 1
    BY <2>1, <2>3, FirstCreation, Waiting
  <2> QED
    BY <1>4, <2>2, <2>3 DEF SdkCreate, FailDesired, FailWith, Finish
<1>5. CASE PatchLatestStatus
  <2>1. /\ pc = "status" /\ UNCHANGED <<ram, des, lat>> /\ lat.ver = des.ver /\ des.ver = cr.ver
        /\ lat.ver <= ram.seen /\ ram.seen # 0 /\ lat.ver # 0
        /\ lat.spec.tmpl = ram.text[lat.ver]
    BY <1>5 DEF PatchLatestStatus
  <2>2. cr'.ver = cr.ver
    BY <1>5, <2>1 DEF PatchLatestStatus, Resource
  <2>3. CASE pc' = "untag"
    <3>1. TagsDiffer
      BY <1>5, <2>3 DEF PatchLatestStatus, AfterTags, FailLatest, FailWith, Finish
    <3>2. lat.spec.tags = ram.tags /\ des.spec = cr.spec
      BY <2>1 DEF TagInv, TagsAsRead, InHand
    <3>3. cr.ver = ram.dflt
      BY <3>1, <3>2 DEF TagsDiffer, Lagging, InForceAsSpec
    <3> QED
      BY <2>1, <2>2, <2>3, <3>3
  <2>4. CASE pc' = "newver"
    BY <2>1, <2>2, <2>4
  <2>5. CASE pc' = "done" /\ out'.ver \in {des.ver, lat.ver}
    BY <2>1, <2>2, <2>5
  <2> QED
    BY <1>5, <2>3, <2>4, <2>5
    DEF PatchLatestStatus, AfterTags, Updated, FailLatest, FailWith, Finish
<1>6. CASE Untag
  BY <1>6 DEF Untag, RamState
<1>7. CASE Tag
  <2>1. /\ pc = "tag" /\ UNCHANGED <<cr, des, lat>> /\ ram'.seen = ram.seen
        /\ pc' = "newver" \/ (pc' = "done" /\ out'.ver \in {des.ver, lat.ver})
    BY <1>7 DEF Tag, AfterTags, Updated, FailLatest, FailWith, Finish, RamState
  <2> QED
    BY <2>1
<1>8. CASE CreatePermissionVersion
  <2>1. /\ pc = "newver" /\ UNCHANGED <<cr, des, lat>>
        /\ pc' = "delver" \/ (pc' = "done" /\ out'.ver = lat.ver)
    BY <1>8 DEF CreatePermissionVersion, FailLatest, FailWith, Finish
  <2>2. ram'.seen \in Nat
    BY StepTypeInv, MaxVerAssumption DEF TagInv, VersionInv, TypeInv, TypeOK, RamState
  <2> QED
    BY <2>1, <2>2
<1>9. CASE DeleteNonDefaultPermissionVersion
  <2>1. /\ pc = "delver" /\ UNCHANGED <<cr, des, lat>> /\ ram'.seen = ram.seen
        /\ pc' = "setdef" \/ (pc' = "done" /\ out'.ver = lat.ver)
    BY <1>9 DEF DeleteNonDefaultPermissionVersion, RamVersionDeleted, FailLatest, FailWith,
       Finish,
       RamState
  <2> QED
    BY <2>1
<1>10. CASE SetDefaultPermissionVersion
  <2>1. /\ pc = "setdef" /\ UNCHANGED <<cr, des, lat>>
        /\ pc' = "done" /\ out'.ver \in {des.ver, lat.ver}
    BY <1>10 DEF SetDefaultPermissionVersion, Updated, FailLatest, FailWith, Finish
  <2> QED
    BY <2>1
<1>11. CASE pc' = "idle"
  BY <1>11
<1>12. CASE FindBeforeDelete
  <2>1. /\ UNCHANGED <<cr, des, ram>> /\ pc = "delfind" /\ des.ver = cr.ver
    BY <1>12 DEF FindBeforeDelete
  <2>2. CASE pc' = "delete" /\ RamFound /\ lat' = RamRead
    BY <2>1, <2>2 DEF RamFound, RamRead, SeenOrder
  <2>3. CASE pc' = "unmark" \/ (pc' = "done" /\ out'.ver = des.ver)
    BY <2>1, <2>3
  <2> QED
    BY <1>12, <2>2, <2>3 DEF FindBeforeDelete, FailDesired, FailWith, Finish
<1>13. CASE SdkDelete
  <2>1. /\ pc = "delete" /\ UNCHANGED <<cr, des, lat>>
        /\ pc' = "unmark" \/ (pc' = "done" /\ out'.ver = lat.ver)
    BY <1>13 DEF SdkDelete, DeleteFailed, FailLatest, FailWith, Finish
  <2> QED
    BY <2>1
<1>14. CASE MarkUnmanaged
  BY <1>14, <1>11 DEF MarkUnmanaged, FailDesired, FailWith, Finish
<1>15. CASE EditSpec \/ DeleteResource \/ Resync
  BY <1>15, <1>11 DEF EditSpec, DeleteResource, Resync, Quiet, Patient
<1>16. CASE UNCHANGED <<cr, pc, mem, ram.dflt, ram.text>>
  <2>1. ram'.seen \in Nat
    BY StepTypeInv, MaxVerAssumption DEF TagInv, VersionInv, TypeInv, TypeOK, RamState
  <2> QED
    BY <1>16, <2>1
<1>17. CASE Attach \/ Detach \/ Propagate \/ Purge
  BY <1>17, <1>16 DEF Attach, Detach, Propagate, Purge, RamState
<1>18. CASE DeletedElsewhere
  BY <1>18 DEF DeletedElsewhere, Fault, Patient, CallsServed
<1>19. CASE UNCHANGED vars
  BY <1>19, <1>16 DEF vars
<1> QED
  BY <1>1, <1>2, <1>3, <1>4, <1>5, <1>6, <1>7, <1>8, <1>9, <1>10, <1>11, <1>12, <1>13, <1>14,
     <1>15, <1>17, <1>18, <1>19 DEF Next, Worker, Update, Environment, PatchStatus, CrashRestart

LEMMA StepLagging ==
  ASSUME Patient, PatientInv, [Next]_vars
  PROVE  Lagging'
<1> USE Numbers, Waiting DEF PatientInv, WaitInv, Lagging, InForceAsSpec, mem, env
<1>1. CASE StartReconcile
  BY <1>1 DEF StartReconcile
<1>2. CASE SdkFind
  <2>1. UNCHANGED <<cr, des, ram>> /\ pc = "find" /\ des.ver = cr.ver
    BY <1>2 DEF SdkFind, CopiesOrdered
  <2>2. CASE pc' \in {"mark", "create", "status"}
    BY <2>1, <2>2
  <2>3. CASE /\ RamFound /\ des.spec = RamRead.spec
             /\ Finish([arn |-> TRUE, ver |-> RamRead.ver, synced |-> "True"])
    <3>1. ram.seen = ram.dflt
      BY <2>1, <2>3, ReadIsTelling
    <3>2. ram.perm = "live"
      BY <2>1, <2>3 DEF RamFound, TagInv, VersionInv, Retired, DeletePcs, RamState
    <3>3. ram.text[ram.dflt] = des.spec.tmpl /\ out'.ver = ram.dflt
      BY <2>3, <3>1 DEF RamRead, Finish
    <3> QED
      BY <2>1, <2>3, <3>2, <3>3 DEF Finish
  <2>4. CASE FailDesired("error")
    BY <2>1, <2>4 DEF FailDesired, FailWith, Finish
  <2> QED
    BY <1>2, <2>2, <2>3, <2>4 DEF SdkFind
<1>3. CASE MarkManaged
  <2>1. /\ UNCHANGED <<ram, des>> /\ cr'.ver = cr.ver /\ cr'.spec = cr.spec /\ des.ver = cr.ver
        /\ cr'.life \in {cr.life, "managed"}
    BY <1>3 DEF MarkManaged, CopiesOrdered, Resource
  <2>2. pc' = "create" \/ FailDesired("error")
    BY <1>3 DEF MarkManaged
  <2> QED
    BY <2>1, <2>2 DEF FailDesired, FailWith, Finish
<1>4. CASE SdkCreate
  <2>1. /\ UNCHANGED <<cr, des>> /\ pc' = "done" /\ des.ver = cr.ver /\ pc = "create"
        /\ des.spec = cr.spec /\ cr.life \notin {"deleting", "gone"}
    BY <1>4 DEF SdkCreate, FailDesired, FailWith, Finish, CopiesOrdered, InHand, DeletePcs
  <2>2. CASE ram' = RamCreated(des.spec) /\ (out'.ver = 1 \/ out'.synced = "error")
    <3>1. /\ ram'.perm = "live" /\ ram'.dflt = 1 /\ ram'.text[1] = des.spec.tmpl
          /\ ram'.tags = des.spec.tags
      BY <2>2, Creating
    <3> QED
      BY <2>1, <2>2, <3>1
  <2>3. CASE /\ UNCHANGED ram /\ out'.ver = des.ver
             /\ out'.synced \in {"error", ErrorFor(des.spec.tmpl)}
    <3>1. out'.synced # "True"
      BY <2>3 DEF ErrorFor
    <3> QED
      BY <2>1, <2>3, <3>1, LaggingIsRetried
  <2> QED
    BY <1>4, <2>2, <2>3 DEF SdkCreate, FailDesired, FailWith, Finish
<1>5. CASE PatchLatestStatus
  <2>1. /\ pc = "status" /\ UNCHANGED <<ram, des, lat>> /\ lat.ver = des.ver /\ des.ver = cr.ver
        /\ lat.spec # des.spec /\ lat.spec.tags = ram.tags /\ pc' # "idle"
    BY <1>5 DEF PatchLatestStatus, CopiesOrdered, FoundPcs, TagInv, TagsAsRead, AfterTags,
       FailLatest,
       FailWith, Finish
  <2>2. cr'.ver = cr.ver /\ cr'.spec = cr.spec /\ cr'.life = cr.life
    BY <1>5, <2>1 DEF PatchLatestStatus, Resource
  <2>3. TagsDiffer \/ TemplateDiffers
    <3>1. lat.spec.name = des.spec.name
      BY DEF Patient, Latest, Desired, SpecFields
    <3>2. /\ lat.spec = [tmpl |-> lat.spec.tmpl, tags |-> lat.spec.tags, name |-> lat.spec.name]
          /\ des.spec = [tmpl |-> des.spec.tmpl, tags |-> des.spec.tags, name |-> des.spec.name]
      BY DEF Latest, Desired, SpecFields
    <3> QED
      BY <2>1, <3>1, <3>2 DEF TagsDiffer, TemplateDiffers
  <2>4. pc' \in {"untag", "newver"} \/ FailLatest
    BY <1>5, <2>3 DEF PatchLatestStatus, AfterTags
  <2> QED
    BY <2>1, <2>2, <2>4 DEF FailLatest, FailWith, Finish
<1>6. CASE Untag
  <2>1. UNCHANGED <<cr, ram.dflt>> /\ pc = "untag" /\ pc' = "tag" /\ cr.ver = ram.dflt
    BY <1>6 DEF Untag, CopiesOrdered, RamState
  <2> QED
    BY <2>1
<1>7. CASE Tag
  <2>1. /\ UNCHANGED <<cr, des, lat, ram.dflt, ram.text, ram.perm>> /\ pc = "tag"
        /\ cr.ver = ram.dflt /\ des.ver = ram.dflt /\ lat.ver = ram.dflt
        /\ lat.spec.tmpl = ram.text[ram.dflt] /\ ram.perm = "live"
    BY <1>7, FoundIsLive DEF Tag, CopiesOrdered, FoundPcs, RamState
  <2>2. \/ pc' = "newver"
        \/ ~TemplateDiffers /\ pc' = "done" /\ out'.ver = des.ver
        \/ FailLatest
    BY <1>7 DEF Tag, AfterTags, Updated, Finish
  <2> QED
    BY <2>1, <2>2 DEF FailLatest, FailWith, Finish, TemplateDiffers
<1>8. CASE CreatePermissionVersion
  <2>1. /\ pc = "newver" /\ UNCHANGED <<cr, des, lat>> /\ lat.ver = cr.ver
        /\ pc' \in {"delver", "done"}
        /\ des.spec = cr.spec /\ cr.life \notin {"deleting", "gone"} /\ ram.tags = des.spec.tags
    BY <1>8 DEF CreatePermissionVersion, CopiesOrdered, FoundPcs, InHand, DeletePcs, TagInv,
       TagsAsRead,
       FailLatest, FailWith, Finish
  <2>2. CASE RamCanAddVersion(des.spec.tmpl) /\ ram' = RamVersionAdded(des.spec.tmpl)
    <3>1. ram'.text[ram'.dflt] = cr.spec.tmpl /\ ram'.tags = cr.spec.tags
      BY <2>1, <2>2, Adding, Waiting
    <3>2. pc' = "done" => out'.synced \in {"error", ErrorFor(des.spec.tmpl)} /\ out'.ver = lat.ver
      BY <1>8 DEF CreatePermissionVersion, FailLatest, FailWith, Finish
    <3>3. pc' = "done" => out'.synced = "error"
      <4>1. des.spec.tmpl \notin BadTemplates
        BY <2>2 DEF RamCanAddVersion
      <4> QED
        BY <3>2, <4>1 DEF ErrorFor
    <3> QED
      BY <2>1, <3>1, <3>3
  <2>3. CASE /\ UNCHANGED ram /\ out'.ver = lat.ver
             /\ out'.synced \in {"error", ErrorFor(des.spec.tmpl)}
    <3>1. out'.synced # "True"
      BY <2>3 DEF ErrorFor
    <3> QED
      BY <2>1, <2>3, <3>1, LaggingIsRetried
  <2> QED
    BY <1>8, <2>2, <2>3 DEF CreatePermissionVersion, FailLatest, FailWith, Finish
<1>9. CASE DeleteNonDefaultPermissionVersion
  <2>1. /\ UNCHANGED <<cr, des, lat, ram.dflt, ram.text, ram.tags>> /\ lat.ver = cr.ver
        /\ pc' = "setdef" \/ FailLatest
    BY <1>9 DEF DeleteNonDefaultPermissionVersion, RamVersionDeleted, CopiesOrdered, FoundPcs,
       RamState
  <2> QED
    BY <2>1 DEF FailLatest, FailWith, Finish
<1>10. CASE SetDefaultPermissionVersion
  <2>1. newv = ram.dflt
    BY <1>10 DEF SetDefaultPermissionVersion, RamNewest
  <2>2. /\ UNCHANGED <<cr, des, lat, ram.dflt, ram.text, ram.tags>>
        /\ lat.ver = cr.ver /\ des.ver = cr.ver
        /\ Finish(Updated("False")) \/ FailLatest
    BY <1>10, <2>1 DEF SetDefaultPermissionVersion, RamDefaultSet, CopiesOrdered, FoundPcs,
       RamState
  <2> QED
    BY <2>2 DEF Updated, FailLatest, FailWith, Finish
<1>11. CASE PatchStatus
  <2>1. UNCHANGED ram /\ pc' = "idle" /\ pc = "done" /\ cr.ver <= out.ver /\ cr.life # "gone"
    BY <1>11 DEF PatchStatus, CopiesOrdered, InHand
  <2>2. CASE UNCHANGED cr /\ queued' = TRUE
    BY <2>1, <2>2
  <2>3. CASE /\ cr'.ver = out.ver /\ cr'.spec = cr.spec /\ cr'.life = cr.life
             /\ out.synced \in {"error", "False"} => queued'
    <3>1. cr.life \in {"deleting", "gone"} => out.ver = ram.dflt
      BY <2>1
    <3>2. out.ver # ram.dflt => InForceAsSpec /\ queued'
      BY <2>1, <2>3
    <3> QED
      BY <2>1, <2>3, <3>1, <3>2
  <2> QED
    BY <1>11, <2>1, <2>2, <2>3 DEF PatchStatus, Resource
<1>12. CASE FindBeforeDelete
  <2>1. UNCHANGED <<cr, ram>> /\ pc = "delfind" /\ des.ver = cr.ver
    BY <1>12 DEF FindBeforeDelete, CopiesOrdered
  <2>2. pc' \in {"unmark", "delete"} \/ FailDesired("error")
    BY <1>12 DEF FindBeforeDelete
  <2> QED
    BY <2>1, <2>2 DEF FailDesired, FailWith, Finish
<1>13. CASE SdkDelete
  <2>1. /\ UNCHANGED <<cr, lat, ram.dflt, ram.text, ram.tags>> /\ pc = "delete"
        /\ cr.ver <= lat.ver
        /\ pc' = "unmark" \/ DeleteFailed
    BY <1>13 DEF SdkDelete, RamDeleted, CopiesOrdered, RamState
  <2> QED
    BY <2>1 DEF DeleteFailed, FailLatest, FailWith, Finish
<1>14. CASE MarkUnmanaged
  <2>1. /\ UNCHANGED ram /\ cr'.ver = cr.ver /\ cr'.spec = cr.spec /\ des.ver = cr.ver
        /\ cr.life = "deleting" /\ pc = "unmark"
    BY <1>14 DEF MarkUnmanaged, CopiesOrdered, Resource, TagInv, VersionInv, Retired, DeletePcs
  <2>2. (pc' = "idle") \/ FailDesired("error")
    BY <1>14 DEF MarkUnmanaged
  <2> QED
    BY <2>1, <2>2 DEF FailDesired, FailWith, Finish
<1>15. CASE EditSpec \/ DeleteResource \/ Resync
  <2>1. UNCHANGED ram /\ cr'.ver = cr.ver /\ pc = "idle" /\ ~queued /\ pc' = "idle"
        /\ (cr.life \in {"deleting", "gone"} => cr.ver = ram.dflt)
    BY <1>15 DEF EditSpec, DeleteResource, Resync, Quiet, Patient, Resource
  <2> QED
    BY <2>1
<1>16. CASE CrashRestart
  BY <1>16 DEF CrashRestart
<1>17. CASE Attach \/ Detach \/ Propagate \/ Purge
  <2>1. /\ UNCHANGED <<cr, pc, mem, queued, ram.dflt, ram.text, ram.tags>>
        /\ ram.perm = "live" => ram'.perm = "live"
    BY <1>17 DEF Attach, Detach, Propagate, Purge, RamState
  <2> QED
    BY <2>1
<1>18. CASE DeletedElsewhere
  BY <1>18 DEF DeletedElsewhere, Fault, Patient, CallsServed
<1>19. CASE UNCHANGED vars
  BY <1>19 DEF vars
<1> QED
  BY <1>1, <1>2, <1>3, <1>4, <1>5, <1>6, <1>7, <1>8, <1>9, <1>10, <1>11, <1>12, <1>13, <1>14,
     <1>15, <1>16, <1>17, <1>18, <1>19 DEF Next, Worker, Update, Environment

LEMMA StepPatientInv == ASSUME Patient, PatientInv, [Next]_vars PROVE PatientInv'
<1>1. TagInv'
  BY StepTagInv DEF Patient, PatientInv
<1>2. SyncedMeansPolicyInForce'
  BY Settling DEF Patient, PatientInv, WaitInv, CallsServed, TagInv, SyncedMeansPolicyInForce,
     Lagging, InHand
<1> QED
  BY <1>1, <1>2, Waiting, StepWaitInv, StepSeenOrder, StepCopiesOrdered, StepLagging
  DEF PatientInv

\* For a user who waits, Status.Version never goes back: what an update writes,
\* taken from the status it began with, is what the same update read from RAM.
THEOREM VersionGrows ==
  ASSUME Patient
  PROVE  Spec => VersionNeverGoesBack
<1>1. PatientInv /\ [Next]_vars => PatientInv'
  BY StepPatientInv
<1>2. PatientInv /\ [Next]_vars => [cr'.ver >= cr.ver]_vars
  <2> SUFFICES ASSUME PatientInv, [Next]_vars
               PROVE  cr'.ver = cr.ver \/ cr'.ver >= cr.ver \/ UNCHANGED vars
    BY Numbers, Waiting
  <2> USE Numbers, Waiting DEF Resource, mem, env
  <2>1. CASE PatchLatestStatus
    BY <2>1 DEF PatchLatestStatus, PatientInv, CopiesOrdered, FoundPcs
  <2>2. CASE PatchStatus
    BY <2>2 DEF PatchStatus, PatientInv, CopiesOrdered
  <2>3. CASE MarkManaged \/ MarkUnmanaged \/ EditSpec \/ DeleteResource
    BY <2>3 DEF MarkManaged, MarkUnmanaged, EditSpec, DeleteResource
  <2> QED
    BY <2>1, <2>2, <2>3
    DEF Next, Worker, Update, Environment, StartReconcile, SdkFind, SdkCreate, Untag, Tag,
        CreatePermissionVersion, DeleteNonDefaultPermissionVersion, SetDefaultPermissionVersion,
        FindBeforeDelete, SdkDelete, Resync, CrashRestart, Attach, Detach, DeletedElsewhere,
        Propagate, Purge
<1> QED
  BY <1>1, <1>2, InitPatientInv, PTL DEF Spec, VersionNeverGoesBack

-----------------------------------------------------------------------------
(* No version is left behind.                                              *)

\* No call fails, no answer and no worker is lost, and no share uses the
\* permission: only patches of the custom resource may fail.
OnlyPatchesFail == Faults \subseteq {"patch"}

\* Besides the version in force, only the one an update is about to delete is live.
OldVersionGoes ==
  /\ ram.attached = {}
  /\ ram.perm = "live" => ram.live = IF pc = "delver" THEN {des.ver, ram.dflt} ELSE {ram.dflt}

LEMMA StepOldVersionGoes ==
  ASSUME Patient, OnlyPatchesFail, PatientInv, OldVersionGoes, [Next]_vars
  PROVE  OldVersionGoes'
<1>0. \A kind \in Faults : kind = "patch"
  BY DEF OnlyPatchesFail
<1> USE Numbers, Waiting, <1>0 DEF OldVersionGoes, mem, env, Fault
<1>1. CASE UNCHANGED ram /\ pc # "delver" /\ pc' # "delver"
  BY <1>1
<1>2. CASE StartReconcile
  BY <1>1, <1>2 DEF StartReconcile
<1>3. CASE SdkFind
  BY <1>1, <1>3 DEF SdkFind, FailDesired, FailWith, Finish
<1>4. CASE MarkManaged
  BY <1>1, <1>4 DEF MarkManaged, FailDesired, FailWith, Finish
<1>5. CASE SdkCreate
  <2>1. pc' = "done" /\ pc = "create"
    BY <1>5 DEF SdkCreate, FailDesired, FailWith, Finish
  <2>2. CASE ram' = RamCreated(des.spec)
    BY <2>1, <2>2, Creating
  <2> QED
    BY <1>1, <1>5, <2>1, <2>2 DEF SdkCreate
<1>6. CASE PatchLatestStatus
  BY <1>1, <1>6 DEF PatchLatestStatus, AfterTags, FailLatest, FailWith, Finish
<1>7. CASE Untag \/ Tag
  <2>1. pc' # "delver" /\ pc # "delver" /\ UNCHANGED <<ram.live, ram.dflt, ram.perm, ram.attached>>
    BY <1>7 DEF Untag, Tag, AfterTags, FailLatest, FailWith, Finish, RamState
  <2> QED
    BY <2>1
<1>8. CASE CreatePermissionVersion
  <2>1. CASE RamCanAddVersion(des.spec.tmpl) /\ ram' = RamVersionAdded(des.spec.tmpl)
    <3>1. pc = "newver" /\ pc' = "delver" /\ UNCHANGED des
      BY <1>8, <2>1 DEF CreatePermissionVersion
    <3>2. des.ver = ram.dflt
      BY <2>1, <3>1, AcceptedWhenCurrent DEF PatientInv, WaitInv, CopiesOrdered
    <3>3. ram'.live = {ram.dflt} \cup {ram'.dflt} /\ ram'.attached = {}
      BY <2>1, <3>1, Adding, Waiting
    <3> QED
      BY <3>1, <3>2, <3>3
  <2>2. CASE UNCHANGED ram /\ pc' = "done"
    BY <1>1, <1>8, <2>2 DEF CreatePermissionVersion
  <2> QED
    BY <1>8, <2>1, <2>2 DEF CreatePermissionVersion, FailLatest, FailWith, Finish
<1>9. CASE DeleteNonDefaultPermissionVersion
  <2>1. pc = "delver" /\ pc' # "delver"
    BY <1>9 DEF DeleteNonDefaultPermissionVersion, FailLatest, FailWith, Finish
  <2>2. ram.perm = "live" /\ des.ver # ram.dflt
    BY <2>1, FoundIsLive DEF FoundPcs, PatientInv, TagInv, VersionInv, DefaultAhead
  <2>3. RamCanDeleteVersion(des.ver)
    BY <2>1, <2>2 DEF RamCanDeleteVersion
  <2>4. ram'.live = ram.live \ {des.ver} /\ UNCHANGED <<ram.dflt, ram.perm, ram.attached>>
    BY <1>9, <2>3 DEF DeleteNonDefaultPermissionVersion, VersionToDelete, RamVersionDeleted,
       RamState
  <2> QED
    BY <2>1, <2>2, <2>4
<1>10. CASE SetDefaultPermissionVersion
  <2>1. pc = "setdef" /\ pc' = "done" /\ newv = ram.dflt
    BY <1>10 DEF SetDefaultPermissionVersion, FailLatest, FailWith, Finish, PatientInv, WaitInv,
       RamNewest
  <2>2. UNCHANGED <<ram.live, ram.dflt, ram.perm, ram.attached>>
    BY <1>10, <2>1 DEF SetDefaultPermissionVersion, RamDefaultSet, RamState
  <2> QED
    BY <2>1, <2>2
<1>11. CASE PatchStatus
  BY <1>1, <1>11 DEF PatchStatus
<1>12. CASE FindBeforeDelete
  BY <1>1, <1>12 DEF FindBeforeDelete, FailDesired, FailWith, Finish
<1>13. CASE SdkDelete
  BY <1>13 DEF SdkDelete, RamDeleted, DeleteFailed, FailLatest, FailWith, Finish, RamState
<1>14. CASE MarkUnmanaged
  BY <1>1, <1>14 DEF MarkUnmanaged, FailDesired, FailWith, Finish
<1>15. CASE EditSpec \/ DeleteResource \/ Resync
  BY <1>15 DEF EditSpec, DeleteResource, Resync
<1>16. CASE CrashRestart \/ Attach \/ DeletedElsewhere
  BY <1>16 DEF CrashRestart, Attach, DeletedElsewhere
<1>17. CASE Detach \/ Propagate \/ Purge
  BY <1>17 DEF Detach, Propagate, Purge, RamState
<1>18. CASE UNCHANGED vars
  BY <1>18 DEF vars
<1> QED
  BY <1>2, <1>3, <1>4, <1>5, <1>6, <1>7, <1>8, <1>9, <1>10, <1>11, <1>12, <1>13, <1>14,
     <1>15, <1>16, <1>17, <1>18 DEF Next, Worker, Update, Environment

\* For a user who waits, and as long as only patches fail, a permission that has
\* settled as Synced has no live version besides its default: the version number
\* that updatePermission deletes is the one that was in force.
THEOREM OldVersionsDeleted ==
  ASSUME Patient, OnlyPatchesFail
  PROVE  Spec => []OneVersionWhenSynced
<1>1. Init => PatientInv /\ OldVersionGoes
  <2>1. Init => OldVersionGoes
    BY DEF Init, OldVersionGoes
  <2> QED
    BY <2>1, InitPatientInv
<1>2. PatientInv /\ OldVersionGoes /\ [Next]_vars => PatientInv' /\ OldVersionGoes'
  BY StepPatientInv, StepOldVersionGoes
<1>3. PatientInv /\ OldVersionGoes => OneVersionWhenSynced
  BY DEF PatientInv, WaitInv, OldVersionGoes, OneVersionWhenSynced, SyncedMeansPolicyInForce,
     SettledSynced,
     Quiet
<1> QED
  BY <1>1, <1>2, <1>3, PTL DEF Spec
=============================================================================
