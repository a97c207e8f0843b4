-------------------------- MODULE PermissionProofs --------------------------
(***************************************************************************)
(* Theorems about Permission, for every value of its constants: its types  *)
(* and version numbers, what it calls RAM with, and that it implements     *)
(* PermissionResource as long as RAM shows its latest write and nobody     *)
(* else deletes the permission; and that the finalizer outlasts the        *)
(* permission, whoever deletes it and however late RAM is with versions.   *)
(***************************************************************************)
EXTENDS Permission, TLAPS

\* The version numbers RAM has handed out are exactly 1..nver; everything RAM
\* knows about versions stays within them, and each of them has a text.
VersionNumbers ==
  /\ ram.dflt <= ram.nver /\ ram.seen <= ram.nver
  /\ ram.perm = "live" => ram.dflt # 0
  /\ ram.live \subseteq 1..ram.nver
  /\ \A v \in 1..ram.nver : ram.text[v] \in Templates

TypeInv == TypeOK /\ VersionNumbers

LEMMA BlankType == Blank \in SpecFields
<1>1. PICK t \in Templates, n \in Names : TRUE
  BY NonEmptyAssumption
<1>2. [tmpl |-> t, tags |-> Untagged, name |-> n] \in SpecFields
  BY <1>1 DEF SpecFields, Tagging, Untagged
<1> QED
  BY <1>2 DEF Blank

LEMMA InitTypeInv == Init => TypeInv
<1> SUFFICES ASSUME Init PROVE TypeInv
  OBVIOUS
<1>1. Blank.tags \in Tagging /\ Blank.name \in Names
  BY BlankType DEF SpecFields
<1>2. cr \in Resource
  BY MaxVerAssumption DEF Init, Resource, Synced
<1>3. /\ des \in Desired /\ lat \in Latest /\ out \in Outcome
      /\ newv \in 0..MaxVer /\ edits \in 0..MaxEdits /\ faults \in 0..MaxFaults
  BY BlankType, MaxVerAssumption, BoundAssumption
  DEF Init, NoDesired, Desired, Latest, Outcome, NoOutcome, Synced
<1>4. ram \in RamState
  BY <1>1, MaxVerAssumption DEF Init, RamState, Versions
<1>5. VersionNumbers
  BY DEF Init, VersionNumbers
<1> QED
  BY <1>2, <1>3, <1>4, <1>5 DEF TypeInv, TypeOK, Init, Calls

\* What GetPermission returns is a well-formed resource.
LEMMA RamReadType == ASSUME TypeInv, RamFound PROVE RamRead \in Latest
<1>1. ram.seen \in 1..ram.nver /\ ram.text[ram.seen] \in Templates
  BY DEF TypeInv, TypeOK, RamState, VersionNumbers, RamFound
<1> QED
  BY <1>1 DEF TypeInv, TypeOK, RamState, RamRead, Latest, SpecFields

LEMMA ForgetType ==
  ASSUME Forget
  PROVE  des' \in Desired /\ lat' \in Latest /\ newv' \in 0..MaxVer /\ out' \in Outcome
BY BlankType, MaxVerAssumption DEF Forget, NoDesired, Desired, Latest, Outcome, NoOutcome, Synced

\* However a reconcile ends, what it is about to patch is a well-formed status.
LEMMA EndType ==
  ASSUME TypeInv,
         \/ \E c \in Synced : FailDesired(c) \/ FailWith(TRUE, lat.ver, c) \/ Finish(Updated(c))
         \/ FailLatest \/ DeleteFailed \/ AfterTags
         \/ Finish([arn |-> TRUE, ver |-> 1, synced |-> "True"])
  PROVE  pc' \in Calls /\ out' \in Outcome
<1> USE DEF TypeInv, TypeOK, Outcome, Desired, Latest
<1>1. "done" \in Calls /\ "newver" \in Calls
  BY DEF Calls
<1>2. "True" \in Synced /\ "error" \in Synced /\ 1 \in 0..MaxVer
  BY MaxVerAssumption DEF Synced
<1>3. ASSUME NEW arn \in BOOLEAN, NEW ver \in 0..MaxVer, NEW c \in Synced,
             Finish([arn |-> arn, ver |-> ver, synced |-> c])
      PROVE  pc' \in Calls /\ out' \in Outcome
  BY <1>1, <1>3 DEF Finish
<1>4. des.arn \in BOOLEAN /\ des.ver \in 0..MaxVer /\ lat.ver \in 0..MaxVer
  OBVIOUS
<1>5. ASSUME AfterTags PROVE pc' \in Calls /\ out' \in Outcome
  BY <1>1, <1>2, <1>3, <1>4, <1>5 DEF AfterTags, Updated
<1>6. ASSUME NEW c \in Synced,
             FailDesired(c) \/ FailWith(TRUE, lat.ver, c) \/ Finish(Updated(c))
      PROVE  pc' \in Calls /\ out' \in Outcome
  BY <1>3, <1>4, <1>6 DEF FailDesired, FailWith, Updated
<1>7. ASSUME FailLatest \/ DeleteFailed PROVE pc' \in Calls /\ out' \in Outcome
  BY <1>2, <1>6, <1>7 DEF FailLatest, DeleteFailed
<1> QED
  BY <1>2, <1>3, <1>5, <1>6, <1>7

\* The answers RAM gives keep its state well formed.
LEMMA RamCreatedType ==
  ASSUME TypeInv, NEW s \in SpecFields, ram' = RamCreated(s)
  PROVE  ram' \in RamState /\ VersionNumbers'
BY MaxVerAssumption DEF TypeInv, TypeOK, RamState, VersionNumbers, RamCreated, SpecFields, Versions

LEMMA RamVersionAddedType ==
  ASSUME TypeInv, NEW t \in Templates, RamCanAddVersion(t), ram' = RamVersionAdded(t)
  PROVE  ram' \in RamState /\ VersionNumbers' /\ ram'.nver = ram.nver + 1
<1> DEFINE n == ram.nver + 1
<1>1. ram.nver \in 0..MaxVer /\ n \in Versions /\ ram.seen \in 0..MaxVer
  BY MaxVerAssumption DEF TypeInv, TypeOK, RamState, RamCanAddVersion, Versions
<1>2. Shown(n) \in 0..MaxVer /\ Shown(n) <= n
  BY <1>1, MaxVerAssumption DEF Shown, TypeInv, VersionNumbers, Versions
<1>3. /\ ram'.nver = n /\ ram'.dflt = n /\ ram'.seen = Shown(n)
      /\ ram'.live = ram.live \cup {n}
      /\ ram'.text = [ram.text EXCEPT ![n] = t]
      /\ UNCHANGED <<ram.perm, ram.tags, ram.name, ram.attached>>
  BY DEF TypeInv, TypeOK, RamState, RamVersionAdded
<1>4. ram'.text \in [Versions -> Templates \cup {NoTemplate}]
  BY <1>3 DEF TypeInv, TypeOK, RamState
<1>5. ram' \in RamState
  <2> n \in 0..MaxVer
    BY <1>1, MaxVerAssumption DEF Versions
  <2> HIDE DEF n
  <2> QED
    BY <1>1, <1>2, <1>4 DEF TypeInv, TypeOK, RamState, RamVersionAdded, n
<1>6. VersionNumbers'
  <2>1. \A v \in 1..n : ram'.text[v] \in Templates
    <3> SUFFICES ASSUME NEW v \in 1..n PROVE ram'.text[v] \in Templates
      OBVIOUS
    <3>1. CASE v = n
      BY <3>1, <1>1, <1>3 DEF TypeInv, TypeOK, RamState
    <3>2. CASE v # n
      <4>1. v \in 1..ram.nver /\ v \in Versions
        BY <3>2, <1>1, MaxVerAssumption DEF Versions
      <4> QED
        BY <4>1, <3>2, <1>3 DEF TypeInv, TypeOK, RamState, VersionNumbers
    <3> QED
      BY <3>1, <3>2
  <2>2. ram'.live \subseteq 1..n
    BY <1>1, <1>3 DEF TypeInv, VersionNumbers
  <2> QED
    BY <1>1, <1>2, <1>3, <2>1, <2>2 DEF VersionNumbers
<1> QED
  BY <1>3, <1>5, <1>6

LEMMA RamOtherType ==
  ASSUME TypeInv, NEW v \in 0..MaxVer,
         \/ ram' = RamVersionDeleted(v)
         \/ RamCanSetDefault(v) /\ ram' = RamDefaultSet(v)
         \/ ram' = RamDeleted
  PROVE  ram' \in RamState /\ VersionNumbers' /\ ram'.nver = ram.nver
<1> USE DEF TypeInv, TypeOK, RamState, VersionNumbers
<1>1. CASE ram' = RamVersionDeleted(v)
  BY <1>1 DEF RamVersionDeleted
<1>2. CASE RamCanSetDefault(v) /\ ram' = RamDefaultSet(v)
  <2>1. v \in 1..ram.nver /\ Shown(v) \in 0..MaxVer /\ Shown(v) <= ram.nver
    BY <1>2 DEF RamCanSetDefault, Shown
  <2>2. /\ ram'.dflt = v /\ ram'.seen = Shown(v)
        /\ UNCHANGED <<ram.text, ram.live, ram.nver>>
    BY <1>2 DEF RamDefaultSet
  <2>3. ram' \in RamState
    BY <1>2, <2>1 DEF RamDefaultSet
  <2> QED
    BY <2>1, <2>2, <2>3
<1>3. CASE ram' = RamDeleted
  <2>1. /\ ram'.perm = "deleted" /\ ram'.live = {}
        /\ UNCHANGED <<ram.text, ram.dflt, ram.nver, ram.seen>>
    BY <1>3 DEF RamDeleted
  <2>2. ram' \in RamState
    BY <1>3 DEF RamDeleted
  <2> QED
    BY <2>1, <2>2
<1> QED
  BY <1>1, <1>2, <1>3

-----------------------------------------------------------------------------
LEMMA StepTypeInv == TypeInv /\ [Next]_vars => TypeInv'
<1> SUFFICES ASSUME TypeInv, [Next]_vars PROVE TypeInv'
  OBVIOUS
<1> USE MaxVerAssumption, BoundAssumption
    DEF TypeInv, TypeOK, Calls, mem, env, NoFault, Fault, Finish, Desired, Latest, Outcome, Synced
<1>1. CASE StartReconcile
  BY <1>1 DEF StartReconcile, Resource, VersionNumbers
<1>2. CASE SdkFind
  <2>1. out' \in Outcome /\ lat' \in Latest
    <3>1. CASE UNCHANGED <<lat, out>> \/ (FailDesired("error") /\ UNCHANGED lat)
      BY <3>1, EndType
    <3>2. CASE RamFound /\ lat' = RamRead
               /\ (UNCHANGED out
                   \/ Finish([arn |-> TRUE, ver |-> RamRead.ver, synced |-> "True"]))
      <4>1. RamRead \in Latest /\ RamRead.ver \in 0..MaxVer
        BY <3>2, RamReadType
      <4>2. [arn |-> TRUE, ver |-> RamRead.ver, synced |-> "True"] \in Outcome
        BY <4>1
      <4> QED
        BY <3>2, <4>1, <4>2
    <3> QED
      BY <1>2, <3>1, <3>2 DEF SdkFind
  <2> QED
    BY <1>2, <2>1 DEF SdkFind, FailDesired, FailWith, VersionNumbers
<1>3. CASE MarkManaged
  BY <1>3 DEF MarkManaged, FailDesired, FailWith, Resource, VersionNumbers
<1>4. CASE SdkCreate
  <2>1. pc' \in Calls /\ out' \in Outcome
    BY <1>4, EndType DEF SdkCreate, ErrorFor, Synced
  <2>2. ram' \in RamState /\ VersionNumbers'
    BY <1>4, RamCreatedType DEF SdkCreate, VersionNumbers
  <2> QED
    BY <1>4, <2>1, <2>2 DEF SdkCreate
<1>5. CASE PatchLatestStatus
  <2>1. pc' \in Calls /\ out' \in Outcome
    BY <1>5, EndType DEF PatchLatestStatus, Calls
  <2>2. cr' \in Resource
    BY <1>5 DEF PatchLatestStatus, Resource, Latest
  <2> QED
    BY <1>5, <2>1, <2>2 DEF PatchLatestStatus, VersionNumbers
<1>6. CASE Untag
  BY <1>6 DEF Untag, UntagKeys, RamState, Tagging, VersionNumbers
<1>7. CASE Tag
  <2>1. pc' \in Calls /\ out' \in Outcome
    BY <1>7, EndType DEF Tag
  <2>2. ram' \in RamState /\ VersionNumbers'
    <3>1. TagKeysAs(ram.tags, Added, des.spec.tags) \in Tagging
      BY DEF TagKeysAs, Tagging, RamState, Desired, SpecFields
    <3> QED
      BY <1>7, <3>1 DEF Tag, RamState, VersionNumbers
  <2> QED
    BY <1>7, <2>1, <2>2 DEF Tag
<1>8. CASE CreatePermissionVersion
  <2>1. pc' \in Calls /\ out' \in Outcome
    BY <1>8, EndType DEF CreatePermissionVersion, ErrorFor, Synced, Calls
  <2>2. ram' \in RamState /\ VersionNumbers' /\ newv' \in 0..MaxVer
    <3>1. CASE UNCHANGED <<ram, newv>>
      BY <3>1 DEF VersionNumbers
    <3>2. CASE /\ RamCanAddVersion(des.spec.tmpl) /\ newv' = ram.nver + 1
               /\ ram' = RamVersionAdded(des.spec.tmpl)
      <4>1. des.spec.tmpl \in Templates
        BY DEF Desired, SpecFields
      <4>2. ram' \in RamState /\ VersionNumbers' /\ ram'.nver = ram.nver + 1
        BY <3>2, <4>1, RamVersionAddedType
      <4> QED
        BY <3>2, <4>2 DEF RamState
    <3> QED
      BY <1>8, <3>1, <3>2 DEF CreatePermissionVersion
  <2> QED
    BY <1>8, <2>1, <2>2 DEF CreatePermissionVersion, FailLatest, FailWith
<1>9. CASE DeleteNonDefaultPermissionVersion
  <2>1. pc' \in Calls /\ out' \in Outcome
    BY <1>9, EndType DEF DeleteNonDefaultPermissionVersion, Calls
  <2>2. des.ver \in 0..MaxVer
    BY DEF Desired
  <2>3. ram' \in RamState /\ VersionNumbers'
    BY <1>9, <2>2, RamOtherType
    DEF DeleteNonDefaultPermissionVersion, VersionToDelete, VersionNumbers
  <2> QED
    BY <1>9, <2>1, <2>3 DEF DeleteNonDefaultPermissionVersion
<1>10. CASE SetDefaultPermissionVersion
  <2>1. pc' \in Calls /\ out' \in Outcome
    BY <1>10, EndType DEF SetDefaultPermissionVersion, Synced
  <2>2. ram' \in RamState /\ VersionNumbers'
    BY <1>10, RamOtherType DEF SetDefaultPermissionVersion, VersionNumbers
  <2> QED
    BY <1>10, <2>1, <2>2 DEF SetDefaultPermissionVersion
<1>11. CASE PatchStatus
  <2>1. cr' \in Resource
    <3>1. out.arn \in BOOLEAN /\ out.ver \in 0..MaxVer /\ out.synced \in Synced
      OBVIOUS
    <3>2. \/ cr' = cr
          \/ cr' = [cr EXCEPT !.arn = out.arn, !.ver = out.ver, !.synced = out.synced]
      BY <1>11 DEF PatchStatus
    <3> QED
      BY <3>1, <3>2 DEF Resource
  <2>2. VersionNumbers' /\ ram' \in RamState
    BY <1>11 DEF PatchStatus, VersionNumbers
  <2>3. queued' \in BOOLEAN
    BY <1>11 DEF PatchStatus
  <2> QED
    BY <1>11, <2>1, <2>2, <2>3, ForgetType DEF PatchStatus
<1>12. CASE FindBeforeDelete
  BY <1>12, RamReadType DEF FindBeforeDelete, FailDesired, FailWith, VersionNumbers
<1>13. CASE SdkDelete
  <2>1. pc' \in Calls /\ out' \in Outcome
    BY <1>13, EndType DEF SdkDelete, Calls
  <2>2. ram' \in RamState /\ VersionNumbers'
    BY <1>13, RamOtherType DEF SdkDelete, VersionNumbers
  <2> QED
    BY <1>13, <2>1, <2>2 DEF SdkDelete
<1>14. CASE MarkUnmanaged
  BY <1>14, ForgetType DEF MarkUnmanaged, Resource, FailDesired, FailWith, VersionNumbers
<1>15. CASE EditSpec
  BY <1>15 DEF EditSpec, Resource, VersionNumbers
<1>16. CASE DeleteResource
  BY <1>16 DEF DeleteResource, Resource, VersionNumbers
<1>17. CASE Resync
  BY <1>17 DEF Resync, VersionNumbers
<1>18. CASE CrashRestart
  BY <1>18, ForgetType DEF CrashRestart, VersionNumbers
<1>19. CASE Attach
  <2>1. ram.attached \cup {ram.dflt} \subseteq Versions
    BY <1>19 DEF Attach, RamState, VersionNumbers, Versions
  <2> QED
    BY <1>19, <2>1 DEF Attach, RamState, VersionNumbers
<1>20. CASE Detach
  BY <1>20 DEF Detach, RamState, VersionNumbers
<1>21. CASE DeletedElsewhere
  BY <1>21, RamOtherType DEF DeletedElsewhere, VersionNumbers
<1>22. CASE Propagate
  BY <1>22 DEF Propagate, RamState, VersionNumbers
<1>23. CASE Purge
  BY <1>23 DEF Purge, RamState, VersionNumbers
<1>24. CASE UNCHANGED vars
  BY <1>24 DEF vars, VersionNumbers
<1> QED
  BY <1>1, <1>2, <1>3, <1>4, <1>5, <1>6, <1>7, <1>8, <1>9, <1>10, <1>11, <1>12,
     <1>13, <1>14, <1>15, <1>16, <1>17, <1>18, <1>19, <1>20, <1>21, <1>22, <1>23, <1>24
  DEF Next, Worker, Update, Environment

\* Every variable keeps its type (the fields of the custom resource, of the
\* permission in RAM and of the worker's copies), in every behaviour.
THEOREM TypeCorrect == Spec => []TypeOK
<1>1. TypeInv => TypeOK
  BY DEF TypeInv
<1> QED
  BY <1>1, InitTypeInv, StepTypeInv, PTL DEF Spec

-----------------------------------------------------------------------------
(* The version in force is never the one updatePermission asks to delete.  *)

DeletePcs == {"delfind", "delete", "unmark"}

\* No copy of Status.Version runs ahead of the numbers RAM has handed out.
VersionsBehind ==
  /\ cr.ver <= ram.nver /\ des.ver <= ram.nver
  /\ lat.ver <= ram.nver /\ out.ver <= ram.nver

\* A permission that existed and does no longer was deleted because its
\* custom resource is: its version numbers never start again from 1.
Retired ==
  /\ pc \in DeletePcs => cr.life = "deleting"
  /\ ram.perm # "live" /\ ram.nver > 0
       => cr.life \in {"deleting", "gone"} /\ pc \in DeletePcs \cup {"idle", "done"}

\* Between the creation of the new version and the deletion of the old one,
\* the default is younger than the version read when the reconcile began.
DefaultAhead == pc = "delver" => des.ver < ram.dflt

VersionInv == TypeInv /\ VersionsBehind /\ Retired /\ DefaultAhead

LEMMA InitVersionInv == Init => VersionInv
<1> SUFFICES ASSUME Init PROVE VersionInv
  OBVIOUS
<1>1. TypeInv
  BY InitTypeInv
<1>2. cr.ver = 0 /\ ram.nver = 0 /\ des.ver = 0 /\ lat.ver = 0 /\ out.ver = 0
  BY DEF Init, NoDesired, NoOutcome
<1>3. pc = "idle"
  BY DEF Init
<1> QED
  BY <1>1, <1>2, <1>3 DEF VersionInv, VersionsBehind, Retired, DefaultAhead, DeletePcs

LEMMA StepVersionInv ==
  ASSUME "external" \notin Faults, VersionInv, [Next]_vars
  PROVE  VersionInv'
<1>1. TypeInv'
  BY StepTypeInv DEF VersionInv
<1>2. /\ cr.ver \in Nat /\ des.ver \in Nat /\ lat.ver \in Nat /\ out.ver \in Nat
      /\ ram.nver \in Nat /\ ram.dflt \in Nat /\ ram.seen \in Nat /\ ram.seen <= ram.nver
  BY MaxVerAssumption
  DEF VersionInv, TypeInv, TypeOK, VersionNumbers, RamState, Resource, Desired, Latest, Outcome
<1>3. ram \in RamState /\ cr \in Resource
  BY DEF VersionInv, TypeInv, TypeOK
<1> SUFFICES VersionsBehind' /\ Retired' /\ DefaultAhead'
  BY <1>1 DEF VersionInv
<1> USE <1>2, <1>3 DEF VersionInv, VersionsBehind, Retired, DefaultAhead, DeletePcs, mem, env,
        RamState, Resource
<1>4. CASE StartReconcile
  BY <1>4 DEF StartReconcile
<1>5. CASE SdkFind
  BY <1>5 DEF SdkFind, RamRead, FailDesired, FailWith, Finish
<1>6. CASE MarkManaged
  BY <1>6 DEF MarkManaged, FailDesired, FailWith, Finish
<1>7. CASE SdkCreate
  BY <1>7 DEF SdkCreate, RamCreated, FailDesired, FailWith, Finish
<1>8. CASE PatchLatestStatus
  <2>1. UNCHANGED <<ram, des, lat>> /\ pc' \in {"untag", "newver", "done"}
        /\ out'.ver \in {out.ver, des.ver, lat.ver}
    BY <1>8 DEF PatchLatestStatus, AfterTags, Updated, FailLatest, FailWith, Finish
  <2>2. cr'.ver \in {cr.ver, lat.ver} /\ cr'.life = cr.life
    BY <1>8 DEF PatchLatestStatus
  <2> QED
    BY <1>8, <2>1, <2>2 DEF PatchLatestStatus
<1>9. CASE Untag
  BY <1>9 DEF Untag
<1>10. CASE Tag
  BY <1>10 DEF Tag, AfterTags, Updated, FailLatest, FailWith, Finish
<1>11. CASE CreatePermissionVersion
  <2>1. CASE RamCanAddVersion(des.spec.tmpl) /\ ram' = RamVersionAdded(des.spec.tmpl)
    <3>1. /\ ram'.nver = ram.nver + 1 /\ ram'.dflt = ram.nver + 1
          /\ ram.perm = "live" /\ ram'.perm = "live"
      BY <2>1 DEF RamVersionAdded, RamCanAddVersion
    <3>2. UNCHANGED <<cr, des, lat>> /\ pc' \in {"delver", "done"}
          /\ out'.ver \in {out.ver, lat.ver}
      BY <1>11 DEF CreatePermissionVersion, FailLatest, FailWith, Finish
    <3> QED
      BY <3>1, <3>2
  <2>2. CASE UNCHANGED ram /\ pc' = "done"
    BY <1>11, <2>2 DEF CreatePermissionVersion, FailLatest, FailWith, Finish
  <2> QED
    BY <1>11, <2>1, <2>2 DEF CreatePermissionVersion, FailLatest, FailWith, Finish
<1>12. CASE DeleteNonDefaultPermissionVersion
  BY <1>12 DEF DeleteNonDefaultPermissionVersion, RamVersionDeleted, RamCanDeleteVersion,
     FailLatest, FailWith, Finish
<1>13. CASE SetDefaultPermissionVersion
  <2>1. pc' = "done" /\ ram'.nver = ram.nver /\ ram'.perm = ram.perm
        /\ UNCHANGED <<cr, des, lat>>
    BY <1>13 DEF SetDefaultPermissionVersion, RamDefaultSet, FailLatest, FailWith, Finish
  <2>2. out'.ver \in {des.ver, lat.ver}
    BY <1>13 DEF SetDefaultPermissionVersion, Updated, FailLatest, FailWith, Finish
  <2> QED
    BY <1>13, <2>1, <2>2 DEF SetDefaultPermissionVersion
<1>14. CASE PatchStatus
  <2>1. /\ pc' = "idle" /\ UNCHANGED ram
        /\ des'.ver = 0 /\ lat'.ver = 0 /\ out'.ver = 0
    BY <1>14 DEF PatchStatus, Forget, NoDesired, NoOutcome
  <2>2. cr'.ver \in {cr.ver, out.ver} /\ cr'.life = cr.life
    BY <1>14 DEF PatchStatus
  <2> QED
    BY <1>14, <2>1, <2>2 DEF PatchStatus
<1>15. CASE FindBeforeDelete
  BY <1>15 DEF FindBeforeDelete, RamRead, FailDesired, FailWith, Finish
<1>16. CASE SdkDelete
  <2>1. /\ pc' \in {"unmark", "done"} /\ ram'.nver = ram.nver
        /\ cr.life = "deleting"
        /\ UNCHANGED <<cr, des, lat>>
    BY <1>16 DEF SdkDelete, RamDeleted, DeleteFailed, FailLatest, FailWith, Finish
  <2>2. out'.ver \in {out.ver, lat.ver}
    BY <1>16 DEF SdkDelete, DeleteFailed, FailLatest, FailWith, Finish
  <2> QED
    BY <2>1, <2>2
<1>17. CASE MarkUnmanaged
  BY <1>17 DEF MarkUnmanaged, Forget, NoDesired, NoOutcome, FailDesired, FailWith, Finish
<1>18. CASE EditSpec
  BY <1>18 DEF EditSpec
<1>19. CASE DeleteResource
  BY <1>19 DEF DeleteResource
<1>20. CASE Resync
  BY <1>20 DEF Resync
<1>21. CASE CrashRestart
  BY <1>21 DEF CrashRestart, Forget, NoDesired, NoOutcome
<1>22. CASE Attach
  BY <1>22 DEF Attach
<1>23. CASE Detach
  BY <1>23 DEF Detach
<1>24. CASE DeletedElsewhere
  BY <1>24 DEF DeletedElsewhere, Fault
<1>25. CASE Propagate
  BY <1>25 DEF Propagate
<1>26. CASE Purge
  BY <1>26 DEF Purge
<1>27. CASE UNCHANGED vars
  BY <1>27 DEF vars
<1> QED
  BY <1>4, <1>5, <1>6, <1>7, <1>8, <1>9, <1>10, <1>11, <1>12, <1>13, <1>14, <1>15,
     <1>16, <1>17, <1>18, <1>19, <1>20, <1>21, <1>22, <1>23, <1>24, <1>25, <1>26, <1>27
  DEF Next, Worker, Update, Environment

\* updatePermission never asks RAM to delete the version in force, although it
\* takes the number from a status that may be many updates old: as long as the
\* permission is not deleted behind the controller's back, RAM's numbers only
\* grow, so the new default is above every number the worker can have read.
THEOREM DefaultNeverDeleted ==
  ASSUME "external" \notin Faults
  PROVE  Spec => []NeverDeletesDefault
<1>1. VersionInv => NeverDeletesDefault
  <2> SUFFICES ASSUME VersionInv, pc = "delver" PROVE des.ver # ram.dflt
    BY DEF NeverDeletesDefault, VersionToDelete
  <2> QED
    BY MaxVerAssumption DEF VersionInv, DefaultAhead, TypeInv, TypeOK, Desired, RamState
<1>2. VersionInv /\ [Next]_vars => VersionInv'
  BY StepVersionInv
<1> QED
  BY <1>1, <1>2, InitVersionInv, PTL DEF Spec

-----------------------------------------------------------------------------
(* Permission implements PermissionResource.                               *)

\* Between sdkFind and the end of an update.
FoundPcs == {"status", "untag", "tag", "newver", "delver", "setdef"}

\* The copy of the custom resource that the worker has in hand still agrees with
\* it on everything only the worker writes.
CopiesAgree ==
  /\ cr.arn => cr.life # "unmanaged"
  /\ pc # "idle" => /\ des.arn = cr.arn
                    /\ cr.arn => cr.life \in {"managed", "deleting"}
                    /\ des.deleting => cr.life = "deleting"
                    /\ pc # "done" => (des.deleting <=> pc \in DeletePcs)
  /\ pc \in FoundPcs => des.arn
  /\ pc = "create" => cr.life \in {"managed", "deleting"}

\* What the worker read of the policy is still in force, and so is what it wrote.
CopiesInForce ==
  /\ ram.seen = ram.dflt
  /\ pc \in FoundPcs => ram.perm = "live"
  /\ pc \in {"status", "untag", "tag"} => lat.spec.tmpl = ram.text[ram.dflt]
  /\ pc \in {"delver", "setdef"} => newv = ram.dflt
  /\ pc = "unmark" /\ cr.arn => ram.perm # "live"

\* The status about to be patched says Synced only of the policy in force.
OutcomeHonest ==
  pc = "done" =>
    /\ cr.arn => out.arn
    /\ out.arn => cr.life \in {"managed", "deleting"}
    /\ des.deleting => out.synced = "error"
    /\ out.synced = "True" => /\ out.arn /\ ~des.deleting /\ ram.perm = "live"
                              /\ ram.text[ram.dflt] = des.spec.tmpl

RefinementInv == VersionInv /\ CopiesAgree /\ CopiesInForce /\ OutcomeHonest

LEMMA InitRefinementInv == Init => RefinementInv
<1> SUFFICES ASSUME Init PROVE RefinementInv
  OBVIOUS
<1>1. VersionInv
  BY InitVersionInv
<1>2. pc = "idle" /\ cr.arn = FALSE /\ ram.seen = ram.dflt
  BY DEF Init
<1> QED
  BY <1>1, <1>2 DEF RefinementInv, CopiesAgree, CopiesInForce, OutcomeHonest, FoundPcs

\* The facts about types and versions that the steps below use.
LEMMA Shape ==
  ASSUME VersionInv
  PROVE  /\ cr \in Resource /\ ram \in RamState /\ des \in Desired /\ lat \in Latest
         /\ out \in Outcome /\ pc \in Calls /\ queued \in BOOLEAN
         /\ ram.dflt \in 0..MaxVer /\ ram.nver \in 0..MaxVer
         /\ ram.perm = "live" => ram.dflt # 0 /\ ram.text[ram.dflt] \in Templates
         /\ cr.spec.tmpl \in Templates /\ des.spec.tmpl \in Templates
         /\ ram.seen # 0 => ram.nver > 0
BY MaxVerAssumption
DEF VersionInv, TypeInv, TypeOK, VersionNumbers, RamState, Resource, Desired, SpecFields

\* No step makes the worker's copy disagree with the resource on what only the
\* worker writes: the ARN, the finalizer and, once set, the deletion mark.
LEMMA StepCopiesAgree ==
  ASSUME "external" \notin Faults, ~Stale, RefinementInv, [Next]_vars
  PROVE  CopiesAgree'
<1> USE Shape DEF RefinementInv, CopiesAgree, VersionInv, Retired, DeletePcs, FoundPcs, mem, env,
   Resource, Desired
<1>1. CASE StartReconcile
  BY <1>1 DEF StartReconcile
<1>2. CASE SdkFind
  BY <1>2 DEF SdkFind, RamFound, RamRead, FailDesired, FailWith, Finish
<1>3. CASE MarkManaged
  BY <1>3 DEF MarkManaged, FailDesired, FailWith, Finish
<1>4. CASE SdkCreate
  BY <1>4 DEF SdkCreate, RamCreated, FailDesired, FailWith, Finish
<1>5. CASE PatchLatestStatus
  BY <1>5 DEF PatchLatestStatus, AfterTags, TemplateDiffers, Updated, FailLatest, FailWith, Finish
<1>6. CASE Untag
  BY <1>6 DEF Untag
<1>7. CASE Tag
  BY <1>7 DEF Tag, AfterTags, TemplateDiffers, Updated, FailLatest, FailWith, Finish
<1>8. CASE CreatePermissionVersion
  BY <1>8 DEF CreatePermissionVersion, RamCanAddVersion, RamVersionAdded, Shown, FailLatest,
     FailWith, Finish, ErrorFor
<1>9. CASE DeleteNonDefaultPermissionVersion
  BY <1>9 DEF DeleteNonDefaultPermissionVersion, RamCanDeleteVersion, RamVersionDeleted,
     FailLatest, FailWith, Finish
<1>10. CASE SetDefaultPermissionVersion
  BY <1>10 DEF SetDefaultPermissionVersion, RamCanSetDefault, RamDefaultSet, Shown, Updated,
     FailLatest, FailWith, Finish
<1>11. CASE PatchStatus
  <2>1. pc' = "idle" /\ cr'.life = cr.life /\ cr'.arn \in {cr.arn, out.arn}
    BY <1>11 DEF PatchStatus
  <2>2. out.arn => cr.life \in {"managed", "deleting"}
    BY <1>11 DEF PatchStatus, OutcomeHonest
  <2> QED
    BY <2>1, <2>2
<1>12. CASE FindBeforeDelete
  BY <1>12 DEF FindBeforeDelete, RamFound, RamRead, FailDesired, FailWith, Finish
<1>13. CASE SdkDelete
  BY <1>13 DEF SdkDelete, RamDeleted, DeleteFailed, FailLatest, FailWith, Finish
<1>14. CASE MarkUnmanaged
  BY <1>14 DEF MarkUnmanaged, Forget, NoDesired, NoOutcome, FailDesired, FailWith, Finish
<1>15. CASE EditSpec
  BY <1>15 DEF EditSpec
<1>16. CASE DeleteResource
  BY <1>16 DEF DeleteResource
<1>17. CASE Resync
  BY <1>17 DEF Resync
<1>18. CASE CrashRestart
  BY <1>18 DEF CrashRestart, Forget, NoDesired, NoOutcome
<1>19. CASE Attach
  BY <1>19 DEF Attach
<1>20. CASE Detach
  BY <1>20 DEF Detach
<1>21. CASE DeletedElsewhere
  BY <1>21 DEF DeletedElsewhere, Fault
<1>22. CASE Propagate
  BY <1>22 DEF Propagate
<1>23. CASE Purge
  BY <1>23 DEF Purge
<1>24. CASE UNCHANGED vars
  BY <1>24 DEF vars
<1> QED
  BY <1>1, <1>2, <1>3, <1>4, <1>5, <1>6, <1>7, <1>8, <1>9, <1>10, <1>11, <1>12, <1>13, <1>14,
     <1>15, <1>16, <1>17, <1>18, <1>19, <1>20, <1>21, <1>22, <1>23, <1>24
     DEF Next, Worker, Update, Environment

\* Between the read and the end of an update nothing changes the policy behind
\* the worker's back, as RAM is neither late nor edited by others.
LEMMA StepCopiesInForce ==
  ASSUME "external" \notin Faults, ~Stale, RefinementInv, [Next]_vars
  PROVE  CopiesInForce'
<1> USE Shape DEF RefinementInv, CopiesAgree, CopiesInForce, VersionInv, Retired, DeletePcs,
   FoundPcs, mem, env, RamState, Desired
<1>1. CASE StartReconcile
  BY <1>1 DEF StartReconcile
<1>2. CASE SdkFind
  <2>1. RamFound => ram.perm = "live"
    BY <1>2 DEF SdkFind, RamFound
  <2>2. UNCHANGED ram /\ pc' \in {"mark", "create", "status", "done"}
    BY <1>2 DEF SdkFind, FailDesired, FailWith, Finish
  <2>3. pc' = "status" => RamFound /\ lat' = RamRead
    BY <1>2 DEF SdkFind, FailDesired, FailWith, Finish
  <2> QED
    BY <2>1, <2>2, <2>3 DEF RamRead
<1>3. CASE MarkManaged
  BY <1>3 DEF MarkManaged, FailDesired, FailWith, Finish
<1>4. CASE SdkCreate
  BY <1>4 DEF SdkCreate, RamCreated, FailDesired, FailWith, Finish
<1>5. CASE PatchLatestStatus
  BY <1>5 DEF PatchLatestStatus, AfterTags, TemplateDiffers, Updated, FailLatest, FailWith, Finish
<1>6. CASE Untag
  BY <1>6 DEF Untag
<1>7. CASE Tag
  BY <1>7 DEF Tag, AfterTags, TemplateDiffers, Updated, FailLatest, FailWith, Finish
<1>8. CASE CreatePermissionVersion
  <2>1. UNCHANGED cr /\ pc' \in {"delver", "done"}
    BY <1>8 DEF CreatePermissionVersion, FailLatest, FailWith, Finish
  <2>2. CASE ram' = RamVersionAdded(des.spec.tmpl) /\ newv' = ram.nver + 1
    <3>1. ram'.perm = ram.perm /\ ram'.dflt = ram.nver + 1 /\ ram'.seen = ram.nver + 1
      BY <2>2 DEF RamVersionAdded, Shown
    <3> QED
      BY <1>8, <2>1, <2>2, <3>1 DEF CreatePermissionVersion
  <2>3. CASE UNCHANGED <<ram, newv>> /\ pc' = "done"
    BY <2>3
  <2> QED
    BY <1>8, <2>2, <2>3 DEF CreatePermissionVersion, FailLatest, FailWith, Finish
<1>9. CASE DeleteNonDefaultPermissionVersion
  BY <1>9 DEF DeleteNonDefaultPermissionVersion, RamCanDeleteVersion, RamVersionDeleted,
     FailLatest, FailWith, Finish
<1>10. CASE SetDefaultPermissionVersion
  BY <1>10 DEF SetDefaultPermissionVersion, RamCanSetDefault, RamDefaultSet, Shown, Updated,
     FailLatest, FailWith, Finish
<1>11. CASE PatchStatus
  BY <1>11 DEF PatchStatus, Forget, NoDesired, NoOutcome
<1>12. CASE FindBeforeDelete
  BY <1>12 DEF FindBeforeDelete, RamFound, RamRead, FailDesired, FailWith, Finish
<1>13. CASE SdkDelete
  <2>1. pc' \in {"unmark", "done"} /\ ram'.seen = ram.seen /\ ram'.dflt = ram.dflt
    BY <1>13 DEF SdkDelete, RamDeleted, DeleteFailed, FailLatest, FailWith, Finish
  <2>2. pc' = "unmark" => ram'.perm = "deleted"
    BY <1>13 DEF SdkDelete, RamDeleted, DeleteFailed, FailLatest, FailWith, Finish
  <2> QED
    BY <2>1, <2>2
<1>14. CASE MarkUnmanaged
  BY <1>14 DEF MarkUnmanaged, Forget, NoDesired, NoOutcome, FailDesired, FailWith, Finish
<1>15. CASE EditSpec
  BY <1>15 DEF EditSpec
<1>16. CASE DeleteResource
  BY <1>16 DEF DeleteResource
<1>17. CASE Resync
  BY <1>17 DEF Resync
<1>18. CASE CrashRestart
  BY <1>18 DEF CrashRestart, Forget, NoDesired, NoOutcome
<1>19. CASE Attach
  BY <1>19 DEF Attach
<1>20. CASE Detach
  BY <1>20 DEF Detach
<1>21. CASE DeletedElsewhere
  BY <1>21 DEF DeletedElsewhere, Fault
<1>22. CASE Propagate
  BY <1>22 DEF Propagate
<1>23. CASE Purge
  BY <1>23 DEF Purge
<1>24. CASE UNCHANGED vars
  BY <1>24 DEF vars
<1> QED
  BY <1>1, <1>2, <1>3, <1>4, <1>5, <1>6, <1>7, <1>8, <1>9, <1>10, <1>11, <1>12, <1>13, <1>14,
     <1>15, <1>16, <1>17, <1>18, <1>19, <1>20, <1>21, <1>22, <1>23, <1>24
     DEF Next, Worker, Update, Environment

\* Every way a reconcile ends leaves a status that is true of RAM.
LEMMA StepOutcomeHonest ==
  ASSUME "external" \notin Faults, ~Stale, RefinementInv, [Next]_vars
  PROVE  OutcomeHonest'
<1> USE Shape DEF RefinementInv, CopiesAgree, CopiesInForce, OutcomeHonest, VersionInv, Retired,
   DeletePcs, FoundPcs, mem, env, RamState, Resource, Desired
<1>1. CASE StartReconcile
  BY <1>1 DEF StartReconcile
<1>2. CASE SdkFind
  <2>1. RamFound => ram.perm = "live"
    BY <1>2 DEF SdkFind, RamFound
  <2>2. /\ UNCHANGED <<cr, ram, des>> /\ ~des.deleting /\ des.arn = cr.arn
        /\ cr.arn => cr.life \in {"managed", "deleting"}
    BY <1>2 DEF SdkFind
  <2>3. CASE pc' # "done"
    BY <2>3
  <2>4. CASE FailDesired("error")
    BY <2>2, <2>4 DEF FailDesired, FailWith, Finish
  <2>5. CASE /\ des.arn /\ RamFound /\ des.spec = RamRead.spec
             /\ Finish([arn |-> TRUE, ver |-> RamRead.ver, synced |-> "True"])
    <3>1. ram.text[ram.dflt] = des.spec.tmpl
      BY <2>5 DEF RamRead
    <3> QED
      BY <2>1, <2>2, <2>5, <3>1 DEF Finish
  <2> QED
    BY <1>2, <2>3, <2>4, <2>5 DEF SdkFind
<1>3. CASE MarkManaged
  BY <1>3 DEF MarkManaged, FailDesired, FailWith, Finish
<1>4. CASE SdkCreate
  <2>1. /\ UNCHANGED <<cr, des>> /\ ~des.deleting /\ des.arn = cr.arn
        /\ cr.life \in {"managed", "deleting"}
    BY <1>4 DEF SdkCreate
  <2>2. CASE ram' = RamCreated(des.spec)
             /\ Finish([arn |-> TRUE, ver |-> 1, synced |-> "True"])
    <3>1. ram'.perm = "live" /\ ram'.dflt = 1 /\ ram'.text[1] = des.spec.tmpl
      BY <2>2, MaxVerAssumption DEF RamCreated, Versions
    <3> QED
      BY <2>1, <2>2, <3>1 DEF Finish
  <2>3. CASE FailDesired("error")
    BY <2>1, <2>3 DEF FailDesired, FailWith, Finish
  <2>4. CASE FailDesired(ErrorFor(des.spec.tmpl))
    BY <2>1, <2>4 DEF FailDesired, FailWith, Finish, ErrorFor
  <2> QED
    BY <1>4, <2>2, <2>3, <2>4 DEF SdkCreate
<1>5. CASE PatchLatestStatus
  <2>1. UNCHANGED <<ram, des, lat>> /\ ~des.deleting /\ des.arn
    BY <1>5 DEF PatchLatestStatus
  <2>2. cr'.life = cr.life /\ cr'.arn \in BOOLEAN
    BY <1>5 DEF PatchLatestStatus
  <2>3. cr.life \in {"managed", "deleting"} /\ ram.perm = "live"
    BY <1>5 DEF PatchLatestStatus
  <2>4. CASE pc' # "done"
    BY <2>4
  <2>5. CASE ~TemplateDiffers /\ Finish(Updated("True"))
    BY <1>5, <2>1, <2>2, <2>3, <2>5 DEF PatchLatestStatus, TemplateDiffers, Updated, Finish
  <2>6. CASE FailLatest
    BY <2>1, <2>2, <2>3, <2>6 DEF FailLatest, FailWith, Finish
  <2> QED
    BY <1>5, <2>4, <2>5, <2>6 DEF PatchLatestStatus, AfterTags
<1>6. CASE Untag
  BY <1>6 DEF Untag
<1>7. CASE Tag
  BY <1>7 DEF Tag, AfterTags, TemplateDiffers, Updated, FailLatest, FailWith, Finish
<1>8. CASE CreatePermissionVersion
  BY <1>8 DEF CreatePermissionVersion, RamCanAddVersion, RamVersionAdded, Shown, FailLatest,
     FailWith, Finish, ErrorFor
<1>9. CASE DeleteNonDefaultPermissionVersion
  BY <1>9 DEF DeleteNonDefaultPermissionVersion, RamCanDeleteVersion, RamVersionDeleted,
     FailLatest, FailWith, Finish
<1>10. CASE SetDefaultPermissionVersion
  BY <1>10 DEF SetDefaultPermissionVersion, RamCanSetDefault, RamDefaultSet, Shown, Updated,
     FailLatest, FailWith, Finish
<1>11. CASE PatchStatus
  <2>1. pc' = "idle"
    BY <1>11 DEF PatchStatus
  <2> QED
    BY <2>1
<1>12. CASE FindBeforeDelete
  BY <1>12 DEF FindBeforeDelete, RamFound, RamRead, FailDesired, FailWith, Finish
<1>13. CASE SdkDelete
  BY <1>13 DEF SdkDelete, RamDeleted, DeleteFailed, FailLatest, FailWith, Finish
<1>14. CASE MarkUnmanaged
  BY <1>14 DEF MarkUnmanaged, Forget, NoDesired, NoOutcome, FailDesired, FailWith, Finish
<1>15. CASE EditSpec
  BY <1>15 DEF EditSpec
<1>16. CASE DeleteResource
  BY <1>16 DEF DeleteResource
<1>17. CASE Resync
  BY <1>17 DEF Resync
<1>18. CASE CrashRestart
  BY <1>18 DEF CrashRestart, Forget, NoDesired, NoOutcome
<1>19. CASE Attach
  BY <1>19 DEF Attach
<1>20. CASE Detach
  BY <1>20 DEF Detach
<1>21. CASE DeletedElsewhere
  BY <1>21 DEF DeletedElsewhere, Fault
<1>22. CASE Propagate
  BY <1>22 DEF Propagate
<1>23. CASE Purge
  BY <1>23 DEF Purge
<1>24. CASE UNCHANGED vars
  BY <1>24 DEF vars
<1> QED
  BY <1>1, <1>2, <1>3, <1>4, <1>5, <1>6, <1>7, <1>8, <1>9, <1>10, <1>11, <1>12, <1>13, <1>14,
     <1>15, <1>16, <1>17, <1>18, <1>19, <1>20, <1>21, <1>22, <1>23, <1>24
     DEF Next, Worker, Update, Environment

-----------------------------------------------------------------------------
(* Each step is a step of the Permission resource others see, or none.     *)

Same == UNCHANGED AsResource

\* The fields of the resource as others see it.
FieldsAre ==
  /\ AsResource.life = cr.life /\ AsResource.wanted = cr.spec.tmpl
  /\ AsResource.pending = queued /\ AsResource.inForce = InForce
  /\ AsResource.reported = cr.synced /\ AsResource.known = cr.arn
  /\ pc = "idle" => AsResource.doing = "nothing" /\ AsResource.copy = NoTemplate
  /\ pc # "idle" => AsResource.copy = des.spec.tmpl
  /\ pc # "idle" /\ des.deleting => AsResource.doing = "remove"
  /\ pc # "idle" /\ ~des.deleting => AsResource.doing = "apply"

LEMMA Fields == FieldsAre /\ (VersionInv => AsResource \in Promised!Record)
<1>1. VersionInv => InForce \in Templates \cup {NoTemplate}
  BY MaxVerAssumption DEF VersionInv, TypeInv, TypeOK, VersionNumbers, RamState, InForce
<1>2. VersionInv => AsResource \in Promised!Record
  BY <1>1 DEF VersionInv, TypeInv, TypeOK, Resource, Desired, SpecFields, Synced, AsResource,
     Promised!Record, Promised!Conditions
<1> QED
  BY <1>2 DEF FieldsAre, AsResource

\* The fields before and after a step, and that a step leaves alone what
\* depends on nothing it touches.
LEMMA Fields2 ==
  ASSUME VersionInv, VersionInv'
  PROVE  /\ FieldsAre /\ FieldsAre'
         /\ AsResource \in Promised!Record /\ AsResource' \in Promised!Record
<1>1. (FieldsAre /\ (VersionInv => AsResource \in Promised!Record))'
  BY Fields, PTL
<1> QED
  BY <1>1, Fields

LEMMA Unseen ==
  ASSUME UNCHANGED <<cr.spec, cr.life, cr.synced, cr.arn, queued, InForce>>,
         \/ UNCHANGED <<pc, des>>
         \/ pc # "idle" /\ pc' # "idle" /\ UNCHANGED des
  PROVE  Same
BY DEF Same, AsResource

LEMMA StepSimulates ==
  ASSUME "external" \notin Faults, ~Stale, RefinementInv, VersionInv', [Next]_vars
  PROVE  Promised!Next \/ Same
<1> USE DEF mem, env
<1>a. VersionInv /\ CopiesAgree /\ CopiesInForce /\ OutcomeHonest
  BY DEF RefinementInv
<1>b. /\ FieldsAre /\ FieldsAre'
      /\ AsResource \in Promised!Record /\ AsResource' \in Promised!Record
  BY <1>a, Fields2
<1>1. CASE SdkFind
  <2>1. UNCHANGED <<cr, des, queued>> /\ pc # "idle" /\ pc' # "idle"
    BY <1>1 DEF SdkFind, FailDesired, FailLatest, FailWith, Finish
  <2>2. UNCHANGED InForce
    BY <1>1 DEF SdkFind, InForce
  <2> QED
    BY <2>1, <2>2, Unseen
<1>2. CASE PatchLatestStatus
  <2>1. UNCHANGED <<ram, des, queued>> /\ pc # "idle" /\ pc' # "idle"
    BY <1>2 DEF PatchLatestStatus, AfterTags, FailLatest, FailWith, Finish
  <2>2. UNCHANGED <<cr.spec, cr.life, cr.synced>>
    BY <1>2, <1>a DEF PatchLatestStatus, VersionInv, TypeInv, TypeOK, Resource
  <2>3. cr.arn = TRUE /\ cr'.arn = TRUE
    BY <1>2, <1>a DEF PatchLatestStatus, CopiesAgree, FoundPcs, VersionInv, TypeInv, TypeOK,
       Resource, Desired
  <2>4. UNCHANGED InForce
    BY <2>1 DEF InForce
  <2> QED
    BY <2>1, <2>2, <2>3, <2>4, Unseen
<1>3. CASE Untag
  <2>1. UNCHANGED <<cr, des, queued>> /\ pc # "idle" /\ pc' # "idle"
    BY <1>3 DEF Untag
  <2>2. UNCHANGED InForce
    BY <1>3, <1>a, Shape DEF Untag, InForce, RamState
  <2> QED
    BY <2>1, <2>2, Unseen
<1>4. CASE Tag
  <2>1. UNCHANGED <<cr, des, queued>> /\ pc # "idle" /\ pc' # "idle"
    BY <1>4 DEF Tag, AfterTags, FailDesired, FailLatest, FailWith, Finish
  <2>2. UNCHANGED InForce
    BY <1>4, <1>a, Shape DEF Tag, InForce, RamState
  <2> QED
    BY <2>1, <2>2, Unseen
<1>5. CASE DeleteNonDefaultPermissionVersion
  <2>1. UNCHANGED <<cr, des, queued>> /\ pc # "idle" /\ pc' # "idle"
    BY <1>5 DEF DeleteNonDefaultPermissionVersion, FailDesired, FailLatest, FailWith, Finish
  <2>2. UNCHANGED InForce
    BY <1>5, <1>a, Shape DEF DeleteNonDefaultPermissionVersion, RamVersionDeleted, InForce,
       RamState
  <2> QED
    BY <2>1, <2>2, Unseen
<1>6. CASE SetDefaultPermissionVersion
  <2>1. UNCHANGED <<cr, des, queued>> /\ pc # "idle" /\ pc' # "idle"
    BY <1>6 DEF SetDefaultPermissionVersion, FailDesired, FailLatest, FailWith, Finish
  <2>2. UNCHANGED InForce
    BY <1>6, <1>a, Shape DEF SetDefaultPermissionVersion, RamDefaultSet, CopiesInForce, InForce,
       RamState
  <2> QED
    BY <2>1, <2>2, Unseen
<1>7. CASE FindBeforeDelete
  <2>1. UNCHANGED <<cr, des, queued>> /\ pc # "idle" /\ pc' # "idle"
    BY <1>7 DEF FindBeforeDelete, FailDesired, FailLatest, FailWith, Finish
  <2>2. UNCHANGED InForce
    BY <1>7 DEF FindBeforeDelete, InForce
  <2> QED
    BY <2>1, <2>2, Unseen
<1>8. CASE Attach
  <2>1. UNCHANGED <<cr, des, queued>> /\ UNCHANGED pc
    BY <1>8 DEF Attach
  <2>2. UNCHANGED InForce
    BY <1>8, <1>a, Shape DEF Attach, InForce, RamState
  <2> QED
    BY <2>1, <2>2, Unseen
<1>9. CASE Detach
  <2>1. UNCHANGED <<cr, des, queued>> /\ UNCHANGED pc
    BY <1>9 DEF Detach
  <2>2. UNCHANGED InForce
    BY <1>9, <1>a, Shape DEF Detach, InForce, RamState
  <2> QED
    BY <2>1, <2>2, Unseen
<1>10. CASE Propagate
  <2>1. UNCHANGED <<cr, des, queued>> /\ UNCHANGED pc
    BY <1>10 DEF Propagate
  <2>2. UNCHANGED InForce
    BY <1>10, <1>a, Shape DEF Propagate, InForce, RamState
  <2> QED
    BY <2>1, <2>2, Unseen
<1>11. CASE Purge
  <2>1. UNCHANGED <<cr, des, queued>> /\ UNCHANGED pc
    BY <1>11 DEF Purge
  <2>2. UNCHANGED InForce
    BY <1>11, <1>a, Shape DEF Purge, InForce, RamState
  <2> QED
    BY <2>1, <2>2, Unseen
<1>12. CASE DeletedElsewhere
  BY <1>12 DEF DeletedElsewhere, Fault
<1>13. CASE UNCHANGED vars
  BY <1>13, Unseen DEF vars, InForce
<1>14. CASE StartReconcile
  <2>1. /\ pc = "idle" /\ pc' # "idle" /\ cr.life # "gone" /\ queued /\ UNCHANGED cr
        /\ queued' = FALSE /\ des'.spec = cr.spec /\ des'.deleting = (cr.life = "deleting")
    BY <1>14 DEF StartReconcile
  <2>2. UNCHANGED InForce
    BY <1>14 DEF StartReconcile, InForce
  <2>3. Promised!Exists /\ ~Promised!Busy /\ AsResource.pending
    BY <1>b, <2>1 DEF FieldsAre, Promised!Exists, Promised!Busy
  <2>4. AsResource'.doing = IF AsResource.life = "deleting" THEN "remove" ELSE "apply"
    BY <1>b, <2>1 DEF FieldsAre
  <2>5. /\ AsResource'.pending = FALSE /\ AsResource'.copy = AsResource.wanted
        /\ UNCHANGED <<AsResource.life, AsResource.wanted, AsResource.inForce,
                       AsResource.reported, AsResource.known>>
    BY <1>b, <2>1, <2>2 DEF FieldsAre
  <2>6. Promised!Take
    BY <1>b, <2>3, <2>4, <2>5 DEF Promised!Take, Promised!Record
  <2> QED
    BY <2>6 DEF Promised!Next, Promised!Worker
<1>15. CASE MarkManaged
  <2>1. UNCHANGED <<ram, des, queued>> /\ pc # "idle" /\ pc' # "idle" /\ ~des.deleting
    BY <1>15, <1>a DEF MarkManaged, FailDesired, FailWith, Finish, CopiesAgree, DeletePcs
  <2>2. UNCHANGED InForce
    BY <2>1 DEF InForce
  <2>3. CASE cr' = [cr EXCEPT !.life = "managed"] /\ cr.life = "unmanaged"
    <3>1. cr'.life = "managed" /\ UNCHANGED <<cr.spec, cr.synced, cr.arn>>
      BY <2>3, <1>a, Shape DEF Resource
    <3>2. /\ AsResource.doing = "apply" /\ AsResource'.doing = "apply"
          /\ AsResource.life = "unmanaged" /\ AsResource'.life = "managed"
          /\ UNCHANGED <<AsResource.wanted, AsResource.pending, AsResource.copy,
                         AsResource.inForce, AsResource.reported, AsResource.known>>
      BY <1>b, <2>1, <2>2, <2>3, <3>1 DEF FieldsAre
    <3>3. Promised!Manage
      BY <1>b, <3>2 DEF Promised!Manage, Promised!Record
    <3> QED
      BY <3>3 DEF Promised!Next, Promised!Worker
  <2>4. CASE UNCHANGED cr
    BY <2>1, <2>2, <2>4, Unseen
  <2> QED
    BY <1>15, <2>3, <2>4 DEF MarkManaged
<1>16. CASE SdkCreate
  <2>1. UNCHANGED <<cr, des, queued>> /\ pc # "idle" /\ pc' # "idle" /\ ~des.deleting
    BY <1>16, <1>a DEF SdkCreate, FailDesired, FailLatest, FailWith, Finish, CopiesAgree,
       DeletePcs
  <2>2. CASE ram' = RamCreated(des.spec)
    <3>1. InForce' = des.spec.tmpl /\ cr.life \in {"managed", "deleting"}
      BY <1>16, <2>2, <1>a, Shape, MaxVerAssumption
      DEF SdkCreate, RamCreated, InForce, Versions, RamState, CopiesAgree, FoundPcs
    <3>2. /\ AsResource.doing = "apply" /\ AsResource'.inForce = AsResource.copy
          /\ AsResource.life \in {"managed", "deleting"}
          /\ UNCHANGED <<AsResource.life, AsResource.wanted, AsResource.pending, AsResource.doing,
                         AsResource.copy, AsResource.reported, AsResource.known>>
      BY <1>b, <2>1, <3>1 DEF FieldsAre
    <3>3. Promised!Publish
      BY <1>b, <3>2 DEF Promised!Publish, Promised!Record
    <3> QED
      BY <3>3 DEF Promised!Next, Promised!Worker
  <2>3. CASE UNCHANGED ram
    <3>1. UNCHANGED InForce
      BY <2>3 DEF InForce
    <3> QED
      BY <2>1, <3>1, Unseen
  <2> QED
    BY <1>16, <2>2, <2>3 DEF SdkCreate
<1>17. CASE CreatePermissionVersion
  <2>1. UNCHANGED <<cr, des, queued>> /\ pc # "idle" /\ pc' # "idle" /\ ~des.deleting
    BY <1>17, <1>a DEF CreatePermissionVersion, FailDesired, FailLatest, FailWith, Finish,
       CopiesAgree, DeletePcs
  <2>2. CASE /\ RamCanAddVersion(des.spec.tmpl)
             /\ ram' = RamVersionAdded(des.spec.tmpl)
    <3>1. InForce' = des.spec.tmpl /\ cr.life \in {"managed", "deleting"}
      BY <1>17, <2>2, <1>a, Shape, MaxVerAssumption
      DEF CreatePermissionVersion, RamCanAddVersion, RamVersionAdded, InForce, Versions,
      RamState, CopiesAgree, FoundPcs
    <3>2. /\ AsResource.doing = "apply" /\ AsResource'.inForce = AsResource.copy
          /\ AsResource.life \in {"managed", "deleting"}
          /\ UNCHANGED <<AsResource.life, AsResource.wanted, AsResource.pending, AsResource.doing,
                         AsResource.copy, AsResource.reported, AsResource.known>>
      BY <1>b, <2>1, <3>1 DEF FieldsAre
    <3>3. Promised!Publish
      BY <1>b, <3>2 DEF Promised!Publish, Promised!Record
    <3> QED
      BY <3>3 DEF Promised!Next, Promised!Worker
  <2>3. CASE UNCHANGED ram
    <3>1. UNCHANGED InForce
      BY <2>3 DEF InForce
    <3> QED
      BY <2>1, <3>1, Unseen
  <2> QED
    BY <1>17, <2>2, <2>3 DEF CreatePermissionVersion
<1>18. CASE PatchStatus
  <2>1. /\ UNCHANGED ram /\ pc = "done" /\ pc' = "idle"
        /\ UNCHANGED <<cr.spec, cr.life>>
    BY <1>18, <1>a, Shape DEF PatchStatus, Resource
  <2>2. UNCHANGED InForce
    BY <2>1 DEF InForce
  <2>3. /\ AsResource.doing # "nothing"
        /\ AsResource'.doing = "nothing" /\ AsResource'.copy = NoTemplate
        /\ UNCHANGED <<AsResource.life, AsResource.wanted, AsResource.inForce>>
    BY <1>b, <2>1, <2>2 DEF FieldsAre
  <2>4. CASE UNCHANGED cr /\ cr.life = "gone"
    <3>1. /\ AsResource.life = "gone" /\ AsResource'.pending \in BOOLEAN
          /\ UNCHANGED <<AsResource.reported, AsResource.known>>
      BY <1>b, <2>4 DEF FieldsAre, Promised!Record
    <3>2. Promised!Drop
      <4>1. AsResource' = Promised!Idle([AsResource EXCEPT !.pending = AsResource'.pending])
        BY <1>b, <2>3, <3>1 DEF Promised!Idle, Promised!Record
      <4> QED
        BY <2>3, <3>1, <4>1 DEF Promised!Drop, Promised!Exists, Promised!Busy
    <3> QED
      BY <3>2 DEF Promised!Next, Promised!Worker
  <2>5. CASE /\ cr.life # "gone"
             /\ cr' = [cr EXCEPT !.arn = out.arn, !.ver = out.ver, !.synced = out.synced]
             /\ queued' = (queued \/ out.synced \in {"error", "False"})
    <3>1. cr'.arn = out.arn /\ cr'.synced = out.synced /\ out.synced \in Promised!Conditions
      BY <2>5, <1>a, Shape DEF Resource, Outcome, Synced, Promised!Conditions
    <3>2. /\ AsResource'.reported = out.synced /\ AsResource'.known = out.arn
          /\ AsResource.life # "gone"
      BY <1>b, <2>5, <3>1 DEF FieldsAre
    <3>3. AsResource'.pending = (AsResource.pending \/ out.synced \in {"error", "False"})
      BY <1>b, <2>5 DEF FieldsAre
    <3>4. out.arn \in {AsResource.known, TRUE}
      BY <1>a, <1>b, <2>1, Shape DEF FieldsAre, OutcomeHonest, Resource, Outcome
    <3>5. out.synced = "True" => /\ AsResource.doing = "apply" /\ out.arn
                                 /\ AsResource.inForce = AsResource.copy
      BY <1>a, <1>b, <2>1 DEF FieldsAre, OutcomeHonest, InForce
    <3>6. AsResource.doing = "remove" => out.synced = "error"
      BY <1>a, <1>b, <2>1 DEF FieldsAre, OutcomeHonest
    <3>7. Promised!Report(out.synced)
      <4>1. AsResource' = Promised!Idle([AsResource EXCEPT !.reported = out.synced,
      !.known = out.arn,
              !.pending = AsResource.pending \/ out.synced \in {"error", "False"}])
        BY <1>b, <2>3, <3>2, <3>3 DEF Promised!Idle, Promised!Record
      <4> QED
        BY <2>3, <3>2, <3>4, <3>5, <3>6, <4>1 DEF Promised!Report, Promised!Busy, Promised!Exists
    <3> QED
      BY <3>1, <3>7 DEF Promised!Next, Promised!Worker
  <2>6. CASE queued' = TRUE /\ UNCHANGED cr
    <3>1. AsResource'.pending = TRUE /\ UNCHANGED <<AsResource.reported, AsResource.known>>
      BY <1>b, <2>6 DEF FieldsAre
    <3>2. Promised!GiveUp
      BY <1>b, <2>3, <3>1 DEF Promised!GiveUp, Promised!Idle, Promised!Record
    <3> QED
      BY <3>2 DEF Promised!Next, Promised!Worker
  <2> QED
    BY <1>18, <2>4, <2>5, <2>6 DEF PatchStatus
<1>19. CASE SdkDelete
  <2>1. UNCHANGED <<cr, des, queued>> /\ pc # "idle" /\ pc' # "idle" /\ des.deleting
    BY <1>19, <1>a DEF SdkDelete, DeleteFailed, FailLatest, FailWith, Finish, CopiesAgree,
       DeletePcs
  <2>2. CASE ram.perm = "live" /\ ram' = RamDeleted
    <3>1. InForce # NoTemplate /\ InForce' = NoTemplate
      BY <2>2, <1>a, Shape, TemplateAssumption DEF RamDeleted, InForce, RamState
    <3>2. /\ AsResource.doing = "remove" /\ AsResource.inForce # NoTemplate
          /\ AsResource'.inForce = NoTemplate
          /\ UNCHANGED <<AsResource.life, AsResource.wanted, AsResource.pending, AsResource.doing,
                         AsResource.copy, AsResource.reported, AsResource.known>>
      BY <1>b, <2>1, <3>1 DEF FieldsAre
    <3>3. Promised!Unpublish
      BY <1>b, <3>2 DEF Promised!Unpublish, Promised!Record
    <3> QED
      BY <3>3 DEF Promised!Next, Promised!Worker
  <2>3. CASE UNCHANGED ram
    <3>1. UNCHANGED InForce
      BY <2>3 DEF InForce
    <3> QED
      BY <2>1, <3>1, Unseen
  <2> QED
    BY <1>19, <2>2, <2>3 DEF SdkDelete
<1>20. CASE MarkUnmanaged
  <2>1. UNCHANGED <<ram, queued>> /\ pc = "unmark" /\ des.deleting
    BY <1>20, <1>a DEF MarkUnmanaged, CopiesAgree, DeletePcs
  <2>2. UNCHANGED InForce
    BY <2>1 DEF InForce
  <2>3. CASE cr' = [cr EXCEPT !.life = "gone"] /\ pc' = "idle"
    <3>1. cr'.life = "gone" /\ UNCHANGED <<cr.spec, cr.synced, cr.arn>>
      BY <2>3, <1>a, Shape DEF Resource
    <3>2. cr.arn => InForce = NoTemplate
      BY <2>1, <1>a DEF CopiesInForce, InForce
    <3>3. /\ AsResource.doing = "remove" /\ AsResource'.doing = "nothing"
          /\ AsResource'.copy = NoTemplate /\ AsResource'.life = "gone"
          /\ UNCHANGED <<AsResource.wanted, AsResource.pending, AsResource.inForce,
                         AsResource.reported, AsResource.known>>
      BY <1>b, <2>1, <2>2, <2>3, <3>1 DEF FieldsAre
    <3>4. AsResource.known => AsResource.inForce = NoTemplate
      BY <1>b, <3>2 DEF FieldsAre
    <3>5. Promised!Remove
      BY <1>b, <3>3, <3>4 DEF Promised!Remove, Promised!Idle, Promised!Record
    <3> QED
      BY <3>5 DEF Promised!Next, Promised!Worker
  <2>4. CASE UNCHANGED <<cr, des>> /\ pc' = "done"
    BY <2>1, <2>2, <2>4, Unseen
  <2> QED
    BY <1>20, <2>3, <2>4 DEF MarkUnmanaged, FailDesired, FailWith, Finish
<1>21. CASE EditSpec
  <2>1. UNCHANGED <<ram, pc, des>> /\ queued' = TRUE /\ cr.life \in {"unmanaged", "managed"}
    BY <1>21 DEF EditSpec
  <2>2. /\ UNCHANGED <<cr.life, cr.synced, cr.arn>> /\ cr'.spec.tmpl \in Templates
    BY <1>21, <1>a, Shape DEF EditSpec, Resource, SpecFields
  <2>3. UNCHANGED InForce
    BY <2>1 DEF InForce
  <2>4. /\ AsResource.life \in {"unmanaged", "managed"} /\ AsResource'.pending = TRUE
        /\ AsResource'.wanted \in Templates
        /\ UNCHANGED <<AsResource.life, AsResource.doing, AsResource.copy, AsResource.inForce,
                       AsResource.reported, AsResource.known>>
    BY <1>b, <2>1, <2>2, <2>3 DEF FieldsAre
  <2>5. Promised!Edit
    <3>1. AsResource' = [AsResource EXCEPT !.wanted = AsResource'.wanted, !.pending = TRUE]
      BY <1>b, <2>4 DEF Promised!Record
    <3> QED
      BY <2>4, <3>1 DEF Promised!Edit
  <2> QED
    BY <2>5 DEF Promised!Next
<1>22. CASE DeleteResource
  <2>1. UNCHANGED <<ram, pc, des>> /\ queued' = TRUE /\ cr.life \in {"unmanaged", "managed"}
    BY <1>22 DEF DeleteResource
  <2>2. /\ UNCHANGED <<cr.spec, cr.synced, cr.arn>>
        /\ cr'.life = IF cr.life = "managed" THEN "deleting" ELSE "gone"
    BY <1>22, <1>a, Shape DEF DeleteResource, Resource
  <2>3. UNCHANGED InForce
    BY <2>1 DEF InForce
  <2>4. /\ AsResource.life \in {"unmanaged", "managed"} /\ AsResource'.pending = TRUE
        /\ AsResource'.life = IF AsResource.life = "managed" THEN "deleting" ELSE "gone"
    BY <1>b, <2>1, <2>2 DEF FieldsAre
  <2>5. UNCHANGED <<AsResource.wanted, AsResource.doing, AsResource.copy, AsResource.inForce,
                    AsResource.reported, AsResource.known>>
    BY <1>b, <2>1, <2>2, <2>3 DEF FieldsAre
  <2>6. Promised!Delete
    BY <1>b, <2>4, <2>5 DEF Promised!Delete, Promised!Record
  <2> QED
    BY <2>6 DEF Promised!Next
<1>23. CASE Resync
  <2>1. UNCHANGED <<cr, ram, pc, des>> /\ pc = "idle" /\ queued' = TRUE /\ cr.life # "gone"
    BY <1>23 DEF Resync, Quiet
  <2>2. UNCHANGED InForce
    BY <2>1 DEF InForce
  <2>3. /\ AsResource.life # "gone" /\ AsResource.doing = "nothing" /\ AsResource'.pending = TRUE
        /\ UNCHANGED <<AsResource.life, AsResource.wanted, AsResource.doing, AsResource.copy,
                       AsResource.inForce, AsResource.reported, AsResource.known>>
    BY <1>b, <2>1, <2>2 DEF FieldsAre
  <2>4. Promised!Resync
    BY <1>b, <2>3 DEF Promised!Resync, Promised!Exists, Promised!Busy, Promised!Record
  <2> QED
    BY <2>4 DEF Promised!Next
<1>24. CASE CrashRestart
  <2>1. UNCHANGED <<cr, ram>> /\ pc' = "idle" /\ queued' = TRUE
    BY <1>24 DEF CrashRestart
  <2>2. UNCHANGED InForce
    BY <2>1 DEF InForce
  <2>3. /\ AsResource'.pending = TRUE
        /\ AsResource'.doing = "nothing" /\ AsResource'.copy = NoTemplate
        /\ UNCHANGED <<AsResource.life, AsResource.wanted, AsResource.inForce,
                       AsResource.reported, AsResource.known>>
    BY <1>b, <2>1, <2>2 DEF FieldsAre
  <2>4. Promised!GiveUp
    BY <1>b, <2>3 DEF Promised!GiveUp, Promised!Idle, Promised!Record
  <2> QED
    BY <2>4 DEF Promised!Next, Promised!Worker
<1> QED
  BY <1>1, <1>2, <1>3, <1>4, <1>5, <1>6, <1>7, <1>8, <1>9, <1>10, <1>11, <1>12, <1>13, <1>14,
     <1>15,
     <1>16, <1>17, <1>18, <1>19, <1>20, <1>21, <1>22, <1>23, <1>24
  DEF Next, Worker, Update, Environment

\* The invariant the simulation rests on is inductive.
LEMMA StepRefinementInv ==
  ASSUME "external" \notin Faults, ~Stale, RefinementInv, [Next]_vars
  PROVE  RefinementInv'
<1>1. VersionInv'
  BY StepVersionInv DEF RefinementInv
<1> QED
  BY <1>1, StepCopiesAgree, StepCopiesInForce, StepOutcomeHonest DEF RefinementInv

\* The initial states are those of a resource nobody has reconciled yet.
LEMMA InitSimulates == Init => Promised!Init
<1> SUFFICES ASSUME Init PROVE Promised!Init
  OBVIOUS
<1>1. cr.spec.tmpl \in Templates
  BY InitVersionInv, Shape
<1>2. AsResource = Promised!Fresh(cr.spec.tmpl)
  BY DEF Init, AsResource, InForce, Promised!Fresh
<1> QED
  BY <1>1, <1>2 DEF Promised!Init

\* Permission implements PermissionResource (KeepsPromises): whatever call
\* fails, is lost or is cut short by a restart, and however often the user
\* edits, what others see of the resource is a behaviour of the abstract one.
THEOREM ImplementsPermissionResource ==
  ASSUME "external" \notin Faults, ~Stale
  PROVE  Spec => KeepsPromises
<1>1. Init => RefinementInv /\ Promised!Init
  BY InitRefinementInv, InitSimulates
<1>2. RefinementInv /\ [Next]_vars => RefinementInv'
  BY StepRefinementInv
<1>3. RefinementInv /\ RefinementInv' /\ [Next]_vars => [Promised!Next]_AsResource
  BY StepSimulates DEF RefinementInv, Same
<1> QED
  BY <1>1, <1>2, <1>3, PTL DEF Spec, KeepsPromises, Promised!Spec

P == INSTANCE PermissionResourceProofs WITH res <- AsResource

\* Synced means that the policy in force is the one in the spec
\* (SyncedMeansPolicyInForce), for every template, number of versions and
\* sequence of edits and faults: what the abstract resource promises, read back
\* in RAM (sdkFind, customUpdatePermission, PatchStatus).
THEOREM PolicyInForce ==
  ASSUME "external" \notin Faults, ~Stale
  PROVE  Spec => []SyncedMeansPolicyInForce
<1>1. Init => VersionInv
  BY InitVersionInv
<1>2. VersionInv /\ [Next]_vars => VersionInv'
  BY StepVersionInv
<1>3. (Promised!Init <=> P!Init) /\ (Promised!Next <=> P!Next)
  BY DEF Promised!Init, P!Init, Promised!Next, P!Next, Promised!Worker, P!Worker, Promised!Edit,
     P!Edit, Promised!Delete, P!Delete, Promised!Resync, P!Resync, Promised!Take, P!Take,
     Promised!Manage, P!Manage, Promised!Publish, P!Publish, Promised!Report, P!Report,
     Promised!GiveUp, P!GiveUp, Promised!Drop, P!Drop, Promised!Unpublish, P!Unpublish,
     Promised!Remove, P!Remove, Promised!Fresh, P!Fresh, Promised!Idle, P!Idle, Promised!Busy,
     P!Busy, Promised!Exists, P!Exists, Promised!Conditions, P!Conditions
<1>4. P!Spec => []P!SyncedMeansInForce
  BY P!PromiseOfSynced
<1>5. VersionInv /\ P!SyncedMeansInForce => SyncedMeansPolicyInForce
  <2> SUFFICES ASSUME VersionInv, P!SyncedMeansInForce, SettledSynced
               PROVE  ram.perm = "live" /\ ram.text[ram.dflt] = cr.spec.tmpl
    BY DEF SyncedMeansPolicyInForce
  <2>1. InForce = cr.spec.tmpl
    BY Fields DEF FieldsAre, SettledSynced, Quiet, P!SyncedMeansInForce, P!Busy
  <2> QED
    BY <2>1, Shape, TemplateAssumption DEF InForce
<1>6. Spec => P!Spec
  BY <1>3, ImplementsPermissionResource, PTL DEF KeepsPromises, Promised!Spec, P!Spec
<1> QED
  BY <1>1, <1>2, <1>4, <1>5, <1>6, PTL DEF Spec

-----------------------------------------------------------------------------
(* The finalizer. What follows holds whoever deletes the permission and      *)
(* however far GetPermission lags behind, but for one case: hooks.go says    *)
(* that it lags, and one that does not show a permission yet makes the       *)
(* deletion of the resource believe that there is none.                      *)

NothingLost == Faults \cap {"lost", "patch", "crash"} = {}

\* When the user's deletion looks for the permission, GetPermission has caught
\* up with the create; it may still answer with an old version.
ShownBeforeDelete == pc = "delfind" /\ ram.perm = "live" => ram.seen # 0

\* As long as nothing is lost on the way to the status, the status knows of
\* every permission that is alive; the finalizer goes once there is none.
Known ==
  /\ ram.perm = "live" => /\ cr.life \in {"managed", "deleting"}
                          /\ cr.arn \/ (pc = "done" /\ out.arn)
  /\ pc = "done" => /\ cr.arn => out.arn
                    /\ out.arn => cr.life \in {"managed", "deleting"}
  /\ pc = "unmark" => ram.perm # "live"

FinalizerInv == TypeInv /\ CopiesAgree /\ Known

LEMMA InitFinalizerInv == Init => FinalizerInv
<1>1. Init => CopiesAgree /\ Known
  BY DEF Init, CopiesAgree, FoundPcs, Known
<1> QED
  BY <1>1, InitTypeInv DEF FinalizerInv

\* No step makes the status forget a permission that is alive, nor takes the
\* finalizer away while one is.
LEMMA StepFinalizerInv ==
  ASSUME NothingLost, FinalizerInv, ShownBeforeDelete, [Next]_vars
  PROVE  FinalizerInv'
<1>1. TypeInv'
  BY StepTypeInv DEF FinalizerInv
<1>2. /\ cr \in Resource /\ ram \in RamState /\ des \in Desired /\ out \in Outcome
      /\ ~Fault("lost") /\ ~Fault("patch") /\ ~Fault("crash")
  BY DEF FinalizerInv, TypeInv, TypeOK, NothingLost, Fault
<1>3. CopiesAgree' /\ Known'
  <2> USE <1>2 DEF FinalizerInv, CopiesAgree, Known, DeletePcs, FoundPcs, mem, env, Resource,
         RamState, Desired, Outcome
  <2>1. CASE StartReconcile
    BY <2>1 DEF StartReconcile
  <2>2. CASE SdkFind
    BY <2>2 DEF SdkFind, FailDesired, FailWith, Finish
  <2>3. CASE MarkManaged
    BY <2>3 DEF MarkManaged, FailDesired, FailWith, Finish
  <2>4. CASE SdkCreate
    BY <2>4 DEF SdkCreate, RamCreated, FailDesired, FailWith, Finish
  <2>5. CASE PatchLatestStatus
    <3>1. pc = "status" /\ UNCHANGED <<ram, des>> /\ cr'.life = cr.life /\ cr.arn
      BY <2>5 DEF PatchLatestStatus
    <3>2. pc' \in {"untag", "newver"} \/ (pc' = "done" /\ out'.arn)
      BY <2>5 DEF PatchLatestStatus, AfterTags, Updated, FailLatest, FailWith, Finish
    <3>3. cr'.arn
      BY <2>5 DEF PatchLatestStatus
    <3> QED
      BY <3>1, <3>2, <3>3
  <2>6. CASE Untag
    BY <2>6 DEF Untag
  <2>7. CASE Tag
    BY <2>7 DEF Tag, AfterTags, Updated, FailLatest, FailWith, Finish
  <2>8. CASE CreatePermissionVersion
    BY <2>8 DEF CreatePermissionVersion, RamCanAddVersion, RamVersionAdded, FailLatest, FailWith,
       Finish
  <2>9. CASE DeleteNonDefaultPermissionVersion
    BY <2>9 DEF DeleteNonDefaultPermissionVersion, RamVersionDeleted, FailLatest, FailWith, Finish
  <2>10. CASE SetDefaultPermissionVersion
    BY <2>10 DEF SetDefaultPermissionVersion, RamDefaultSet, Updated, FailLatest, FailWith, Finish
  <2>11. CASE PatchStatus
    BY <2>11 DEF PatchStatus
  <2>12. CASE FindBeforeDelete
    BY <2>12 DEF FindBeforeDelete, ShownBeforeDelete, RamFound, FailDesired, FailWith, Finish
  <2>13. CASE SdkDelete
    <3>1. pc = "delete" /\ UNCHANGED <<cr, des>> /\ ram'.perm \in {ram.perm, "deleted"}
      BY <2>13 DEF SdkDelete, RamDeleted
    <3>2. DeleteFailed => pc' = "done" /\ out'.arn
      BY DEF DeleteFailed, FailLatest, FailWith, Finish
    <3>3. ram' = RamDeleted => ram'.perm = "deleted"
      BY DEF RamDeleted
    <3>4. (pc' = "unmark" /\ ram'.perm = "deleted") \/ (pc' = "done" /\ out'.arn)
      BY <2>13, <3>2, <3>3 DEF SdkDelete
    <3> QED
      BY <3>1, <3>4
  <2>14. CASE MarkUnmanaged
    BY <2>14 DEF MarkUnmanaged
  <2>15. CASE EditSpec
    BY <2>15 DEF EditSpec
  <2>16. CASE DeleteResource
    BY <2>16 DEF DeleteResource
  <2>17. CASE Resync
    BY <2>17 DEF Resync
  <2>18. CASE CrashRestart
    BY <2>18 DEF CrashRestart
  <2>19. CASE Attach
    BY <2>19 DEF Attach
  <2>20. CASE Detach
    BY <2>20 DEF Detach
  <2>21. CASE DeletedElsewhere
    BY <2>21 DEF DeletedElsewhere, RamDeleted
  <2>22. CASE Propagate
    BY <2>22 DEF Propagate
  <2>23. CASE Purge
    BY <2>23 DEF Purge
  <2>24. CASE UNCHANGED vars
    BY <2>24 DEF vars
  <2> QED
    BY <2>1, <2>2, <2>3, <2>4, <2>5, <2>6, <2>7, <2>8, <2>9, <2>10, <2>11, <2>12, <2>13, <2>14,
       <2>15, <2>16, <2>17, <2>18, <2>19, <2>20, <2>21, <2>22, <2>23, <2>24
       DEF Next, Worker, Update, Environment
<1> QED
  BY <1>1, <1>3 DEF FinalizerInv

\* The finalizer holds the custom resource until the permission is gone
\* (GoneMeansCleaned), for any number of failing calls and edits, with others
\* deleting the permission and with GetPermission answering with old versions
\* (Stale), under two assumptions: no answer, patch or worker is lost
\* (NothingLost), and GetPermission shows the permission, in whatever version,
\* by the time the deletion looks for it (ShownBeforeDelete). sdkFind,
\* sdkCreate, sdkDelete, MarkUnmanaged.
THEOREM FinalizerHolds ==
  ASSUME NothingLost
  PROVE  Spec /\ []ShownBeforeDelete => []GoneMeansCleaned
<1>1. Init => FinalizerInv
  BY InitFinalizerInv
<1>2. FinalizerInv /\ ShownBeforeDelete /\ [Next]_vars => FinalizerInv'
  BY StepFinalizerInv
<1>3. FinalizerInv => GoneMeansCleaned
  BY DEF FinalizerInv, Known, GoneMeansCleaned
<1> QED
  BY <1>1, <1>2, <1>3, PTL DEF Spec

\* A GetPermission that does not lag meets the assumption by itself: version
\* numbers start at 1, so what it shows of a live permission is never nothing.
COROLLARY FinalizerHoldsWithoutLag ==
  ASSUME NothingLost, ~Stale
  PROVE  Spec => []GoneMeansCleaned
<1> DEFINE Shows == ram.perm = "live" => ram.seen # 0
<1>1. Init => Shows
  BY DEF Init
<1>2. TypeInv /\ Shows /\ [Next]_vars => Shows'
  <2> SUFFICES ASSUME TypeInv, Shows, [Next]_vars PROVE Shows'
    OBVIOUS
  <2>1. /\ ram \in RamState /\ newv \in 0..MaxVer
        /\ ram.nver \in 0..MaxVer /\ ram.dflt \in 0..MaxVer
    BY DEF TypeInv, TypeOK, RamState
  <2>11. ram.live \subseteq 1..ram.nver /\ (ram.perm = "live" => ram.dflt # 0)
    BY DEF TypeInv, VersionNumbers
  <2> USE <2>1, MaxVerAssumption DEF RamState
  <2>2. CASE SdkCreate
    BY <2>2 DEF SdkCreate, RamCreated
  <2>3. CASE Untag \/ Tag
    BY <2>3 DEF Untag, Tag
  <2>4. CASE CreatePermissionVersion
    <3>1. CASE ram' = RamVersionAdded(des.spec.tmpl)
      <4>1. ram'.seen = ram.nver + 1
        BY <3>1 DEF RamVersionAdded, Shown
      <4> QED
        BY <4>1
    <3> QED
      BY <2>4, <3>1 DEF CreatePermissionVersion
  <2>5. CASE DeleteNonDefaultPermissionVersion
    BY <2>5 DEF DeleteNonDefaultPermissionVersion, RamVersionDeleted
  <2>6. CASE SetDefaultPermissionVersion
    <3>1. CASE RamCanSetDefault(newv) /\ ram' = RamDefaultSet(newv)
      <4>1. newv # 0
        BY <3>1, <2>11 DEF RamCanSetDefault
      <4>2. ram'.seen = newv
        BY <3>1 DEF RamDefaultSet, Shown
      <4> QED
        BY <4>1, <4>2
    <3> QED
      BY <2>6, <3>1 DEF SetDefaultPermissionVersion
  <2>7. CASE SdkDelete \/ DeletedElsewhere
    BY <2>7 DEF SdkDelete, DeletedElsewhere, RamDeleted
  <2>8. CASE Attach \/ Detach \/ Purge
    BY <2>8 DEF Attach, Detach, Purge
  <2>9. CASE Propagate
    BY <2>9, <2>11 DEF Propagate
  <2>10. CASE UNCHANGED ram
    BY <2>10
  <2> QED
    BY <2>2, <2>3, <2>4, <2>5, <2>6, <2>7, <2>8, <2>9, <2>10
    DEF Next, Worker, Update, Environment, vars, StartReconcile, SdkFind, MarkManaged,
        PatchLatestStatus, PatchStatus, FindBeforeDelete, MarkUnmanaged, EditSpec, DeleteResource,
        Resync, CrashRestart
<1>3. Shows => ShownBeforeDelete
  BY DEF ShownBeforeDelete
<1>4. Spec => []TypeInv
  BY InitTypeInv, StepTypeInv, PTL DEF Spec
<1>5. Spec /\ []ShownBeforeDelete => []GoneMeansCleaned
  BY FinalizerHolds
<1> QED
  BY <1>1, <1>2, <1>3, <1>4, <1>5, InitTypeInv, PTL DEF Spec
=============================================================================
