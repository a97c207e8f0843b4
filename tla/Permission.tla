----------------------------- MODULE Permission -----------------------------
(***************************************************************************)
(* One Permission custom resource, the worker that reconciles it, and the  *)
(* customer managed permission it stands for in AWS RAM.                   *)
(*                                                                         *)
(* Every call that leaves the process (a RAM API call, a Kubernetes patch) *)
(* is one step, so the user, RAM and a crash can come between any two.     *)
(* What the worker holds in memory (des, lat, newv, out) is what the Go    *)
(* code holds in its *resource values: copies that age while RAM and the   *)
(* custom resource move on.                                                *)
(***************************************************************************)
EXTENDS Integers, FiniteSets, Tags

CONSTANTS
  Templates,    \* the policy templates a user may write
  BadTemplates, \* those RAM rejects with InvalidParameterException
  Names,        \* values of the pair (Spec.Name, Spec.ResourceType)
  NoTemplate,   \* text of a version number not in use
  MaxVer,       \* bound: version numbers RAM hands out
  MaxEdits,     \* bound: edits by the user
  MaxFaults,    \* bound: faults by the environment
  Faults,       \* which faults happen: api, lost, patch, crash, share, external
  EditAnyTime,  \* FALSE: the user waits for Synced before editing again
  FreshEdits,   \* TRUE: the user never returns to a template used before
  Stale         \* TRUE: GetPermission may lag behind the latest write

FaultKinds == {"api", "lost", "patch", "crash", "share", "external"}

ASSUME MaxVerAssumption == MaxVer \in Nat \ {0}
ASSUME BoundAssumption == MaxEdits \in Nat /\ MaxFaults \in Nat
ASSUME TemplateAssumption == BadTemplates \subseteq Templates /\ NoTemplate \notin Templates
ASSUME NonEmptyAssumption == Templates # {} /\ Names # {}
ASSUME FaultAssumption == Faults \subseteq FaultKinds

VARIABLES
  cr,      \* the custom resource in the Kubernetes API server
  ram,     \* the permission and its versions in RAM
  pc,      \* next call of the reconcile in progress, "idle" when there is none
  des,     \* desired: the copy of cr read when the reconcile began
  lat,     \* latest: what sdkFind returned
  newv,    \* the version CreatePermissionVersion returned (written into desired)
  out,     \* the status and Synced condition the reconcile is about to patch
  queued,  \* the resource is in the work queue
  edits, faults

env == <<edits, faults>>
mem == <<des, lat, newv, out>>
vars == <<cr, ram, pc, mem, queued, env>>

Versions == 1..MaxVer
SpecFields == [tmpl : Templates, tags : Tagging, name : Names]
Synced == {"none", "True", "False", "error", "terminal"}
Calls == {"idle", "find", "mark", "create", "status", "untag", "tag", "newver",
          "delver", "setdef", "done", "delfind", "delete", "unmark"}

Desired == [spec : SpecFields, arn : BOOLEAN, ver : 0..MaxVer, deleting : BOOLEAN]
Latest == [spec : SpecFields, ver : 0..MaxVer]
Outcome == [arn : BOOLEAN, ver : 0..MaxVer, synced : Synced]

Resource == [spec : SpecFields, arn : BOOLEAN, ver : 0..MaxVer, synced : Synced,
             life : {"unmanaged", "managed", "deleting", "gone"}]
RamState == [perm : {"none", "live", "deleted"},
             text : [Versions -> Templates \cup {NoTemplate}],
             live : SUBSET Versions, dflt : 0..MaxVer, nver : 0..MaxVer,
             seen : 0..MaxVer, tags : Tagging, name : Names,
             attached : SUBSET Versions]

TypeOK ==
  /\ cr \in Resource /\ ram \in RamState
  /\ pc \in Calls
  /\ des \in Desired /\ lat \in Latest /\ newv \in 0..MaxVer /\ out \in Outcome
  /\ queued \in BOOLEAN
  /\ edits \in 0..MaxEdits /\ faults \in 0..MaxFaults

-----------------------------------------------------------------------------
(* RAM: what its calls do to the permission. External.                     *)

Shown(v) == IF Stale THEN ram.seen ELSE v

\* CreatePermission: version 1 becomes the default.
RamCreated(spec) ==
  [perm |-> "live", text |-> [v \in Versions |-> IF v = 1 THEN spec.tmpl ELSE NoTemplate],
   live |-> {1}, dflt |-> 1, nver |-> 1, seen |-> IF Stale THEN 0 ELSE 1,
   tags |-> spec.tags, name |-> spec.name, attached |-> {}]

\* CreatePermissionVersion: the new version becomes the default. RAM refuses
\* a template that a live version already has.
RamCanAddVersion(t) ==
  /\ ram.perm = "live" /\ ram.nver < MaxVer
  /\ t \notin BadTemplates
  /\ \A v \in ram.live : ram.text[v] # t
RamVersionAdded(t) ==
  [ram EXCEPT !.nver = @ + 1, !.dflt = ram.nver + 1, !.seen = Shown(ram.nver + 1),
              !.live = @ \cup {ram.nver + 1}, !.text[ram.nver + 1] = t]

\* DeletePermissionVersion: never the default, never one a share still uses.
RamCanDeleteVersion(v) ==
  ram.perm = "live" /\ v \in ram.live /\ v # ram.dflt /\ v \notin ram.attached
RamVersionDeleted(v) == [ram EXCEPT !.live = @ \ {v}]

RamCanSetDefault(v) == ram.perm = "live" /\ v \in ram.live
RamDefaultSet(v) == [ram EXCEPT !.dflt = v, !.seen = Shown(v)]

RamDeleted == [ram EXCEPT !.perm = "deleted", !.live = {}]

\* GetPermission. A deleted permission is still returned, with status DELETED.
RamFound == ram.perm # "none" /\ ram.seen # 0
RamRead == [spec |-> [tmpl |-> ram.text[ram.seen], tags |-> ram.tags, name |-> ram.name],
            ver |-> ram.seen]

-----------------------------------------------------------------------------
(* The environment of one call.                                            *)

Fault(kind) == kind \in Faults /\ faults < MaxFaults /\ faults' = faults + 1
NoFault == faults' = faults

-----------------------------------------------------------------------------
(* What the worker decides from its copies.                                *)

Blank == CHOOSE s \in SpecFields : TRUE
NoOutcome == [arn |-> FALSE, ver |-> 0, synced |-> "none"]

\* newResourceDelta, as far as the hooks branch on it
TagsDiffer == des.spec.tags # lat.spec.tags
TemplateDiffers == des.spec.tmpl # lat.spec.tmpl

Removed == TagsRemoved(lat.spec.tags, des.spec.tags)
Added == TagsAdded(lat.spec.tags, des.spec.tags)

\* updatePermission deletes the version that the custom resource names.
Mutant_DeletesNewVersion == newv
Mutant_DeletesOneBefore == des.ver - 1
VersionToDelete == des.ver

\* terminalAWSError
ErrorFor(t) == IF t \in BadTemplates THEN "terminal" ELSE "error"

Finish(o) == pc' = "done" /\ out' = o

\* onError: the status of the given copy, the condition the error calls for
Mutant_FailAsSynced(arn, ver, condition) == Finish([arn |-> arn, ver |-> ver, synced |-> "True"])
FailWith(arn, ver, condition) == Finish([arn |-> arn, ver |-> ver, synced |-> condition])
Mutant_RollBackVersion(condition) == FailWith(des.arn, des.ver - 1, condition)
FailDesired(condition) == FailWith(des.arn, des.ver, condition)
Mutant_FailForGood == FailWith(TRUE, lat.ver, "terminal")
FailLatest == FailWith(TRUE, lat.ver, "error")
Mutant_DropDeleteError == pc' = "unmark" /\ UNCHANGED out
Mutant_DeleteErrorTerminal == FailWith(TRUE, lat.ver, "terminal")
DeleteFailed == FailLatest

\* customUpdatePermission returns the copy of desired it took on entry: its
\* Status.Version is the one read when the reconcile began.
Mutant_UpdatedWithoutStatus(condition) == [arn |-> des.arn, ver |-> 0, synced |-> condition]
Updated(condition) == [arn |-> des.arn, ver |-> des.ver, synced |-> condition]

Mutant_TagsOrTemplate == Finish(Updated("True"))
AfterTags == IF TemplateDiffers THEN pc' = "newver" /\ UNCHANGED out
                                ELSE Finish(Updated("True"))

NoDesired == [spec |-> Blank, arn |-> FALSE, ver |-> 0, deleting |-> FALSE]
Forget == /\ des' = NoDesired
          /\ lat' = [spec |-> Blank, ver |-> 0] /\ newv' = 0 /\ out' = NoOutcome

-----------------------------------------------------------------------------
(* The reconcile of a resource that is not being deleted.                  *)

StartReconcile ==
  /\ pc = "idle" /\ queued /\ cr.life # "gone"
  /\ queued' = FALSE
  /\ des' = [spec |-> cr.spec, arn |-> cr.arn, ver |-> cr.ver, deleting |-> cr.life = "deleting"]
  /\ pc' = IF cr.life = "deleting" THEN "delfind" ELSE "find"
  /\ UNCHANGED <<cr, ram, lat, newv, out, env>>

SdkFind ==
  /\ pc = "find"
  /\ \/ /\ ~des.arn \/ ~RamFound
        /\ NoFault
        /\ pc' = IF cr.life \in {"unmanaged", "gone"} THEN "mark" ELSE "create"
        /\ UNCHANGED <<lat, out>>
     \/ /\ des.arn /\ RamFound
        /\ NoFault
        /\ lat' = RamRead
        /\ IF des.spec # RamRead.spec THEN pc' = "status" /\ UNCHANGED out
           ELSE Finish([arn |-> TRUE, ver |-> RamRead.ver, synced |-> "True"])
     \/ /\ des.arn /\ Fault("api")
        /\ FailDesired("error") /\ UNCHANGED lat
  /\ UNCHANGED <<cr, ram, des, newv, queued, edits>>

MarkManaged ==
  /\ pc = "mark"
  /\ \/ /\ cr.life = "unmanaged" /\ NoFault
        /\ cr' = [cr EXCEPT !.life = "managed"]
        /\ pc' = "create" /\ UNCHANGED out
     \/ /\ (cr.life = "gone" /\ NoFault) \/ Fault("patch")
        /\ FailDesired("error") /\ UNCHANGED cr
  /\ UNCHANGED <<ram, des, lat, newv, queued, edits>>

SdkCreate ==
  /\ pc = "create"
  /\ \/ /\ ram.perm # "live" /\ des.spec.tmpl \notin BadTemplates
        /\ ram' = RamCreated(des.spec)
        /\ \/ NoFault /\ Finish([arn |-> TRUE, ver |-> 1, synced |-> "True"])
           \/ Fault("lost") /\ FailDesired("error")
     \/ /\ ram.perm = "live" \/ des.spec.tmpl \in BadTemplates
        /\ NoFault /\ FailDesired(ErrorFor(des.spec.tmpl)) /\ UNCHANGED ram
     \/ /\ Fault("api") /\ FailDesired("error") /\ UNCHANGED ram
  /\ UNCHANGED <<cr, des, lat, newv, queued, edits>>

\* The runtime stores what sdkFind read before it lets Update run.
PatchLatestStatus ==
  /\ pc = "status"
  /\ \/ /\ NoFault
        /\ cr' = [cr EXCEPT !.arn = TRUE, !.ver = lat.ver]
        /\ IF TagsDiffer THEN pc' = "untag" /\ UNCHANGED out ELSE AfterTags
     \/ /\ Fault("patch") /\ FailLatest /\ UNCHANGED cr
  /\ UNCHANGED <<ram, des, lat, newv, queued, edits>>

\* syncTags, first half: an error of UntagResource is logged and dropped.
Untag ==
  /\ pc = "untag"
  /\ pc' = "tag"
  /\ \/ /\ Removed # {} /\ ram.perm = "live" /\ NoFault
        /\ ram' = [ram EXCEPT !.tags = UntagKeys(@, Removed)]
     \/ /\ (Removed = {} \/ ram.perm # "live") /\ NoFault /\ UNCHANGED ram
     \/ /\ Removed # {} /\ Fault("api") /\ UNCHANGED ram
  /\ UNCHANGED <<cr, mem, queued, edits>>

\* syncTags, second half
Tag ==
  /\ pc = "tag"
  /\ \/ /\ Added # {} /\ ram.perm = "live"
        /\ ram' = [ram EXCEPT !.tags = TagKeysAs(@, Added, des.spec.tags)]
        /\ \/ NoFault /\ AfterTags
           \/ Fault("lost") /\ FailLatest
     \/ /\ Added = {} /\ NoFault /\ AfterTags /\ UNCHANGED ram
     \/ /\ Added # {}
        /\ (ram.perm # "live" /\ NoFault) \/ Fault("api")
        /\ FailLatest /\ UNCHANGED ram
  /\ UNCHANGED <<cr, des, lat, newv, queued, edits>>

\* updatePermission, in three calls
CreatePermissionVersion ==
  /\ pc = "newver"
  /\ \/ /\ RamCanAddVersion(des.spec.tmpl)
        /\ ram' = RamVersionAdded(des.spec.tmpl)
        /\ newv' = ram.nver + 1
        /\ \/ NoFault /\ pc' = "delver" /\ UNCHANGED out
           \/ Fault("lost") /\ FailLatest
     \/ /\ ~RamCanAddVersion(des.spec.tmpl) /\ NoFault
        /\ FailWith(TRUE, lat.ver, ErrorFor(des.spec.tmpl))
        /\ UNCHANGED <<ram, newv>>
     \/ /\ Fault("api") /\ FailLatest /\ UNCHANGED <<ram, newv>>
  /\ UNCHANGED <<cr, des, lat, queued, edits>>

DeleteNonDefaultPermissionVersion ==
  /\ pc = "delver"
  /\ \/ /\ RamCanDeleteVersion(VersionToDelete)
        /\ ram' = RamVersionDeleted(VersionToDelete)
        /\ \/ NoFault /\ pc' = "setdef" /\ UNCHANGED out
           \/ Fault("lost") /\ FailLatest
     \/ /\ (~RamCanDeleteVersion(VersionToDelete) /\ NoFault) \/ Fault("api")
        /\ FailLatest /\ UNCHANGED ram
  /\ UNCHANGED <<cr, des, lat, newv, queued, edits>>

SetDefaultPermissionVersion ==
  /\ pc = "setdef"
  /\ \/ /\ RamCanSetDefault(newv)
        /\ ram' = RamDefaultSet(newv)
        /\ \/ NoFault /\ Finish(Updated("False"))
           \/ Fault("lost") /\ FailLatest
     \/ /\ (~RamCanSetDefault(newv) /\ NoFault) \/ Fault("api")
        /\ FailLatest /\ UNCHANGED ram
  /\ UNCHANGED <<cr, des, lat, newv, queued, edits>>

\* The end of every reconcile: patch the status, decide whether to come back.
PatchStatus ==
  /\ pc = "done"
  /\ \/ /\ NoFault
        /\ cr' = IF cr.life = "gone" THEN cr
                 ELSE [cr EXCEPT !.arn = out.arn, !.ver = out.ver, !.synced = out.synced]
        /\ queued' = (queued \/ out.synced \in {"error", "False"})
     \/ /\ Fault("patch") /\ queued' = TRUE /\ UNCHANGED cr
  /\ pc' = "idle" /\ Forget
  /\ UNCHANGED <<ram, edits>>

-----------------------------------------------------------------------------
(* The reconcile of a resource that is being deleted.                      *)

FindBeforeDelete ==
  /\ pc = "delfind"
  /\ \/ /\ ~des.arn \/ ~RamFound
        /\ NoFault /\ pc' = "unmark" /\ UNCHANGED <<lat, out>>
     \/ /\ des.arn /\ RamFound
        /\ NoFault /\ pc' = "delete" /\ lat' = RamRead /\ UNCHANGED out
     \/ /\ des.arn /\ Fault("api") /\ FailDesired("error") /\ UNCHANGED lat
  /\ UNCHANGED <<cr, ram, des, newv, queued, edits>>

SdkDelete ==
  /\ pc = "delete"
  /\ \/ /\ ram.perm = "live" /\ ram.attached = {}
        /\ ram' = RamDeleted
        /\ \/ NoFault /\ pc' = "unmark" /\ UNCHANGED out
           \/ Fault("lost") /\ DeleteFailed
     \/ /\ ((ram.perm # "live" \/ ram.attached # {}) /\ NoFault) \/ Fault("api")
        /\ DeleteFailed /\ UNCHANGED ram
  /\ UNCHANGED <<cr, des, lat, newv, queued, edits>>

MarkUnmanaged ==
  /\ pc = "unmark"
  /\ \/ /\ NoFault /\ cr' = [cr EXCEPT !.life = "gone"]
        /\ pc' = "idle" /\ Forget
     \/ /\ Fault("patch") /\ UNCHANGED cr
        /\ FailDesired("error") /\ UNCHANGED <<des, lat, newv>>
  /\ UNCHANGED <<ram, queued, edits>>

-----------------------------------------------------------------------------
(* The user, RAM's own life, restarts and the resync timer.                *)

Quiet == pc = "idle" /\ ~queued

Fresh(t) == t = cr.spec.tmpl \/ t \in BadTemplates
            \/ t \notin {ram.text[v] : v \in Versions} \cup {des.spec.tmpl}

EditSpec ==
  /\ cr.life \in {"unmanaged", "managed"} /\ edits < MaxEdits
  /\ EditAnyTime \/ Quiet
  /\ \E s \in SpecFields \ {cr.spec} :
        /\ FreshEdits => Fresh(s.tmpl)
        /\ cr' = [cr EXCEPT !.spec = s]
  /\ edits' = edits + 1 /\ queued' = TRUE
  /\ UNCHANGED <<ram, pc, mem, faults>>

DeleteResource ==
  /\ cr.life \in {"unmanaged", "managed"}
  /\ EditAnyTime \/ Quiet
  /\ cr' = [cr EXCEPT !.life = IF @ = "managed" THEN "deleting" ELSE "gone"]
  /\ queued' = TRUE
  /\ UNCHANGED <<ram, pc, mem, env>>

Resync ==
  /\ Quiet /\ cr.life # "gone" /\ queued' = TRUE
  /\ UNCHANGED <<cr, ram, pc, mem, env>>

CrashRestart ==
  /\ Fault("crash")
  /\ pc' = "idle" /\ Forget /\ queued' = TRUE
  /\ UNCHANGED <<cr, ram, edits>>

\* A resource share starts or stops using the current default version.
Attach ==
  /\ ram.perm = "live" /\ Fault("share")
  /\ ram' = [ram EXCEPT !.attached = @ \cup {ram.dflt}]
  /\ UNCHANGED <<cr, pc, mem, queued, edits>>

Detach ==
  /\ \E v \in ram.attached : ram' = [ram EXCEPT !.attached = @ \ {v}]
  /\ UNCHANGED <<cr, pc, mem, queued, env>>

DeletedElsewhere ==
  /\ ram.perm = "live" /\ ram.attached = {} /\ Fault("external")
  /\ ram' = RamDeleted
  /\ UNCHANGED <<cr, pc, mem, queued, edits>>

Propagate ==
  /\ ram.perm = "live" /\ ram.seen # ram.dflt
  /\ ram' = [ram EXCEPT !.seen = ram.dflt]
  /\ UNCHANGED <<cr, pc, mem, queued, env>>

Purge ==
  /\ ram.perm = "deleted"
  /\ ram' = [ram EXCEPT !.perm = "none"]
  /\ UNCHANGED <<cr, pc, mem, queued, env>>

-----------------------------------------------------------------------------
Init ==
  /\ \E s \in SpecFields :
       cr = [spec |-> s, arn |-> FALSE, ver |-> 0, synced |-> "none", life |-> "unmanaged"]
  /\ ram = [perm |-> "none", text |-> [v \in Versions |-> NoTemplate], live |-> {},
            dflt |-> 0, nver |-> 0, seen |-> 0, tags |-> Blank.tags,
            name |-> Blank.name, attached |-> {}]
  /\ pc = "idle" /\ queued = TRUE
  /\ des = NoDesired
  /\ lat = [spec |-> Blank, ver |-> 0]
  /\ newv = 0 /\ out = NoOutcome
  /\ edits = 0 /\ faults = 0

Update ==
  \/ PatchLatestStatus \/ Untag \/ Tag \/ CreatePermissionVersion
  \/ DeleteNonDefaultPermissionVersion \/ SetDefaultPermissionVersion

Worker ==
  \/ StartReconcile \/ SdkFind \/ MarkManaged \/ SdkCreate \/ Update \/ PatchStatus
  \/ FindBeforeDelete \/ SdkDelete \/ MarkUnmanaged

Environment ==
  \/ EditSpec \/ DeleteResource \/ Resync \/ CrashRestart
  \/ Attach \/ Detach \/ DeletedElsewhere \/ Propagate \/ Purge

Next == Worker \/ Environment
Spec == Init /\ [][Next]_vars

\* One worker takes the queue's items in turn and an item that failed comes
\* back after a delay, so the worker never stops for ever; RAM eventually shows
\* its latest write and eventually forgets what was deleted; and the resync of a
\* synced resource comes (helm/values.yaml: 10 hours).
Fairness ==
  /\ WF_vars(Worker) /\ WF_vars(Propagate) /\ WF_vars(Purge)
  /\ WF_vars(cr.synced = "True" /\ Resync)
FairSpec == Spec /\ Fairness

-----------------------------------------------------------------------------
(* Properties.                                                             *)

\* The policy that RAM enforces.
InForce == IF ram.perm = "live" THEN ram.text[ram.dflt] ELSE NoTemplate

\* Nothing is pending for a resource the controller reports as synced.
SettledSynced == Quiet /\ cr.life = "managed" /\ cr.synced = "True"

\* The version updatePermission asks RAM to delete is never the one in force,
\* however old the version number is that it took from the custom resource.
NeverDeletesDefault == pc = "delver" => VersionToDelete # ram.dflt

\* When the resource is reported as synced and nothing is pending, the policy
\* in force in RAM is the one in the spec, whatever call failed, was lost or
\* was cut short by a restart on the way there (delta.go, customUpdatePermission).
SyncedMeansPolicyInForce ==
  SettledSynced => ram.perm = "live" /\ ram.text[ram.dflt] = cr.spec.tmpl

\* ... and the tags in RAM are those of the spec (syncTags).
SyncedMeansTagged == SettledSynced => ram.tags = cr.spec.tags

\* updatePermission keeps one version at all times between two updates: a
\* synced permission has no live version besides its default.
OneVersionWhenSynced == SettledSynced => ram.live = {ram.dflt}

\* Status.Version, from which the version to delete is taken, never goes back.
VersionNeverGoesBack == [][cr'.ver >= cr.ver]_vars

\* The finalizer holds the custom resource until the permission is gone: when
\* the resource has left the cluster no live permission is left behind.
GoneMeansCleaned == cr.life = "gone" => ram.perm # "live"

\* Once the user stops, the resource comes to rest: the permission is alive in
\* RAM, made anew if someone else has deleted it, the policy in force is the one
\* in the spec and the controller says so; a template RAM rejects ends in the
\* Terminal condition (sdkFind, sdkCreate, customUpdatePermission).
Converges ==
  <>[](cr.life = "managed" =>
         IF cr.spec.tmpl \in BadTemplates THEN cr.synced = "terminal"
         ELSE cr.synced = "True" /\ InForce = cr.spec.tmpl)

\* A resource marked for deletion leaves the cluster, unless shares keep using a
\* version of its permission.
DeletionCompletes ==
  <>[](ram.attached = {}) => (cr.life = "deleting" ~> cr.life = "gone")

-----------------------------------------------------------------------------
(* What others rely on, and how the state above stands for it.             *)

AsResource ==
  [life |-> cr.life, wanted |-> cr.spec.tmpl, pending |-> queued,
   doing |-> IF pc = "idle" THEN "nothing" ELSE IF des.deleting THEN "remove" ELSE "apply",
   copy |-> IF pc = "idle" THEN NoTemplate ELSE des.spec.tmpl,
   inForce |-> InForce,
   reported |-> cr.synced, known |-> cr.arn]
Promised == INSTANCE PermissionResource WITH res <- AsResource

\* Seen from outside, the versions, tags and copies make up a Permission
\* resource as a share that refers to it relies on: the policy in force is
\* always one the worker took from the spec, Synced is said only of the policy
\* in force, and the resource does not leave before its policy does
\* (sdkFind, sdkCreate, customUpdatePermission, sdkDelete, onError).
KeepsPromises == Promised!Spec
=============================================================================
