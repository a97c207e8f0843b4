# TLA+ models of the RAM controller

`ram-controller` is the ACK (AWS Controllers for Kubernetes) controller for AWS
Resource Access Manager. It watches two kinds of custom resource, `Permission`
and `ResourceShare`, and makes RAM hold what their specs say. The code of this
repository is a set of callbacks that the ACK runtime calls in the course of a
*reconcile*: read (`sdkFind`), compare (`newResourceDelta`), create, update,
delete. What is hard about it is never in one callback. It is in the copies of
the custom resource that age while a reconcile goes through its calls, in calls
that fail or whose answer is lost half-way, in restarts, in a RAM that works
asynchronously, and in what one reconcile leaves for the next.

All paths below are relative to the repository.

## 1. Inventory

| Component | Source | State | Operations |
|---|---|---|---|
| permission manager | `pkg/resource/permission/{hooks,sdk,manager,delta,descriptor}.go` | the custom resource (spec, `Status.Version`, ARN, conditions, finalizer); the permission, its versions and tags in RAM; the copies `desired` and `latest` | read, create, update (tags; create, delete and set the default version), delete, finalizer |
| resource share manager | `pkg/resource/resource_share/{hooks,sdk,manager,delta,descriptor}.go` | the same, and the permissions and the principal, resource and source associations of a share | read (four calls), create, update (tags, permissions one by one, associations, `UpdateResourceShare`), delete, finalizer |
| list comparison | `compareStringSlices` in `resource_share/hooks.go` | none | which entries to associate and which to disassociate |
| tag synchronisation | `syncTags`, `compareTags`, `EnsureTags`, `mirrorAWSTags`, `tags.go` of both packages | none | which tags to add and to remove, and which to leave to AWS |
| manager factory | `manager_factory.go` of both packages | the cache of managers, an `RWMutex` | `ManagerFor`, called by all workers |
| references | `resource_share/references.go` | none of its own; reads the `Permission` resource referred to | `permissionRefs` to ARNs, and back |
| identifiers, registry, late initialisation, `cmd/controller/main.go` | | constant after start | wiring; late initialisation has an empty field list |
| API types, CRDs, helm, olm | `apis/`, `config/`, `helm/`, `olm/` | | data, generated code, manifests |
| ACK runtime, AWS SDK, RAM, Kubernetes | not in this repository | | external |

How they interact: a user edits a custom resource; its key enters a work queue;
one worker takes it, asks the factory for a manager, reads the custom resource
into `desired`, calls `ReadOne` to make `latest`, compares the two and calls
`Create`, `Update` or `Delete` on the manager, which call RAM; the runtime
patches the status it is given and decides whether the key comes back.

What makes each correct, and where it is hard:

* **Permission.** A policy change is three RAM calls whose middle one deletes a
  version *named in the status*. It must never be the version in force, it
  should be the right one, and a failure between the calls must be made up for.
  Synced must not be said while another policy is in force. The finalizer must
  outlast the permission in RAM.
* **ResourceShare.** A share is found *by name*, and only if the status already
  names this account as its owner. Reading it is four calls and changing it up
  to seven kinds of calls; each can be the last one that happens. Associations
  are asynchronous, and only finished ones are seen.
* **References.** A share that refers to a `Permission` depends on the other
  resource's worker: it can use it only once its status says Synced and has the
  ARN, nothing tells the share when that is so, and RAM does not delete a
  permission that a share uses. The two workers must not wait for each other for
  ever, whatever order the user applies and deletes the resources in.
* **List comparison.** Line 203 of `hooks.go` builds one list out of the other.
  What keeps the controller working nevertheless is that it is called again.
* **Factory.** A lookup under a read lock, then a store under a write lock.

The hazards, each at its line and with the properties that watch it, are in
`PROJECT.json`.

## 2. Modules

| Module | Models | Proofs |
|---|---|---|
| `Tags` | `GetTagsDifference` as `syncTags` uses it, `UntagResource`, `TagResource`, `EnsureTags`, `mirrorAWSTags` | `OperatorProofs` |
| `PermissionResource` | abstract: what others may rely on of a `Permission` resource: wanted, in force, reported | `PermissionResourceProofs` |
| `Permission` (uses `Tags`; implements `PermissionResource`) | one `Permission`, its worker, RAM, the user | `PermissionProofs`, `PermissionSettledProofs` |
| `StringSlices` | `compareStringSlices` | `OperatorProofs` |
| `SliceRounds` (uses `StringSlices`) | that comparison called again and again | `SliceRoundsProofs` |
| `ResourceShare` (uses `Tags`, `StringSlices`; composed with `PermissionResource`) | one `ResourceShare`, its worker, RAM, the user, and the `Permission` it may refer to with its worker and user | `ResourceShareProofs`, `ResourceShareSettledProofs` |
| `MCResourceShare` | the specs a user writes in each run | |
| `ManagerFactory` | `ManagerFor` and its concurrent callers | `ManagerFactoryProofs` |

### The abstract resource, its implementation and its use

`PermissionResource` has one record: the policy the user wants, whether the key
is in the queue, what the worker is at and the spec it has in hand, the policy
RAM enforces, the condition and the ARN in the status. Versions, tags, `latest`
and the calls are gone. `Permission` implements it under the mapping
`AsResource` (`KeepsPromises`): `copy` is the spec of `desired`, `inForce` the
template of the default version of a live permission, `Publish` is what
`CreatePermission` or `CreatePermissionVersion` does to RAM, `Report` the final
status patch, `Unpublish` `DeletePermission`; the other steps stutter.

`ResourceShare` takes the same record as its variable `permission`. Its reader,
`ResolveReferences`, sees the conditions and the ARN; RAM's two rules (a policy
that is out of force cannot be attached, one in use cannot be deleted) tie
`inForce` to the permissions of the share. So the share is checked beside a
Permission that is applied, edited, deleted, resynced and retried, with one
policy RAM accepts and one it rejects (`EditPermission`; the rejected one ends in
Terminal). Left out of the composition are the change from one accepted policy to
another, which leaves the ARN the share uses as it is, and the 30 seconds after it
in which the Permission says Synced = False (`hooks.go:60`): a share treats that
like any Permission that is not synced yet.
That the abstract resource is what `Permission` looks like from outside is the
refinement, checked by `Permission_faults` and proved for a permission nobody else
deletes (`"external" \notin Faults`) and a RAM that shows its latest write
(`~Stale`).

### From code to state

In `Permission` and `ResourceShare`, `cr` is the object in the API server and
`ram` (or `shares`) is RAM. `des`, `lat` and `out` are the `*resource` values of
one reconcile: `desired`, `latest`, and what is handed to the final status
patch. **Every call that leaves the process is one step**: `pc` names the next
one. Between two steps the user may edit or delete, RAM may move on, and the
process may die. Computation between two calls is part of the step that
precedes it.

| Action | Code |
|---|---|
| `SdkFind`, `FindBeforeDelete` | `sdkFind` with `requiredFieldsMissing...`, and the delta on its result |
| `GetPermissionArns`, `GetPrincipals`, `GetResources` | the rest of the share's `sdkFind`: `getPermissionArns`, `getResourceShareAssociations` |
| `MarkManaged`, `MarkUnmanaged` | `descriptor.go`, and the patch of the metadata that follows |
| `SdkCreate`, `SdkDelete` | `sdkCreate`, `sdkDelete` |
| `Untag`, `Tag` | `syncTags` (of the Permission: an error of the first call is dropped; of the share: it is returned) |
| `CreatePermissionVersion`, `DeleteNonDefaultPermissionVersion`, `SetDefaultPermissionVersion` | `updatePermission` |
| `DisassociatePermission`, `AssociatePermission` | one turn of a loop of `syncPermissions` |
| `Disassociate`, `Associate` | `syncResourceShareResources` |
| `UpdateResourceShare` | the end of the share's `sdkUpdate` |
| `ResolveReferences` (`Resolvable`, `Resolved`) | `ResolveReferences` with `validateReferenceFields` and `getReferencedResourceState_Permission` |
| `MarkManaged` (`Cleared`) | also `ClearResolvedReferences`: the patch holds no resolved ARN, so the reference is resolved a second time |
| `StartReconcile` (`EnsureTags`), `SdkFind` (`Mirrored`) | `EnsureTags`, and `mirrorAWSTags` in the share's `ReadOne` |
| `PermissionStep`, `PermissionWorker` | the Permission's worker, one step of `PermissionResource` each |
| `CreatePermission`, `EditPermission`, `DeletePermission`, `ResyncPermission` | external: the Permission's user and its resync |
| `TaggedByAws`, `DeletedElsewhere` | external: other AWS services and other users of RAM |
| `PatchLatestStatus`, `PatchStatus` | external: the runtime's patches |

`Updated` is what an update returns: of the Permission, the copy that
`customUpdatePermission` took *before* it changed anything (`hooks.go:42`); of the
share, `desired` with the status it was read with. `FailDesired` and
`FailLatest` are `onError` on the copy that `manager.go` hands to it: `ReadOne`
and `Create` fail with `desired`, `Update` and `Delete` with `latest`.

A policy template, a name, an ARN, a permission and a tag value are model values.
`Spec.Name` and `Spec.ResourceType` of a Permission are one value, as the code
treats them alike (it reports their difference and acts on none).
`AllowExternalPrincipals` stands for the scalar fields `UpdateResourceShare`
changes. A list is a sequence without repetitions; RAM's answers are in one
order, since the order decides only which calls of a loop come first
(`SliceRounds` checks all orders).

### What is assumed of the ACK runtime, RAM and Kubernetes

* The reconcile starts from a fresh copy of the custom resource. `NotFound`
  leads to the finalizer, then `Create`; otherwise a difference leads to a
  status patch with `latest` and then to `Update`. Every reconcile ends with a
  status patch, also after an error. A terminal error is not retried; another
  error is, and so is Synced = False; Synced = True waits for the resync.
* References are resolved before `EnsureTags`, and that before `ReadOne`, unless
  the resource is being deleted; an error of theirs ends the reconcile and is
  retried, whatever its kind. What the runtime writes to the cluster holds
  neither resolved references nor the controller's tags.
* A restart puts every custom resource into the queue again.
* `ListResourceSharePermissions` answers with a list, be it empty. (On an answer
  without one, `hooks.go:230` would leave the permissions of `desired` in `latest`.)
* `CreatePermissionVersion` makes the new version the default and refuses a
  template that another version has (`hooks.go:80-81`). `DeletePermissionVersion`
  refuses the default version and one that a share uses. A deleted permission is
  shown with status DELETED for a while. `GetPermission` may lag
  (`hooks.go:58-59`).
* `CreateResourceShare` takes every call for a new share, since no `ClientToken`
  is sent (`generator.yaml:3-6`). One permission for each resource type. What is
  being associated becomes associated or fails; what is being disassociated goes
  away. RAM lets no client change an `aws:` tag. A deleted share is listed until it
  is purged. (RAM has further rules for removing a permission while resources of
  its type are shared; nothing in the code depends on them, and they are left
  out.)

### Faults and bounds

`Faults` names the kinds of fault a run has: `api` (a call fails), `lost` (it
goes through, its answer does not come back), `patch` (a Kubernetes patch
fails), `crash` (restart), `failed` (an association fails), `share` (a share
holds a version), `external` (deletion by someone else). `MaxFaults` bounds
their number, `MaxEdits` the user's edits, `MaxVer` the version numbers, and
`MaxShares` the shares RAM creates; a run's graph is complete within them.
`EditAnyTime = FALSE` is a user who waits until everything is settled;
`FreshEdits = TRUE` one who never returns to an earlier template; `SimpleEdits =
TRUE` one who, per list, adds one entry or removes some. These restrictions say
under which use of the program a property holds; without them another run
refutes it.

Two edits and one or two faults give a first change, a change of the change, and a
failure in the recovery from a failure; a patient user makes three edits, enough to return to a
template after another. In `Share_settled` `MaxShares` is 1: a create that would
make a second share fails there, since a lost answer of the first one is the
subject of `Share_orphan`.

In `Share_settled` the specs are of three groups (`MCResourceShare`): lists;
permissions, tags and flags; references. The specs with references have a name
of their own, and simple edits keep the name, so the groups are checked side by
side in one graph; a reference comes with a second spec that has it dropped and
a third that has both a reference and an ARN, which `validateReferenceFields`
refuses. `Refers` bounds the Permission's user to the shares that can refer to
it; creating, editing and deleting it counts against `MaxEdits`. At the start the
Permission is there and synced or not there at all: two edits make it come, go,
or go and come again. The controller has one tag of its own, which a spec may
override, and AWS one key, which it may set at any time, with one value.

`CHECK_DEADLOCK FALSE` is set for both managers: once the custom resource has
left the cluster nothing more happens.

### Fairness

The worker (`WF_vars(Worker)`) takes queued keys as long as there are any. RAM
shows its writes and forgets what was deleted (`Propagate`, `Purge`), and ends
the associations it has begun (`Progress`). The Permission beside a share has a
worker of its own (`WF_vars(PermissionWorker)`): the runtime has one controller,
with its own queue, for each kind. The resync of a
*synced* resource comes (10 hours, `helm/values.yaml`): it is what finds out that
someone else has deleted the permission or the share, and what ends the rounds of
`compareStringSlices`. A terminal resource waits for the user. Nothing is assumed of the user, and faults are bounded, so liveness is
about what happens after the last fault. `ManagerFactory` has weak fairness for
each goroutine and strong fairness for entering the write lock, which the
starvation mode of `sync.Mutex` grants.

## 3. Runs that hold

| Run | Shows |
|---|---|
| `Permission_faults` | edits at any time and every fault but deletion by someone else: `NeverDeletesDefault`, `SyncedMeansPolicyInForce`, `DeletionCompletes` (unless shares keep using a version), and `KeepsPromises`, the refinement |
| `Permission_patient` | a patient user, a lagging RAM, failing patches: `OneVersionWhenSynced`, `SyncedMeansPolicyInForce`, `SyncedMeansTagged`, `VersionNeverGoesBack` |
| `Permission_converges` | templates that never come back, failing calls, shares that hold versions, deletion by someone else: `Converges` (in the end Synced with a permission alive in RAM, made anew if it was deleted, that has the policy of the spec, or Terminal), `GoneMeansCleaned`, `DeletionCompletes` |
| `SliceRounds` | the comparison keeps what is wanted, brings one missing entry each round, and the rounds end, for every order RAM may answer in |
| `Share_settled` | simple edits by a patient user, calls lost or failing, failing patches, restarts, rejected ARNs, tags set by AWS, a Permission that comes, goes and is edited to a policy RAM rejects and back: `SyncedMeansShared`, `SyncedMeansConfigured`, `AwsTagsLeftAlone`, `DeletionCompletes`; `ReferenceArrives` (a share that refers to a Permission uses it in the end, once that is synced); `ReleasedPermissionGoes` (a Permission marked for deletion goes once no share needs it) |
| `Share_converges` | all principals exchanged at once, permissions of different types added, removed or left to RAM (`ConvergingSpecs`), edits at any time, failing calls, failed associations, a share deleted by someone else: `AtMostOneShare`, `GoneMeansCleaned`, `Converges` (the resyncs make up for `compareStringSlices`; where a spec names no permission, nothing is said of those RAM attached) |
| `Factory` | locks exclude, managers are the right ones, the cache settles, every call returns |

Each property has a mutant in its module (`Mutant_...`), a plausible slip in the code
that makes the run fail.

## 4. Where the code and its documentation disagree

Five runs end in a violation. `PROJECT.json` quotes the line each contradicts.

| Run | Disagreement |
|---|---|
| `Permission_leak` | a second edit before the 30 second resync leaves a version behind (`hooks.go:99`) |
| `Permission_untag` | a failed `UntagResource` is dropped (`hooks.go:254`) |
| `Share_revoked` | `hooks.go:203`: one principal exchanged for another is disassociated, associated again, and stays until the next resync |
| `Share_sources` | sources are never read, an edit of them is never made |
| `Share_orphan` | a restart between create and status patch, then a deletion, leaves the share in RAM |

The restrictions of the runs of section 3 mark further ones, which can be seen by lifting them:

* `Permission_converges` with `FreshEdits = FALSE`: returning to the template of a
  version left behind is refused for ever, though `test_permission.py:130-140`
  expects a return to end in Synced.
* `Permission_converges` with the fault `crash`, `lost` or `patch`: the counterpart
  of `Share_orphan` (`GoneMeansCleaned`), as the ARN in the status is the only way to
  the permission (`permission/sdk.go:178`).
* `Share_converges` with specs of two names: a new name makes a second share, since
  `sdkFind` looks for the name of the spec (`resource_share/sdk.go:198`), and a
  deletion leaves the first in RAM (`AtMostOneShare`, `GoneMeansCleaned`).
* `Share_converges` with specs of permissions `<<a>>` and `<<b>>`, which are of one
  resource type: line 203 puts the old one back before the wanted one, which RAM then
  refuses, at every retry and with nothing failing (`Converges`).
* `Permission_patient` with two names: an edit of name and policy together leaves a
  difference behind that no call removes, so the next reconcile, which finds the
  policy updated, is an update again; it ends as Synced with the version of
  its old copy (`hooks.go:42`). The status goes back to a version that is gone, and
  the next policy edit leaves the present one behind (`VersionNeverGoesBack`,
  `OneVersionWhenSynced`).
* `Permission_patient` with `EditAnyTime = TRUE`: where `GetPermission` still shows the
  version before the last one, a user who goes back to that version's template in
  time has no difference reported. The resource ends as Synced while the other
  version is in force (`SyncedMeansPolicyInForce`), until the next resync.

Four more follow from one line each and need no run: a different
`Spec.Name` or `Spec.ResourceType` of a Permission is reported by
`newResourceDelta` and acted on by nobody, and the resource says Synced;
the resource that `customUpdatePermission` returns names the version just deleted
(`hooks.go:42`, mended by the requeue); and the factory looks once, so that two
callers that both miss make two managers for one key, of which `CacheSettles`
says that the second stays. Line 203 also leaves out all but the last of several
missing entries, which `OneMorePerRound` states exactly. A fifth is a line of
documentation: "If you do not specify an ARN for the permission, RAM automatically
attaches the default version" (`apis/v1alpha1/resource_share.go:38-40`), but the next
reconcile finds that permission in `latest` and not in `desired`, and
`syncPermissions` disassociates it (`hooks.go:141`). No property of section 3 relies
on it: what is said of permissions is said of specs that name some.

## 5. Theorems

All proofs are checked by TLAPS without any assumption but the named `ASSUME`s of
the modules, which are about the constants only, and those a theorem states itself.
Every safety property that a run of section 3 checks is stated by one of them. What
a theorem assumes of the faults and of the user was found with TLC, which refutes
the property on a small instance when one of the assumptions is lifted.

The comparison of lists and the tags (`OperatorProofs`, `SliceRoundsProofs`):

* `TagsSynced`, the two calls of `syncTags` end with the wanted tags, for any tags;
  `UntagDropped`, exactly which tags are left over when the first call's error is
  dropped; `AwsTagsCancel`, with the `aws:` tags mirrored the calls are those that
  would be made if there were none, which is why `Permission` leaves them out.
* `WithoutRemoves`, `ToDeleteIs`, `ToAddIs`, `ReconciledIs`: what line 203 of
  `hooks.go` comes to, for lists of any length. `Without`, one loop of
  `compareStringSlices`, is a recursive function, and what it keeps is shown by
  induction on the length of the list. The induction theorems of the library are
  out of the provers' reach (they take an operator as parameter), so `UpTo`
  states induction for a *set* of numbers, and follows from the pigeonhole
  principle: if some k were not in the set, the predecessor function would map the
  numbers from which k can be reached without meeting the set one to one, but
  not onto k, to themselves.
* `WantedKept` (`RoundsSpec => []WantedIsKept`),
  `RoundSuppliesOne` (`RoundsSpec => OneMorePerRound`) and `RoundsEnd`, the round after
  the last missing entry leaves exactly what is wanted. Between them they are the
  safety part of `RoundsConverge`.

One Permission (`PermissionProofs`, `PermissionResourceProofs`,
`PermissionSettledProofs`):

* `TypeCorrect`: `Spec => []TypeOK`.
* `DefaultNeverDeleted`: unless someone else deletes the
  permission (`"external" \notin Faults`), `Spec => []NeverDeletesDefault`.
  `NeverDeletesDefault` is not inductive: it is about a number that went through
  RAM's answer, two status patches and a copy. The invariant (`VersionInv`) adds
  that every version number in the system, in the status, in each copy and in
  what RAM shows, is at most RAM's default (`VersionsBehind`); that the default is
  the newest version; and that once `CreatePermissionVersion` has gone through,
  the copy of the reconcile is strictly behind it (`DefaultAhead`). The assumption is
  needed: when a permission is deleted by someone else, made again, and the
  answer to that call is lost, version numbers start anew under an old status.
* `PromiseOfSynced` and `PromiseOfFinalizer`, two
  invariants of the abstract resource. What is needed beside them (`InHand`) is
  that a worker at work on a resource has the spec it will be judged by in hand,
  or the key is in the queue again.
* `ImplementsPermissionResource`: `Spec => KeepsPromises`,
  and from it `PolicyInForce`: `Spec => []SyncedMeansPolicyInForce`, which is
  `PromiseOfSynced` under the refinement mapping. Both assume that nobody else
  deletes the permission and that RAM shows its latest write; failing calls, lost
  answers, failed patches, restarts and edits at any time are allowed. The
  invariant extends `VersionInv` by what the copies of a reconcile share with the
  resource (`CopiesAgree`: ARN, finalizer and deletion mark are written by nobody
  else), by what they share with RAM (`CopiesInForce`: what was read of the policy
  is still in force, and so is the version just made) and by what the final patch
  may say (`OutcomeHonest`). The proof that each step simulates one of the
  abstract resource, or stutters, has one step per action (`StepSimulates`).
* `FinalizerHolds`: `Spec /\ []ShownBeforeDelete => []GoneMeansCleaned`, for any
  edits and failing calls, with others deleting the permission and a
  `GetPermission` that answers with old versions (`Stale`). It assumes that no
  answer, patch or worker is lost (`NothingLost`; without it section 4
  has a counterexample), and of the run that `GetPermission` shows the permission, in
  whatever version, by the time the user's deletion looks for it
  (`ShownBeforeDelete`). The code counts on a `GetPermission` that lags
  (`hooks.go:58-59`); one that knows nothing yet of a permission just created
  makes the deletion take it for missing, and the finalizer goes with the
  permission alive. The invariant (`Known`) is that the status has the ARN of
  whatever is live in RAM, or is about to, and that nothing is live once the worker
  is about to take the finalizer away. `FinalizerHoldsWithoutLag`: if
  `GetPermission` does not lag (`~Stale`), `Spec => []GoneMeansCleaned`.
* `TagsSettled`: `Spec => []SyncedMeansTagged` if RAM refuses no call and nobody else
  deletes the permission (`CallsServed`), for edits at any time, any names, any lag
  of `GetPermission` and any lost answer, patch or worker. The invariant (`TagInv`)
  follows the tags through an update: what is still to do after the read, after
  `UntagResource` and after `TagResource` (`TagsAsRead`), what the outcome says of the
  reconcile's copy of the spec (`OutcomeTagged`), and that the copy is current
  unless the key is in the queue again (`CopyCurrent`).
* `PatientPolicyInForce`: `Spec => []SyncedMeansPolicyInForce` in the case that the
  refinement leaves out, a `GetPermission` that lags behind the latest write, for
  a user who edits only a settled resource (`Waits`) and if nobody else deletes the
  permission; calls may fail, and answers, patches and workers may be lost. What
  makes it work is RAM's refusal of a second version with one policy: a read that
  lags shows another policy than the spec's, the update it leads to is refused, and
  the refusal brings the resource back until RAM shows what it has. The invariant
  (`PolicyInv`) says so: while RAM lags, what it shows differs from what is in
  force, that is the policy of the spec, and the key is in the queue (`SeenBehind`);
  what was read and agrees with the spec is in force (`ReadInForce`); and no
  reconcile ends for good while RAM lags (`OutcomeInForce`). With a lag *and* edits
  at any time the property is false: an edit back to what RAM still shows is taken
  for done.
* `VersionGrows` (`Spec => VersionNeverGoesBack`) and `OldVersionsDeleted`
  (`Spec => []OneVersionWhenSynced`), for such a user if moreover RAM refuses no call
  and the name is never edited (`Patient`), the second if nothing fails but patches
  (`OnlyPatchesFail`). The status names the *old* version after an update
  (`hooks.go:42`), differs from RAM until RAM shows the new one, and the requeue goes
  on until then. The invariant (`PatientInv`) says that what RAM shows is never
  behind a number the controller holds (`SeenOrder`); that the numbers in hand are
  ordered like the reads (`CopiesOrdered`); and that while the status names an older
  version, the policy and the tags of the spec are in force already and the key is
  in the queue (`Lagging`). `OldVersionGoes` adds which versions are live at the
  delete between create and set.

One ResourceShare (`ResourceShareProofs`, `ResourceShareSettledProofs`):

* `OneShare` (`Spec => []AtMostOneShare`) and
  `ShareFinalizerHolds` (`Spec => []GoneMeansCleaned`), for any specs, any number of
  shares, edits, failing calls and failed associations, and shares deleted by
  others at any time. They assume what the code needs: one name (`OneName`; it
  looks for shares by name) and that no answer, patch or worker is lost
  (`NothingLost`; it looks for own shares only when the status names the owner).
  The invariant (`ShareInv`): every share has that name (`Named`); while one is
  active the status names the owner or is about to (`OwnerKnown`) and the
  finalizer is on (`FinalizerOn`); and where the worker believes that there is
  none, there is none.
* `AwsTagsKept` (`Spec => []AwsTagsLeftAlone`) needs neither
  assumption, only that specs and configuration have no `aws:` tag; its
  invariant (`TagsInHand`) says that from the read on `desired` and `latest` agree on
  those keys, whatever AWS does meanwhile.
* `ShareTypes`: `Spec => []TypeOK`. Its invariant (`Typed`) adds that the owner
  is recorded exactly when the ARN is (`Linked`), and where the id in hand is that of
  a share (`PcOK`), without which a step would change a share that does not exist.
* `SharedAsLongAsOne`: `Spec /\ []AtMostOneShare => []SyncedMeansShared`, for edits of a
  settled resource that keep the name and add at most one entry to a list or
  remove some (`CarefulUser`), when RAM refuses no entry and nobody else deletes
  the share (`NothingRefused`). Calls may fail, answers, patches and workers may be lost
  at any point. A single comparison proves nothing here: it may leave the share
  short of an entry, or with some too many, and only *finished* associations are
  read. The invariant (`SharedInv`) therefore bounds how far the share may be from
  its spec, so that one more comparison ends the matter: at any time its
  associations are those wanted, or RAM is at rest and exactly one is missing, or
  RAM is at rest and there are some too many (`Near`); what a
  reconcile has read is what is associated, unless RAM is on its way to what is
  wanted already (`AsRead`); `Fits` says what is left between the two calls; and where
  the reconcile ends as Synced, or rests, the share is full. `SyncedIsShared` is the
  same without a hypothesis on the run: with one name and nothing lost, `OneShare`
  supplies it.
* `ConfiguredAsLongAsOne` and `SyncedIsConfigured`: the same for
  `SyncedMeansConfigured` (permissions, tags, `AllowExternalPrincipals`, references),
  when every spec names its permissions or RAM attaches none of its own
  (`PermissionsNamed`) and nobody else deletes the share (`NobodyElse`). Here RAM may
  refuse entries and associations may fail. The invariant (`ConfInv`) has what the
  reconcile's copy of the spec holds before and after references are resolved and
  tags are added (`InHand`); what each call of an update may rely on and what it
  still has to do (`Stage`, in `OnItsWay`; for permissions, that the rest of the
  loops of `syncPermissions` makes the wanted set out of the present one,
  `Makes`); and that at any time the permissions of a share are near those of
  the spec (`Arrived`).

  That they assume `[]AtMostOneShare`, and not that nothing is lost, is deliberate:
  one lost answer is harmless as long as no second share comes of it, and when one
  does, section 4 has the run. That RAM refuses no entry is needed for
  `SyncedMeansShared` only: adding an entry to a list of which RAM has refused another
  makes two missing ones, of which one stays missing without a word.

The factory (`ManagerFactoryProofs`):

* `LockExcludes` (`TypeOK`), `ManagerIsRight` and
  `CacheStable`, for any number of goroutines and keys. The invariant adds that a
  writer is announced before it waits (`Announced`) and that a manager is stored
  under the id of its own key (`StoredByKey`), from which `RightManager` follows
  because the id determines the key (`RmIdInjective`).

Only model-checked: liveness (`Converges`, `DeletionCompletes`, `RoundsConverge`,
`ReferenceArrives`, `ReleasedPermissionGoes`, `CallsReturn`), which is outside what
TLAPS proves. `Share_settled` checks `SyncedMeansShared` also with an entry that RAM
refuses, in lists where no second one can be missing; the theorem leaves that
out. The composition uses the abstract Permission; that the
composition with the detailed one has the same properties is argued above, not
checked: its state is a permission beside a share, too many for TLC.

## 6. Not modelled

* Adoption (`MarkAdopted`, `PopulateResourceFromAnnotation`, `SetIdentifiers`) and
  the `retain` deletion policy: when they are called, with what status, and what
  follows is the ACK runtime's, which is not in the repository. The same holds for
  `FilterSystemTags`.
* More than one reference in a share, and references across namespaces: each is
  resolved like the one modelled.
* Shares of other accounts, a second controller, two custom resources of one name.
* Pagination (`NextToken` is ignored by the code): one page.
* Late initialisation (no fields), and the order in which tags are written.
* Generated code (deep copies), manifests, command line.

## 7. Plan

Done: `Tags`, `Permission`, its abstract specification and the refinement;
`StringSlices`, `SliceRounds`; `ResourceShare` with references; `ManagerFactory`: all
checked, and every safety property of the runs proved.

Next, in this order:

1. The safety part of the liveness properties: a measure that every step of a
   worker lowers, so that a reconcile is a bounded number of calls.
2. `ResourceShare` with entries that RAM refuses: which edits keep
   `SyncedMeansShared`.
3. The composition of `ResourceShare` with `Permission` itself, from the refinement
   theorem and the rules of RAM that tie the two.
4. Two shares that refer to one Permission.
