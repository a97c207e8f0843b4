--------------------------- MODULE ResourceShare ---------------------------
(***************************************************************************)
(* One ResourceShare custom resource, the worker that reconciles it, the   *)
(* resource shares that exist in AWS RAM because of it, and the Permission *)
(* custom resource it may refer to, which does what PermissionResource     *)
(* says.                                                                   *)
(*                                                                         *)
(* A share is looked up by name, not by ARN, and one reconcile reads it    *)
(* with four calls and changes it with up to seven kinds of calls; every   *)
(* call is a step. Associations of principals, resources and sources are   *)
(* asynchronous in RAM.                                                    *)
(***************************************************************************)
EXTENDS Integers, Sequences, FiniteSets, FiniteSetsExt, Tags, StringSlices

CONSTANTS
  Specs,         \* the specs a user may write
  Entities,      \* ARNs and account ids to share with, to share, or to share from
  BadEntities,   \* those RAM rejects with MalformedArnException
  Permissions,   \* permission ARNs
  RefPermission, \* the one of the Permission resource that a spec may refer to
  TypeOf,        \* the resource type of each permission
  DefaultPermissions, \* what RAM attaches when no permission is specified
  Names,
  AwsKeys,       \* the tag keys that start with aws:
  DefaultTags,   \* the tags the controller sets on whatever it manages
  NoShare,
  MaxShares,     \* bound: shares RAM creates
  MaxEdits, MaxFaults,
  Faults,        \* which faults happen: api, lost, patch, crash, failed, external
  EditAnyTime,   \* FALSE: the user waits until everything is settled
  SimpleEdits    \* TRUE: an edit adds at most one entry to a list, or removes some

Kinds == {"principal", "resource", "source"}
FaultKinds == {"api", "lost", "patch", "crash", "failed", "external"}
Ids == 1..MaxShares

\* PermissionRefs (the one Permission or none), PermissionARNs, and per kind
\* Principals, ResourceARNs, Sources: lists as the user wrote them.
SpecFields == [name : Names, ext : BOOLEAN, refs : BOOLEAN, perms : Seq(Permissions),
               list : [Kinds -> Seq(Entities)], tags : Tagging]

ASSUME BoundAssumption == MaxShares \in Nat \ {0} /\ MaxEdits \in Nat /\ MaxFaults \in Nat
ASSUME SpecsAssumption ==
  /\ Specs # {} /\ Specs \subseteq SpecFields
  \* no entry of a list appears twice
  /\ \A s \in Specs : IsInjective(s.perms) /\ \A k \in Kinds : IsInjective(s.list[k])
ASSUME SubsetAssumption == /\ BadEntities \subseteq Entities
                           /\ DefaultPermissions \subseteq Permissions
                           /\ RefPermission \in Permissions
                           /\ AwsKeys \subseteq TagKeys /\ DefaultTags \in Tagging
                           /\ Faults \subseteq FaultKinds
                           /\ NoShare \notin Ids
ASSUME FiniteAssumption == /\ IsFiniteSet(Entities) /\ IsFiniteSet(Permissions)
                           /\ AwsKeys # {} => TagVals # {}

VARIABLES
  cr,      \* the custom resource in the Kubernetes API server
  shares,  \* the shares in RAM, in the order of their creation
  pc,      \* next call of the reconcile in progress, "idle" when there is none
  des,     \* desired: the copy of cr read when the reconcile began
  lat,     \* latest: what sdkFind has put together so far
  todo,    \* permissions still to disassociate and to associate
  out,     \* the status and Synced condition the reconcile is about to patch
  queued, edits, faults,
  permission \* the Permission resource, see PermissionResource

mem == <<des, lat, todo, out>>
rest == <<edits, permission>>
env == <<rest, faults>>
vars == <<cr, shares, pc, mem, queued, env>>

\* The Permission's policies: one that RAM takes and one it rejects.
Referred == INSTANCE PermissionResource
              WITH res <- permission, Templates <- {"policy", "bad"}, NoTemplate <- "none"

Status == {"none", "associating", "associated", "disassociating", "failed"}
Calls == {"idle", "resolve", "resolveagain", "find", "findperms", "findprincipals",
          "findresources", "mark",
          "create", "status", "untag", "tag", "disperm", "asperm", "dis", "as",
          "update", "done", "delete", "unmark"}
Synced == {"none", "True", "error", "terminal"}

Share == [state : {"none", "active", "deleted", "purged"}, name : Names, ext : BOOLEAN,
          perms : SUBSET Permissions, assoc : [Kinds -> [Entities -> Status]], tags : Tagging]
Latest == [id : Ids \cup {NoShare}, ext : BOOLEAN, perms : SUBSET Permissions,
           list : [Kinds -> SUBSET Entities], tags : Tagging]

\* ResolveReferences and ClearResolvedReferences, on the spec.
Resolved(spec) == [spec EXCEPT !.perms = Append(@, RefPermission)]
Cleared(spec) == IF spec.refs THEN [spec EXCEPT !.perms = <<>>] ELSE spec

TypeOK ==
  \* the status names the owner exactly when it names the share
  /\ cr.owned = (cr.arn # NoShare)
  /\ cr \in [spec : Specs, arn : Ids \cup {NoShare}, owned : BOOLEAN, synced : Synced,
             life : {"unmanaged", "managed", "deleting", "gone"}]
  /\ shares \in [Ids -> Share]
  /\ pc \in Calls
  /\ des \in [spec : SpecFields, arn : Ids \cup {NoShare}, owned : BOOLEAN, deleting : BOOLEAN]
  /\ lat \in Latest
  /\ DOMAIN todo = {"del", "add"} /\ \A s \in {"del", "add"} : ToSet(todo[s]) \subseteq Permissions
  /\ out \in [arn : Ids \cup {NoShare}, owned : BOOLEAN, synced : Synced]
  /\ queued \in BOOLEAN /\ edits \in 0..MaxEdits /\ faults \in 0..MaxFaults
  /\ permission \in Referred!Record

-----------------------------------------------------------------------------
(* RAM. External.                                                          *)

NoAssociation == [k \in Kinds |-> [e \in Entities |-> "none"]]
Blank == CHOOSE s \in Specs : TRUE
NoShareYet == [state |-> "none", name |-> Blank.name, ext |-> FALSE, perms |-> {},
               assoc |-> NoAssociation, tags |-> Untagged]

Active(i) == shares[i].state = "active"
Visible(i) == shares[i].state \in {"active", "deleted"}
InState(i, k, s) == {e \in Entities : shares[i].assoc[k][e] = s}
InTransit == \E i \in Ids, k \in Kinds :
               InState(i, k, "associating") \cup InState(i, k, "disassociating") # {}

\* Of the per-kind sets of entities, those whose association becomes s.
Associations(assoc, sets, s) ==
  [k \in Kinds |-> [e \in Entities |-> IF e \in sets[k] THEN s ELSE assoc[k][e]]]

Created(spec) ==
  [state |-> "active", name |-> spec.name, ext |-> spec.ext,
   perms |-> IF spec.perms = <<>> THEN DefaultPermissions ELSE ToSet(spec.perms),
   assoc |-> Associations(NoAssociation, [k \in Kinds |-> ToSet(spec.list[k])], "associating"),
   tags |-> spec.tags]

Deleted(i) == [shares EXCEPT ![i].state = "deleted", ![i].perms = {}, ![i].assoc = NoAssociation]

\* One permission for each resource type; the referred one while it is in force.
InForce(p) == p = RefPermission => permission.inForce # "none"
CanAttach(i, p) == /\ Active(i) /\ InForce(p)
                   /\ \A q \in shares[i].perms \ {p} : TypeOf[q] # TypeOf[p]

AllOf(sets) == UNION {sets[k] : k \in Kinds}

-----------------------------------------------------------------------------
Fault(kind) == kind \in Faults /\ faults < MaxFaults /\ faults' = faults + 1
NoFault == faults' = faults

Finish(o) == pc' = "done" /\ out' = o
FailWith(arn, owned, condition) ==
  Finish([arn |-> arn, owned |-> owned, synced |-> condition])
FailDesired(condition) == FailWith(des.arn, des.owned, condition)
FailLatest(condition) == FailWith(lat.id, TRUE, condition)

\* terminalAWSError
ErrorFor(entities) == IF entities \cap BadEntities # {} THEN "terminal" ELSE "error"

NoLatest == [id |-> NoShare, ext |-> FALSE, perms |-> {}, list |-> [k \in Kinds |-> {}],
             tags |-> Untagged]
NothingTodo == [del |-> <<>>, add |-> <<>>]
Forget ==
  /\ des' = [spec |-> Blank, arn |-> NoShare, owned |-> FALSE, deleting |-> FALSE]
  /\ lat' = NoLatest /\ todo' = NothingTodo
  /\ out' = [arn |-> NoShare, owned |-> FALSE, synced |-> "none"]

-----------------------------------------------------------------------------
(* newResourceDelta                                                        *)

ListDiffers(a, b) == Len(a) # Cardinality(b) \/ ToSet(a) # b

TagsDiffer == des.spec.tags # lat.tags
PermissionsDiffer == ListDiffers(des.spec.perms, lat.perms)
ListsDiffer(l) == \E k \in Kinds : ListDiffers(des.spec.list[k], l.list[k])
ExtDiffers == des.spec.ext # lat.ext
SpecDiffers(l) ==
  \/ des.spec.tags # l.tags \/ ListDiffers(des.spec.perms, l.perms)
  \/ ListsDiffer(l) \/ des.spec.ext # l.ext

\* Where sdkUpdate goes on from each of its parts, in the order of the code.
Mutant_UpdatedWithoutOwner == [arn |-> des.arn, owned |-> FALSE, synced |-> "True"]
Updated == [arn |-> des.arn, owned |-> des.owned, synced |-> "True"]
AfterLists == IF ExtDiffers THEN pc' = "update" /\ UNCHANGED out ELSE Finish(Updated)
AfterPermissions == IF ListsDiffer(lat) THEN pc' = "dis" /\ UNCHANGED out ELSE AfterLists
AfterTags == IF PermissionsDiffer THEN pc' = "disperm" /\ UNCHANGED out ELSE AfterPermissions

\* RAM lists a set in some order; which one matters to no property.
ListOf(S) == SetToSeq(S)
Mutant_NeverDisassociates == [del |-> <<>>, add |-> ToAdd(des.spec.perms, ListOf(lat.perms))]
PermissionsTodo == [del |-> ToDelete(des.spec.perms, ListOf(lat.perms)),
                    add |-> ToAdd(des.spec.perms, ListOf(lat.perms))]
Disassociated == [k \in Kinds |-> ToSet(ToDelete(des.spec.list[k], ListOf(lat.list[k])))]
Mutant_OnlyPrincipals ==
  [k \in Kinds |-> IF k = "principal" THEN ToSet(ToAdd(des.spec.list[k], ListOf(lat.list[k])))
                   ELSE {}]
Associated == [k \in Kinds |-> ToSet(ToAdd(des.spec.list[k], ListOf(lat.list[k])))]

-----------------------------------------------------------------------------
(* Reading: GetResourceShares, ListResourceSharePermissions and            *)
(* GetResourceShareAssociations for principals and for resources.          *)

\* EnsureTags; what the runtime writes to the cluster holds no tag it adds.
EnsureTags(spec) == [spec EXCEPT !.tags = Ensured(@, DefaultTags)]

StartReconcile ==
  /\ pc = "idle" /\ queued /\ cr.life # "gone"
  /\ queued' = FALSE
  /\ des' = [spec |-> EnsureTags(cr.spec), arn |-> cr.arn, owned |-> cr.owned,
             deleting |-> cr.life = "deleting"]
  /\ pc' = IF cr.spec.refs /\ cr.life # "deleting" THEN "resolve" ELSE "find"
  /\ UNCHANGED <<cr, shares, lat, todo, out, env>>

\* validateReferenceFields and getReferencedResourceState_Permission
Resolvable ==
  /\ des.spec.perms = <<>>
  /\ Referred!Exists /\ permission.reported = "True" /\ permission.known

\* Whatever is wrong with a reference, also a Permission in a terminal state,
\* the runtime comes back. (When the share is being deleted, it does not care.)
Mutant_UnresolvedForGood == FailDesired("terminal")
Unresolved == FailDesired("error")

ResolveReferences ==
  /\ pc \in {"resolve", "resolveagain"}
  /\ \/ /\ Resolvable /\ NoFault
        /\ des' = [des EXCEPT !.spec = Resolved(@)]
        /\ pc' = IF pc = "resolve" THEN "find" ELSE "create"
        /\ UNCHANGED out
     \/ /\ (~Resolvable /\ NoFault) \/ Fault("api")
        /\ Unresolved /\ UNCHANGED des
  /\ UNCHANGED <<cr, shares, lat, todo, queued, rest>>

\* GetResourceShares by name, among the own shares only when the status names
\* this account as the owner, else among those of other accounts, where there
\* is none. Deleted shares are listed until RAM purges them.
Mutant_OwnUnlessOwned == {i \in Ids : Visible(i) /\ shares[i].name = des.spec.name /\ ~des.owned}
Listed == {i \in Ids : des.owned /\ Visible(i) /\ shares[i].name = des.spec.name}

SdkFind ==
  /\ pc = "find"
  /\ \/ /\ Listed = {} /\ NoFault
        /\ pc' = IF des.deleting THEN "unmark"
                 ELSE IF cr.life \in {"unmanaged", "gone"} THEN "mark" ELSE "create"
        /\ UNCHANGED <<des, lat, out>>
     \/ \* the first element of the answer, which is in no given order
        /\ NoFault
        /\ \E i \in Listed :
             /\ des' = [des EXCEPT !.spec.tags = Mirrored(@, shares[i].tags, AwsKeys)]
             /\ lat' = [id |-> i, ext |-> shares[i].ext, perms |-> ToSet(des.spec.perms),
                        list |-> [k \in Kinds |-> ToSet(des.spec.list[k])], tags |-> shares[i].tags]
        /\ pc' = "findperms" /\ UNCHANGED out
     \/ /\ Fault("api") /\ FailDesired("error") /\ UNCHANGED <<des, lat>>
  /\ UNCHANGED <<cr, shares, todo, queued, rest>>

\* RAM answers with a list, if an empty one: of no list at all the code would
\* make the permissions of desired.
GetPermissionArns ==
  /\ pc = "findperms"
  /\ \/ /\ NoFault
        /\ lat' = [lat EXCEPT !.perms = shares[lat.id].perms]
        /\ pc' = "findprincipals" /\ UNCHANGED out
     \/ /\ Fault("api") /\ FailDesired("error") /\ UNCHANGED lat
  /\ UNCHANGED <<cr, shares, des, todo, queued, rest>>

\* Only associations in state ASSOCIATED count. Sources are never read.
Mutant_InAnyState(k) == {e \in Entities : shares[lat.id].assoc[k][e] # "none"}
Read(k) == InState(lat.id, k, "associated")

GetPrincipals ==
  /\ pc = "findprincipals"
  /\ \/ /\ NoFault
        /\ lat' = [lat EXCEPT !.list["principal"] = Read("principal")]
        /\ pc' = "findresources" /\ UNCHANGED out
     \/ /\ Fault("api") /\ FailDesired("error") /\ UNCHANGED lat
  /\ UNCHANGED <<cr, shares, des, todo, queued, rest>>

GetResources ==
  /\ pc = "findresources"
  /\ \/ /\ NoFault
        /\ lat' = [lat EXCEPT !.list["resource"] = Read("resource")]
        /\ IF des.deleting THEN pc' = "delete" /\ UNCHANGED out
           ELSE IF SpecDiffers(lat') THEN pc' = "status" /\ UNCHANGED out
           ELSE FailLatest("True")
     \/ /\ Fault("api") /\ FailDesired("error") /\ UNCHANGED lat
  /\ UNCHANGED <<cr, shares, des, todo, queued, rest>>

-----------------------------------------------------------------------------
(* Creating.                                                               *)

\* What the runtime writes to the cluster never holds a resolved reference, so
\* it resolves once more.
MarkManaged ==
  /\ pc = "mark"
  /\ \/ /\ cr.life = "unmanaged" /\ NoFault
        /\ cr' = [cr EXCEPT !.life = "managed"]
        /\ des' = [des EXCEPT !.spec = Cleared(@)]
        /\ pc' = IF des.spec.refs THEN "resolveagain" ELSE "create"
        /\ UNCHANGED out
     \/ /\ (cr.life = "gone" /\ NoFault) \/ Fault("patch")
        /\ FailDesired("error") /\ UNCHANGED <<cr, des>>
  /\ UNCHANGED <<shares, lat, todo, queued, rest>>

\* No ClientToken is sent: RAM takes every call for a new share.
SdkCreate ==
  LET wanted == UNION {ToSet(des.spec.list[k]) : k \in Kinds}
      unused == {i \in Ids : shares[i].state = "none"}
      id == Min(unused)
      able == unused # {} /\ \A p \in ToSet(des.spec.perms) : InForce(p)
  IN
  /\ pc = "create"
  /\ \/ /\ able /\ wanted \cap BadEntities = {}
        /\ shares' = [shares EXCEPT ![id] = Created(des.spec)]
        /\ \/ NoFault /\ FailWith(id, TRUE, "True")
           \/ Fault("lost") /\ FailDesired("error")
     \/ /\ ~able \/ wanted \cap BadEntities # {}
        /\ NoFault /\ FailDesired(ErrorFor(wanted)) /\ UNCHANGED shares
     \/ /\ Fault("api") /\ FailDesired("error") /\ UNCHANGED shares
  /\ UNCHANGED <<cr, des, lat, todo, queued, rest>>

-----------------------------------------------------------------------------
(* Updating.                                                               *)

PatchLatestStatus ==
  /\ pc = "status"
  /\ \/ /\ NoFault
        /\ cr' = [cr EXCEPT !.arn = lat.id, !.owned = TRUE]
        /\ todo' = PermissionsTodo
        /\ IF TagsDiffer THEN pc' = "untag" /\ UNCHANGED out ELSE AfterTags
     \/ /\ Fault("patch") /\ FailLatest("error") /\ UNCHANGED <<cr, todo>>
  /\ UNCHANGED <<shares, des, lat, queued, rest>>

Removed == TagsRemoved(lat.tags, des.spec.tags)
Added == TagsAdded(lat.tags, des.spec.tags)

\* A call of sdkUpdate that leaves the shares as s: it goes through and the
\* reconcile goes on with `then`, or it goes through and the answer is lost, or
\* it fails; RAM fails it itself, with `condition`, unless it is `able`.
Call(able, s, condition, then) ==
  \/ able /\ NoFault /\ shares' = s /\ then
  \/ able /\ Fault("lost") /\ shares' = s /\ FailLatest("error") /\ UNCHANGED todo
  \/ ~able /\ NoFault /\ UNCHANGED shares /\ FailLatest(condition) /\ UNCHANGED todo
  \/ Fault("api") /\ UNCHANGED shares /\ FailLatest("error") /\ UNCHANGED todo
NoCall(then) == NoFault /\ UNCHANGED shares /\ then
GoTo(call) == pc' = call /\ UNCHANGED <<out, todo>>

\* RAM does not let a client change aws: tags.
CanTag(keys) == Active(lat.id) /\ keys \cap AwsKeys = {}

\* syncTags: unlike the one of the Permission, it stops at the first error.
Untag ==
  /\ pc = "untag"
  /\ IF Removed = {} THEN NoCall(GoTo("tag"))
     ELSE Call(CanTag(Removed), [shares EXCEPT ![lat.id].tags = UntagKeys(@, Removed)],
               "error", GoTo("tag"))
  /\ UNCHANGED <<cr, des, lat, queued, rest>>

Tag ==
  /\ pc = "tag"
  /\ IF Added = {} THEN NoCall(AfterTags /\ UNCHANGED todo)
     ELSE Call(CanTag(Added), [shares EXCEPT ![lat.id].tags = TagKeysAs(@, Added, des.spec.tags)],
               "error", AfterTags /\ UNCHANGED todo)
  /\ UNCHANGED <<cr, des, lat, queued, rest>>

\* syncPermissions: one call for each entry, the first error ends it.
DisassociatePermission ==
  /\ pc = "disperm"
  /\ IF todo.del = <<>> THEN NoCall(GoTo("asperm"))
     ELSE Call(Active(lat.id), [shares EXCEPT ![lat.id].perms = @ \ {Head(todo.del)}],
               "error", todo' = [todo EXCEPT !.del = Tail(@)] /\ UNCHANGED <<pc, out>>)
  /\ UNCHANGED <<cr, des, lat, queued, rest>>

AssociatePermission ==
  /\ pc = "asperm"
  /\ IF todo.add = <<>> THEN NoCall(AfterPermissions /\ UNCHANGED todo)
     ELSE Call(CanAttach(lat.id, Head(todo.add)),
               [shares EXCEPT ![lat.id].perms = @ \cup {Head(todo.add)}],
               "error", todo' = [todo EXCEPT !.add = Tail(@)] /\ UNCHANGED <<pc, out>>)
  /\ UNCHANGED <<cr, des, lat, queued, rest>>

\* syncResourceShareResources: one call for all kinds each way.
Disassociate ==
  /\ pc = "dis"
  /\ IF AllOf(Disassociated) = {} THEN NoCall(GoTo("as"))
     ELSE Call(Active(lat.id),
               [shares EXCEPT ![lat.id].assoc = Associations(@, Disassociated, "disassociating")],
               "error", GoTo("as"))
  /\ UNCHANGED <<cr, des, lat, queued, rest>>

\* RAM may refuse to associate what it is still disassociating.
Associate ==
  LET i == lat.id
      new == [k \in Kinds |->
               Associated[k] \ (InState(i, k, "associated") \cup InState(i, k, "associating"))]
  IN
  /\ pc = "as"
  /\ IF AllOf(Associated) = {} THEN NoCall(AfterLists /\ UNCHANGED todo)
     ELSE \/ Call(Active(i) /\ AllOf(Associated) \cap BadEntities = {},
                  [shares EXCEPT ![i].assoc = Associations(@, new, "associating")],
                  ErrorFor(AllOf(Associated)), AfterLists /\ UNCHANGED todo)
          \/ /\ \E k \in Kinds : new[k] \cap InState(i, k, "disassociating") # {}
             /\ NoFault /\ FailLatest("error") /\ UNCHANGED <<shares, todo>>
  /\ UNCHANGED <<cr, des, lat, queued, rest>>

\* UpdateResourceShare goes to the ARN in desired, not to the one just found.
UpdateResourceShare ==
  /\ pc = "update"
  /\ IF des.arn \in Ids
     THEN Call(Active(des.arn),
               [shares EXCEPT ![des.arn].ext = des.spec.ext, ![des.arn].name = des.spec.name],
               "error", Finish(Updated) /\ UNCHANGED todo)
     ELSE NoCall(FailLatest("error") /\ UNCHANGED todo)
  /\ UNCHANGED <<cr, des, lat, queued, rest>>

\* The end of every reconcile: patch the status, decide whether to come back.
PatchStatus ==
  /\ pc = "done"
  /\ \/ /\ NoFault
        /\ cr' = IF cr.life = "gone" THEN cr
                 ELSE [cr EXCEPT !.arn = out.arn, !.owned = out.owned, !.synced = out.synced]
        /\ queued' = (queued \/ out.synced = "error")
     \/ /\ Fault("patch") /\ queued' = TRUE /\ UNCHANGED cr
  /\ pc' = "idle" /\ Forget
  /\ UNCHANGED <<shares, rest>>

-----------------------------------------------------------------------------
(* Deleting: the share that was just found, then the finalizer.            *)

Mutant_ErrorDropped == pc' = "unmark" /\ UNCHANGED out
Mutant_DeleteErrorTerminal == FailLatest("terminal")
DeleteFailed == FailLatest("error")

SdkDelete ==
  /\ pc = "delete"
  /\ \/ /\ Active(lat.id) /\ shares' = Deleted(lat.id)
        /\ \/ NoFault /\ pc' = "unmark" /\ UNCHANGED out
           \/ Fault("lost") /\ DeleteFailed
     \/ /\ (~Active(lat.id) /\ NoFault) \/ Fault("api")
        /\ DeleteFailed /\ UNCHANGED shares
  /\ UNCHANGED <<cr, des, lat, todo, queued, rest>>

MarkUnmanaged ==
  /\ pc = "unmark"
  /\ \/ /\ NoFault /\ cr' = [cr EXCEPT !.life = "gone"]
        /\ pc' = "idle" /\ Forget
     \/ /\ Fault("patch") /\ UNCHANGED cr
        /\ FailDesired("error") /\ UNCHANGED <<des, lat, todo>>
  /\ UNCHANGED <<shares, queued, rest>>

-----------------------------------------------------------------------------
(* The user, RAM's own life, restarts and the resync timer.                *)

Quiet == pc = "idle" /\ ~queued

\* Bound: an edit of what compareStringSlices turns into the right calls in one
\* round, without a rename.
SimpleChange(a, b) == Missing(b, a) = <<>> \/ (Len(Missing(b, a)) = 1 /\ Missing(a, b) = <<>>)
WantedPermissions(s) == IF s.refs THEN Resolved(s).perms ELSE s.perms
IsSimple(s) ==
  /\ s.name = cr.spec.name
  /\ SimpleChange(WantedPermissions(cr.spec), WantedPermissions(s))
  /\ \A k \in Kinds : SimpleChange(cr.spec.list[k], s.list[k])

EditSpec ==
  /\ cr.life \in {"unmanaged", "managed"} /\ edits < MaxEdits
  /\ EditAnyTime \/ (Quiet /\ ~InTransit)
  /\ \E s \in Specs \ {cr.spec} :
        /\ SimpleEdits => IsSimple(s)
        /\ cr' = [cr EXCEPT !.spec = s]
  /\ edits' = edits + 1 /\ queued' = TRUE
  /\ UNCHANGED <<shares, pc, mem, faults, permission>>

DeleteResource ==
  /\ cr.life \in {"unmanaged", "managed"}
  /\ cr' = [cr EXCEPT !.life = IF @ = "managed" THEN "deleting" ELSE "gone"]
  /\ queued' = TRUE
  /\ UNCHANGED <<shares, pc, mem, env>>

Resync ==
  /\ Quiet /\ cr.life # "gone" /\ queued' = TRUE
  /\ UNCHANGED <<cr, shares, pc, mem, env>>

CrashRestart ==
  /\ Fault("crash")
  /\ pc' = "idle" /\ Forget /\ queued' = TRUE
  /\ IF Referred!Busy THEN Referred!GiveUp ELSE UNCHANGED permission
  /\ UNCHANGED <<cr, shares, edits>>

Progress(i, k, e) ==
  /\ \/ /\ shares[i].assoc[k][e] = "associating"
        /\ \/ NoFault /\ shares' = [shares EXCEPT ![i].assoc[k][e] = "associated"]
           \/ Fault("failed") /\ shares' = [shares EXCEPT ![i].assoc[k][e] = "failed"]
     \/ /\ shares[i].assoc[k][e] = "disassociating" /\ NoFault
        /\ shares' = [shares EXCEPT ![i].assoc[k][e] = "none"]
  /\ UNCHANGED <<cr, pc, mem, queued, rest>>

\* Another AWS service (CloudFormation, say) tags the share. Bound: with one value.
TaggedByAws ==
  /\ \E i \in Ids, k \in AwsKeys :
        /\ Active(i) /\ shares[i].tags[k] = NoTag
        /\ shares' = [shares EXCEPT ![i].tags[k] = CHOOSE v \in TagVals : TRUE]
  /\ UNCHANGED <<cr, pc, mem, queued, env>>

DeletedElsewhere ==
  /\ \E i \in Ids : Active(i) /\ shares' = Deleted(i)
  /\ Fault("external")
  /\ UNCHANGED <<cr, pc, mem, queued, rest>>

Purge ==
  /\ \E i \in Ids : /\ shares[i].state = "deleted"
                    /\ shares' = [shares EXCEPT ![i].state = "purged"]
  /\ UNCHANGED <<cr, pc, mem, queued, env>>

-----------------------------------------------------------------------------
(* The Permission resource: its worker, as far as its calls go, and its     *)
(* user. RAM does not delete a permission that a share uses; a policy it    *)
(* rejects is never in force and ends in the Terminal condition.            *)

InUse == \E i \in Ids : Active(i) /\ RefPermission \in shares[i].perms

PermissionStep ==
  \/ Referred!Take \/ Referred!Manage \/ Referred!Report("True")
  \/ Referred!Drop \/ Referred!Remove
  \/ permission.copy # "bad" /\ Referred!Publish
  \/ permission.copy = "bad" /\ permission.life # "unmanaged" /\ Referred!Report("terminal")
  \/ ~InUse /\ Referred!Unpublish
  \/ InUse /\ permission.doing = "remove" /\ Referred!Report("error")

PermissionWorker ==
  /\ \/ PermissionStep /\ NoFault
     \/ Referred!Report("error") /\ Fault("api")
     \/ Referred!Busy /\ Referred!GiveUp /\ Fault("patch")
  /\ UNCHANGED <<cr, shares, pc, mem, queued, edits>>

\* Bound: nothing happens to the Permission of a share that never refers to it.
Refers == \E s \in Specs : s.refs /\ s.name = cr.spec.name

CreatePermission ==
  /\ Refers /\ edits < MaxEdits /\ edits' = edits + 1
  /\ ~Referred!Exists /\ ~Referred!Busy /\ permission.inForce = "none"
  /\ permission' = Referred!Fresh("policy")
  /\ UNCHANGED <<cr, shares, pc, mem, queued, faults>>

EditPermission ==
  /\ Refers /\ edits < MaxEdits /\ edits' = edits + 1
  /\ Referred!Edit
  /\ UNCHANGED <<cr, shares, pc, mem, queued, faults>>

DeletePermission ==
  /\ Refers /\ edits < MaxEdits /\ edits' = edits + 1
  /\ Referred!Delete
  /\ UNCHANGED <<cr, shares, pc, mem, queued, faults>>

ResyncPermission ==
  /\ Refers /\ Referred!Resync
  /\ UNCHANGED <<cr, shares, pc, mem, queued, edits, faults>>

-----------------------------------------------------------------------------
NoPermission == [Referred!Fresh("policy") EXCEPT !.life = "gone", !.pending = FALSE]
SyncedPermission == [Referred!Fresh("policy") EXCEPT
  !.life = "managed", !.pending = FALSE, !.inForce = "policy", !.reported = "True", !.known = TRUE]

Init ==
  /\ \E s \in Specs :
       cr = [spec |-> s, arn |-> NoShare, owned |-> FALSE, synced |-> "none", life |-> "unmanaged"]
  /\ shares = [i \in Ids |-> NoShareYet]
  /\ pc = "idle" /\ queued = TRUE
  /\ des = [spec |-> Blank, arn |-> NoShare, owned |-> FALSE, deleting |-> FALSE]
  /\ lat = NoLatest /\ todo = NothingTodo
  /\ out = [arn |-> NoShare, owned |-> FALSE, synced |-> "none"]
  /\ edits = 0 /\ faults = 0
  /\ permission \in {SyncedPermission} \cup IF Refers THEN {NoPermission} ELSE {}

Update ==
  \/ PatchLatestStatus \/ Untag \/ Tag \/ DisassociatePermission \/ AssociatePermission
  \/ Disassociate \/ Associate \/ UpdateResourceShare

Worker ==
  \/ StartReconcile \/ ResolveReferences \/ SdkFind \/ GetPermissionArns
  \/ GetPrincipals \/ GetResources
  \/ MarkManaged \/ SdkCreate \/ Update \/ PatchStatus \/ SdkDelete \/ MarkUnmanaged

Environment ==
  \/ EditSpec \/ DeleteResource \/ Resync \/ CrashRestart \/ TaggedByAws \/ DeletedElsewhere
  \/ Purge
  \/ \E i \in Ids, k \in Kinds, e \in Entities : Progress(i, k, e)

Permission ==
  \/ PermissionWorker \/ CreatePermission \/ EditPermission \/ DeletePermission
  \/ ResyncPermission

Next == Worker \/ Environment \/ Permission
Spec == Init /\ [][Next]_vars

\* The two workers never stop for ever, every association RAM has begun it ends,
\* deleted shares are purged, and the resync of a synced resource comes
\* (helm/values.yaml: 10 hours). A terminal one waits for its next edit.
Fairness ==
  /\ WF_vars(Worker) /\ WF_vars(PermissionWorker) /\ WF_vars(Purge)
  /\ WF_vars(cr.synced = "True" /\ Resync)
  /\ \A i \in Ids, k \in Kinds, e \in Entities : WF_vars(Progress(i, k, e))
FairSpec == Spec /\ Fairness

-----------------------------------------------------------------------------
(* Properties.                                                             *)

SettledSynced == Quiet /\ cr.life = "managed" /\ cr.synced = "True" /\ ~InTransit

\* When the resource is reported as synced and nothing is pending, here or in
\* RAM, the share is shared with the principals, and shares the resources, of
\* the spec and no others (sdkUpdate, compareStringSlices).
SyncedMeansShared ==
  SettledSynced => /\ cr.arn \in Ids
                   /\ \A k \in {"principal", "resource"} :
                        InState(cr.arn, k, "associated") = ToSet(cr.spec.list[k])

\* ... and its permissions, tags and AllowExternalPrincipals are those of the
\* spec, the controller's tags where the user set none (syncPermissions,
\* syncTags, EnsureTags, UpdateResourceShare).
SyncedMeansConfigured ==
  SettledSynced => /\ cr.arn \in Ids
                   /\ cr.spec.perms # <<>> => shares[cr.arn].perms = ToSet(cr.spec.perms)
                   /\ cr.spec.refs => shares[cr.arn].perms = {RefPermission}
                   /\ \A k \in TagKeys \ AwsKeys :
                        shares[cr.arn].tags[k] =
                          IF cr.spec.tags[k] = NoTag THEN DefaultTags[k] ELSE cr.spec.tags[k]
                   /\ shares[cr.arn].ext = cr.spec.ext

\* ... and no principal or resource that was removed from the spec is shared with,
\* or shared, any longer.
SyncedMeansRevoked ==
  SettledSynced => /\ cr.arn \in Ids
                   /\ \A k \in {"principal", "resource"} :
                        InState(cr.arn, k, "associated") \subseteq ToSet(cr.spec.list[k])

\* ... and it is shared from the sources of the spec.
SyncedMeansSources ==
  SettledSynced => /\ cr.arn \in Ids
                   /\ InState(cr.arn, "source", "associated") = ToSet(cr.spec.list["source"])

\* The controller never asks RAM to remove or to change an aws: tag, whenever AWS
\* set it; RAM would refuse, and the rest of the update would not take place
\* (mirrorAWSTags, syncTags).
AwsTagsLeftAlone == pc \in {"untag", "tag"} => (Removed \cup Added) \cap AwsKeys = {}

\* One custom resource never has two shares alive in RAM.
AtMostOneShare == \A i, j \in Ids : Active(i) /\ Active(j) => i = j

\* The finalizer holds the custom resource until its shares are gone.
GoneMeansCleaned == cr.life = "gone" => \A i \in Ids : ~Active(i)

\* Once the user stops, the resyncs bring the share to the spec: principals,
\* resources and the permissions it names, whatever edits came before and in what
\* order (sdkUpdate, syncPermissions, compareStringSlices).
Converges ==
  <>[](cr.life = "managed" /\ (UNION {ToSet(cr.spec.list[k]) : k \in Kinds}) \cap BadEntities = {}
       => /\ cr.arn \in Ids
          /\ \A k \in {"principal", "resource"} :
               InState(cr.arn, k, "associated") = ToSet(cr.spec.list[k])
          /\ cr.spec.perms # <<>> => shares[cr.arn].perms = ToSet(cr.spec.perms))

\* A resource marked for deletion leaves the cluster, whatever has become of the
\* Permission it refers to.
DeletionCompletes == cr.life = "deleting" ~> cr.life = "gone"

OnlyShare == \A i \in Ids : Active(i) => i = cr.arn

\* Once the Permission a share refers to is there and synced, in whatever order
\* the two were applied, the share uses it (ResolveReferences, syncPermissions).
ReferenceArrives ==
  <>[](/\ cr.life = "managed" /\ cr.spec.refs /\ cr.spec.perms = <<>> /\ OnlyShare
       /\ permission.life = "managed" /\ permission.reported = "True")
  => <>[](cr.arn \in Ids /\ shares[cr.arn].perms = {RefPermission})

\* A Permission marked for deletion leaves the cluster once the share no longer
\* refers to it or is itself on its way out: neither waits for the other for
\* ever (syncPermissions, sdkDelete of both).
Released == OnlyShare /\ (cr.life \in {"deleting", "gone"} \/ ~cr.spec.refs)
ReleasedPermissionGoes ==
  permission.life = "deleting" /\ Released ~> permission.life = "gone" \/ ~Released
=============================================================================
