--------------------- MODULE ResourceShareSettledProofs ---------------------
(***************************************************************************)
(* What it means that a ResourceShare has settled as Synced, for any       *)
(* specs, any number of entities, permissions, tags, edits and faults: its *)
(* principals and resources, permissions, tags and settings are those of   *)
(* the spec, as long as no second share has come into being.               *)
(***************************************************************************)
EXTENDS ResourceShareProofs

\* The user waits until everything is settled, and then changes no name and adds at
\* most one entry to a list, or removes some.
CarefulUser == ~EditAnyTime /\ SimpleEdits
NobodyElse == "external" \notin Faults

Live == cr.life \in {"unmanaged", "managed"}

-----------------------------------------------------------------------------
(* While there is no second share, the reconcile is about the one that the *)
(* status names.                                                           *)

OnTheShare ==
  /\ pc \notin {"delete", "unmark"}
  /\ \A i \in Ids : shares[i].state \in {"none", "active"}
  /\ \A i \in Ids : Active(i) => shares[i].name = cr.spec.name
  /\ cr.arn \in Ids => Active(cr.arn)
  /\ pc # "idle" => /\ ~des.deleting /\ des.arn = cr.arn
                    /\ des.spec.list = cr.spec.list /\ des.spec.name = cr.spec.name
  /\ pc \in FoundPcs => cr.arn = lat.id
  /\ pc \in NonePcs => cr.arn = NoShare
  /\ pc = "done" => cr.arn \in {NoShare, out.arn}
  /\ pc = "done" /\ out.arn \in Ids => Active(out.arn)

LEMMA TypedShaped == Typed => Shaped
<1> SUFFICES ASSUME Typed PROVE Shaped
  OBVIOUS
<1>1. \A s \in SpecFields : DOMAIN s = SpecKeys
  BY DEF SpecFields, SpecKeys
<1>2. des.spec \in SpecFields
  BY DEF Typed, MemOK, Desired
<1> QED
  BY <1>1, <1>2 DEF Typed, Shaped, Cluster, MemOK, Desired, Latest, Outcomes, Share

\* Once it is on its way out, a resource does not come back.
LEMMA StepLive ==
  ASSUME Typed, [Next]_vars, Live'
  PROVE  /\ Live /\ ~DeleteResource
         /\ ~EditSpec => cr'.spec = cr.spec
         /\ ~PatchStatus /\ ~PatchLatestStatus => cr'.arn = cr.arn
<1> USE DEF Live
<1>0. DOMAIN cr = {"spec", "arn", "owned", "synced", "life"} /\ cr.spec \in Specs
      /\ cr.life \in {"unmanaged", "managed", "deleting", "gone"}
  BY DEF Typed, Cluster
<1>1. CASE PatchLatestStatus
  <2>1. UNCHANGED cr \/ cr' = [cr EXCEPT !.arn = lat.id, !.owned = TRUE]
    BY <1>1 DEF PatchLatestStatus
  <2> QED
    BY <1>0, <1>1, <2>1 DEF PatchLatestStatus, DeleteResource
<1>2. CASE PatchStatus
  <2>1. \/ UNCHANGED cr
        \/ cr' = [cr EXCEPT !.arn = out.arn, !.owned = out.owned, !.synced = out.synced]
    BY <1>2 DEF PatchStatus
  <2> QED
    BY <1>0, <1>2, <2>1 DEF PatchStatus, DeleteResource
<1>3. CASE EditSpec
  <2>1. PICK s \in Specs : cr' = [cr EXCEPT !.spec = s]
    BY <1>3 DEF EditSpec
  <2> QED
    BY <1>0, <1>3, <2>1 DEF EditSpec, DeleteResource
<1>4. CASE MarkManaged
  <2>1. UNCHANGED cr \/ (cr' = [cr EXCEPT !.life = "managed"] /\ cr.life = "unmanaged")
    BY <1>4 DEF MarkManaged
  <2> QED
    BY <1>0, <1>4, <2>1 DEF MarkManaged, DeleteResource
<1>5. CASE DeleteResource \/ MarkUnmanaged
  <2>1. \/ UNCHANGED cr /\ MarkUnmanaged
        \/ cr' = [cr EXCEPT !.life = "gone"]
        \/ cr' = [cr EXCEPT !.life = IF @ = "managed" THEN "deleting" ELSE "gone"]
    BY <1>5 DEF DeleteResource, MarkUnmanaged
  <2>2. UNCHANGED cr /\ MarkUnmanaged
    BY <1>0, <2>1
  <2> QED
    BY <1>0, <2>2 DEF DeleteResource
<1>6. StartReconcile \/ ResolveReferences \/ SdkFind \/ GetPermissionArns \/ GetPrincipals
      \/ GetResources \/ SdkCreate \/ (Update /\ ~PatchLatestStatus) \/ SdkDelete
      \/ Resync \/ CrashRestart \/ TaggedByAws \/ DeletedElsewhere \/ Purge
      \/ (\E i \in Ids, k \in Kinds, e \in Entities : Progress(i, k, e))
      \/ Permission \/ UNCHANGED vars => UNCHANGED cr
  BY DEF StartReconcile, ResolveReferences, SdkFind, GetPermissionArns, GetPrincipals,
     GetResources, SdkCreate, Update, Untag, Tag, DisassociatePermission, AssociatePermission,
     Disassociate, Associate, UpdateResourceShare, SdkDelete, Resync, CrashRestart, TaggedByAws,
     DeletedElsewhere, Purge, Progress, Permission, PermissionWorker, CreatePermission,
     DeletePermission, ResyncPermission, EditPermission, vars
<1>7. CASE UNCHANGED cr /\ ~EditSpec /\ ~DeleteResource
  BY <1>7
<1>8. DeleteResource => cr' # cr
  <2> SUFFICES ASSUME DeleteResource, UNCHANGED cr PROVE FALSE
    OBVIOUS
  <2>1. cr' = [cr EXCEPT !.life = IF @ = "managed" THEN "deleting" ELSE "gone"]
    BY DEF DeleteResource
  <2> QED
    BY <1>0, <2>1
<1> QED
  BY <1>1, <1>2, <1>3, <1>4, <1>5, <1>6, <1>7, <1>8 DEF Next, Worker, Update, Environment

LEMMA SpecParts ==
  ASSUME NEW s \in SpecFields
  PROVE  /\ \A t \in {Resolved(s), Cleared(s), EnsureTags(s)} :
              t.list = s.list /\ t.name = s.name /\ t.ext = s.ext /\ t.refs = s.refs
         /\ Resolved(s).perms = Append(s.perms, RefPermission) /\ Resolved(s).tags = s.tags
         /\ Cleared(s).perms = (IF s.refs THEN <<>> ELSE s.perms) /\ Cleared(s).tags = s.tags
         /\ EnsureTags(s).perms = s.perms /\ EnsureTags(s).tags = Ensured(s.tags, DefaultTags)
         /\ \A t : LET u == [s EXCEPT !.tags = t]
                   IN  u.list = s.list /\ u.name = s.name /\ u.ext = s.ext /\ u.refs = s.refs
                       /\ u.perms = s.perms /\ u.tags = t
BY DEF SpecFields, Resolved, Cleared, EnsureTags

\* Only creating one changes which shares there are, and none gets another name.
LEMMA StepStates ==
  ASSUME Typed, NobodyElse, OnTheShare, [Next]_vars, ~SdkCreate
  PROVE  \A i \in Ids : /\ shares'[i].state = shares[i].state
                        /\ Active(i) => shares'[i].name = cr.spec.name
<1> DEFINE Goal == \A i \in Ids : /\ shares'[i].state = shares[i].state
                                  /\ Active(i) => shares'[i].name = cr.spec.name
<1>0. UNCHANGED shares => Goal
  BY DEF OnTheShare
<1>1. CASE Update
  <2>1. pc # "idle" /\ (pc \in FoundPcs => lat.id \in Ids)
    BY <1>1, TypedShaped, StepUpdate DEF UpdatePcs, Typed, PcOK
  <2>2. Kept
    BY <1>1, <2>1, TypedShaped, StepUpdate
  <2> QED
    BY <2>1, <2>2 DEF Kept, OnTheShare
<1>2. CASE TaggedByAws \/ \E i \in Ids, k \in Kinds, e \in Entities : Progress(i, k, e)
  <2>1. \/ \E i \in Ids : \E t : shares' = [shares EXCEPT ![i].tags = t]
        \/ \E i \in Ids : \E t : shares' = [shares EXCEPT ![i].assoc = t]
    <3>1. ASSUME NEW i \in Ids, NEW k \in Kinds, NEW e \in Entities, Progress(i, k, e)
          PROVE  \E t : shares' = [shares EXCEPT ![i].assoc = t]
      <4>1. PICK x : shares' = [shares EXCEPT ![i].assoc[k][e] = x]
        BY <3>1 DEF Progress
      <4>2. shares' = [shares EXCEPT ![i].assoc = [shares[i].assoc EXCEPT ![k][e] = x]]
        BY <4>1
      <4> QED
        BY <4>2
    <3>2. ASSUME NEW i \in Ids, NEW k \in AwsKeys, NEW v,
                 shares' = [shares EXCEPT ![i].tags[k] = v]
          PROVE  \E t : shares' = [shares EXCEPT ![i].tags = t]
      <4>1. shares' = [shares EXCEPT ![i].tags = [shares[i].tags EXCEPT ![k] = v]]
        BY <3>2
      <4> QED
        BY <4>1
    <3> QED
      BY <1>2, <3>1, <3>2 DEF TaggedByAws
  <2>2. \A i \in Ids : DOMAIN shares[i] = {"state", "name", "ext", "perms", "assoc", "tags"}
    BY DEF Typed, Share
  <2>3. DOMAIN shares = Ids
    BY DEF Typed
  <2>4. ASSUME NEW j \in Ids, NEW t, \/ shares' = [shares EXCEPT ![j].tags = t]
                                    \/ shares' = [shares EXCEPT ![j].assoc = t]
        PROVE  \A i \in Ids : shares'[i].state = shares[i].state
                             /\ shares'[i].name = shares[i].name
    BY <2>2, <2>3, <2>4
  <2>5. \A i \in Ids : shares'[i].state = shares[i].state /\ shares'[i].name = shares[i].name
    BY <2>1, <2>4
  <2> QED
    BY <2>5 DEF OnTheShare
<1>3. ~(SdkDelete \/ MarkUnmanaged \/ DeletedElsewhere \/ Purge)
  BY DEF SdkDelete, MarkUnmanaged, DeletedElsewhere, Purge, OnTheShare, NobodyElse, Fault
<1>4. StartReconcile \/ ResolveReferences \/ SdkFind \/ GetPermissionArns \/ GetPrincipals
      \/ GetResources \/ MarkManaged \/ PatchStatus \/ EditSpec \/ DeleteResource \/ Resync
      \/ CrashRestart \/ Permission \/ UNCHANGED vars => UNCHANGED shares
  BY DEF StartReconcile, ResolveReferences, SdkFind, GetPermissionArns, GetPrincipals,
     GetResources, MarkManaged, PatchStatus, EditSpec, DeleteResource, Resync, CrashRestart,
     Permission, PermissionWorker, CreatePermission, DeletePermission, ResyncPermission,
     EditPermission, vars
<1> QED
  BY <1>0, <1>1, <1>2, <1>3, <1>4 DEF Next, Worker, Environment

LEMMA StepOnTheShare ==
  ASSUME CarefulUser, NobodyElse, Typed, AtMostOneShare, OnTheShare, Live', [Next]_vars
  PROVE  OnTheShare'
<1>1. Live /\ ~DeleteResource /\ (~EditSpec => cr'.spec = cr.spec)
      /\ (~PatchStatus /\ ~PatchLatestStatus => cr'.arn = cr.arn)
  BY StepLive
<1>2. ~SdkCreate => \A i \in Ids : /\ shares'[i].state = shares[i].state
                                   /\ Active(i) => shares'[i].name = cr.spec.name
  BY StepStates
<1>3. /\ des \in Desired /\ Linked(des) /\ des.spec \in SpecFields /\ lat \in Latest
      /\ cr \in Cluster /\ Linked(cr) /\ cr.spec \in SpecFields
      /\ cr.arn \in Ids \cup {NoShare} /\ out.arn \in Ids \cup {NoShare} /\ NoShare \notin Ids
      /\ pc \in FoundPcs => lat.id \in Ids
  BY SpecsAssumption, SubsetAssumption
     DEF Typed, MemOK, PcOK, Desired, Cluster, Outcomes
\* A step that leaves the shares, the spec and the ARN alone.
<1>4. ASSUME cr'.spec = cr.spec, cr'.arn = cr.arn, ~SdkCreate, pc' \notin {"delete", "unmark"},
             pc' # "idle" => /\ ~des'.deleting /\ des'.arn = cr.arn
                             /\ des'.spec.list = cr.spec.list /\ des'.spec.name = cr.spec.name,
             pc' \in FoundPcs => cr.arn = lat'.id, pc' \in NonePcs => cr.arn = NoShare,
             pc' = "done" => out'.arn = cr.arn \/ (pc = "done" /\ UNCHANGED out)
      PROVE  OnTheShare'
  <2>1. \A i \in Ids : shares'[i].state = shares[i].state
                       /\ (shares'[i].state = "active" => shares'[i].name = cr.spec.name)
    BY <1>2, <1>4 DEF Active
  <2>2. /\ cr.arn \in Ids => shares[cr.arn].state = "active"
        /\ \A i \in Ids : shares[i].state \in {"none", "active"}
    BY DEF OnTheShare, Active
  <2>3. pc = "done" => cr.arn \in {NoShare, out.arn}
                       /\ (out.arn \in Ids => shares[out.arn].state = "active")
    BY DEF OnTheShare, Active
  <2> QED
    BY <1>3, <1>4, <2>1, <2>2, <2>3 DEF OnTheShare, Active
<1>5. CASE Update
  <2>1. pc \in FoundPcs /\ UNCHANGED <<des, lat>> /\ pc' \in UpdatePcs \cup {"done"}
    <3>1. pc \in FoundPcs
      BY <1>5, TypedShaped, StepUpdate, <1>3 DEF UpdatePcs, FoundPcs
    <3> QED
      BY <1>5, <3>1, TypedShaped, StepUpdate, <1>3 DEF Ended
  <2>2. cr.arn = lat.id /\ des.arn = lat.id
    BY <2>1 DEF OnTheShare, FoundPcs
  <2>3. cr'.arn = cr.arn
    <3>1. CASE PatchLatestStatus
      <4>1. UNCHANGED cr \/ cr' = [cr EXCEPT !.arn = lat.id, !.owned = TRUE]
        BY <3>1 DEF PatchLatestStatus
      <4> QED
        BY <1>3, <2>2, <4>1 DEF Cluster
    <3>2. ~PatchStatus
      BY <2>1 DEF PatchStatus, FoundPcs
    <3> QED
      BY <1>1, <3>1, <3>2
  <2>4. pc' = "done" => out'.arn = lat.id
    BY <1>5, <2>2 DEF Update, PatchLatestStatus, Untag, Tag, DisassociatePermission,
       AssociatePermission, Disassociate, Associate, UpdateResourceShare, Call, NoCall, GoTo,
       AfterTags, AfterPermissions, AfterLists, Updated, FailLatest, FailWith, Finish, OnTheShare
  <2>5. ~EditSpec /\ ~SdkCreate
    BY <2>1 DEF EditSpec, SdkCreate, CarefulUser, Quiet, FoundPcs
  <2>6. pc \notin {"idle", "done"} /\ pc' \notin {"delete", "unmark", "idle"} \cup NonePcs
    BY <2>1 DEF FoundPcs, UpdatePcs, NonePcs
  <2> QED
    BY <1>1, <1>4, <2>1, <2>2, <2>3, <2>4, <2>5, <2>6 DEF OnTheShare
<1>6. CASE StartReconcile
  <2>1. /\ UNCHANGED cr /\ pc' \in {"resolve", "find"} /\ des'.arn = cr.arn /\ ~SdkCreate
        /\ ~des'.deleting /\ des'.spec = EnsureTags(cr.spec)
    BY <1>1, <1>6 DEF StartReconcile, Live, SdkCreate
  <2> QED
    BY <1>3, <1>4, <2>1, SpecParts DEF FoundPcs, NonePcs
<1>7. CASE ResolveReferences
  <2>1. /\ UNCHANGED cr /\ pc \in {"resolve", "resolveagain"} /\ UNCHANGED lat /\ ~SdkCreate
        /\ des.arn = cr.arn
    BY <1>7 DEF ResolveReferences, mem, SdkCreate, OnTheShare
  <2>2. CASE Unresolved /\ UNCHANGED des
    BY <1>4, <2>1, <2>2 DEF Unresolved, FailDesired, FailWith, Finish, FoundPcs, NonePcs, OnTheShare
  <2>3. CASE /\ des' = [des EXCEPT !.spec = Resolved(@)]
             /\ pc' = IF pc = "resolve" THEN "find" ELSE "create"
    <3>1. des'.arn = des.arn /\ des'.deleting = des.deleting /\ des'.spec = Resolved(des.spec)
      BY <1>3, <2>3 DEF Desired
    <3>2. des'.spec.list = cr.spec.list /\ des'.spec.name = cr.spec.name /\ ~des'.deleting
      BY <1>3, <2>1, <3>1, SpecParts DEF OnTheShare
    <3> QED
      BY <1>4, <2>1, <2>3, <3>1, <3>2 DEF FoundPcs, NonePcs, OnTheShare
  <2> QED
    BY <1>7, <2>2, <2>3 DEF ResolveReferences
<1>8. CASE SdkFind
  <2>1. /\ UNCHANGED cr /\ pc = "find" /\ ~des.deleting /\ ~SdkCreate /\ des.arn = cr.arn
        /\ des.spec.list = cr.spec.list /\ des.spec.name = cr.spec.name
    BY <1>8 DEF SdkFind, OnTheShare, SdkCreate
  <2>2. CASE FailDesired("error") /\ UNCHANGED des
    BY <1>4, <2>1, <2>2 DEF FailDesired, FailWith, Finish, FoundPcs, NonePcs
  <2>3. CASE Listed = {} /\ UNCHANGED des /\ pc' = IF des.deleting THEN "unmark"
                                    ELSE IF cr.life \in {"unmanaged", "gone"} THEN "mark"
                                    ELSE "create"
    <3>1. pc' \in {"mark", "create"}
      BY <2>1, <2>3
    <3>2. cr.arn = NoShare
      <4> SUFFICES ASSUME cr.arn \in Ids PROVE FALSE
        BY <1>3
      <4>1. cr.arn \in Listed
        BY <1>3, <2>1 DEF Listed, Visible, OnTheShare, Active, Linked
      <4> QED
        BY <2>3, <4>1
    <3> QED
      BY <1>4, <2>1, <2>3, <3>1, <3>2 DEF FoundPcs
  <2>4. ASSUME NEW i \in Listed,
               des' = [des EXCEPT !.spec.tags = Mirrored(@, shares[i].tags, AwsKeys)],
               lat'.id = i, pc' = "findperms"
        PROVE  OnTheShare'
    <3>1. i \in Ids /\ Active(i) /\ des.owned
      BY DEF Listed, Visible, Active, OnTheShare
    <3>2. cr.arn = i
      <4>1. cr.arn \in Ids
        BY <1>3, <2>1, <3>1 DEF Linked, Desired
      <4> QED
        BY <3>1, <4>1 DEF OnTheShare, AtMostOneShare
    <3> DEFINE t == Mirrored(des.spec.tags, shares[i].tags, AwsKeys)
    <3>3. des' = [des EXCEPT !.spec = [des.spec EXCEPT !.tags = t]]
      BY <2>4
    <3> HIDE DEF t
    <3>4. des'.arn = i /\ ~des'.deleting /\ des'.spec = [des.spec EXCEPT !.tags = t]
      BY <1>3, <2>1, <3>2, <3>3 DEF Desired
    <3>5. des'.spec.list = cr.spec.list /\ des'.spec.name = cr.spec.name
      BY <1>3, <2>1, <3>4, SpecParts
    <3> QED
      BY <1>4, <2>1, <2>4, <3>2, <3>4, <3>5 DEF NonePcs
  <2> QED
    BY <1>8, <2>2, <2>3, <2>4 DEF SdkFind
<1>9. CASE GetPermissionArns \/ GetPrincipals \/ GetResources
  <2>1. /\ UNCHANGED <<cr, des>> /\ pc \in FoundPcs /\ ~SdkCreate
        /\ pc' \in FoundPcs \cup {"done"} /\ (pc' = "delete" => des.deleting)
        /\ pc' = "done" => out'.arn \in {lat.id, des.arn}
    BY <1>9 DEF GetPermissionArns, GetPrincipals, GetResources, FailDesired, FailLatest, FailWith,
       Finish, FoundPcs, SdkCreate
  <2>2. lat'.id = lat.id
    <3>1. \/ UNCHANGED lat
          \/ lat' = [lat EXCEPT !.perms = shares[lat.id].perms]
          \/ lat' = [lat EXCEPT !.list["principal"] = Read("principal")]
          \/ lat' = [lat EXCEPT !.list["resource"] = Read("resource")]
      BY <1>9 DEF GetPermissionArns, GetPrincipals, GetResources
    <3> QED
      BY <1>3, <3>1 DEF Latest
  <2>3. /\ des.arn = cr.arn /\ lat.id = cr.arn /\ ~des.deleting
        /\ des.spec.list = cr.spec.list /\ des.spec.name = cr.spec.name
    BY <2>1 DEF OnTheShare, FoundPcs
  <2>4. pc' \notin {"unmark"} \cup NonePcs
    BY <2>1 DEF FoundPcs, NonePcs
  <2> QED
    BY <1>4, <2>1, <2>2, <2>3, <2>4
<1>10. CASE MarkManaged
  <2>1. /\ pc = "mark" /\ ~SdkCreate /\ ~EditSpec /\ ~PatchStatus /\ ~PatchLatestStatus
        /\ des.arn = cr.arn /\ cr.arn = NoShare
    BY <1>10 DEF MarkManaged, SdkCreate, EditSpec, CarefulUser, Quiet, PatchStatus,
       PatchLatestStatus, OnTheShare, NonePcs
  <2>2. CASE UNCHANGED des /\ FailDesired("error")
    BY <1>1, <1>4, <2>1, <2>2 DEF FailDesired, FailWith, Finish, FoundPcs, NonePcs, OnTheShare
  <2>3. CASE des' = [des EXCEPT !.spec = Cleared(@)] /\ pc' \in {"resolveagain", "create"}
    <3>1. des'.arn = des.arn /\ des'.deleting = des.deleting /\ des'.spec = Cleared(des.spec)
      BY <1>3, <2>3 DEF Desired
    <3>2. des'.spec.list = cr.spec.list /\ des'.spec.name = cr.spec.name /\ ~des'.deleting
      BY <1>3, <2>1, <3>1, SpecParts DEF OnTheShare
    <3> QED
      BY <1>1, <1>4, <2>1, <2>3, <3>1, <3>2 DEF FoundPcs
  <2> QED
    BY <1>10, <2>2, <2>3 DEF MarkManaged
<1>11. CASE SdkCreate
  <2>1. UNCHANGED <<cr, des, lat>> /\ pc = "create" /\ pc' = "done"
    BY <1>11 DEF SdkCreate, FailDesired, FailWith, Finish
  <2>2. cr.arn = NoShare
    BY <2>1 DEF OnTheShare, NonePcs
  <2>3. \/ UNCHANGED shares /\ out'.arn = des.arn
        \/ \E i \in Ids : /\ shares' = [shares EXCEPT ![i] = Created(des.spec)]
                          /\ out'.arn \in {i, des.arn}
    <3> DEFINE unused == {i \in Ids : shares[i].state = "none"}
    <3>1. Ids \subseteq Nat
      BY BoundAssumption DEF Ids
    <3>2. unused # {} => Min(unused) \in Ids
      BY <3>1, MinIs
    <3> QED
      BY <1>11, <3>2 DEF SdkCreate, FailDesired, FailWith, Finish
  <2>4. Created(des.spec).state = "active" /\ Created(des.spec).name = cr.spec.name
    BY <2>1 DEF Created, OnTheShare
  <2>5. \A i \in Ids : /\ shares'[i].state \in {"none", "active"}
                       /\ shares'[i].state = "active" => shares'[i].name = cr.spec.name
    BY <2>3, <2>4 DEF Typed, OnTheShare, Active
  <2>6. out'.arn \in Ids => shares'[out'.arn].state = "active"
    BY <1>3, <2>1, <2>2, <2>3, <2>4 DEF Typed, OnTheShare
  <2> QED
    BY <1>3, <2>1, <2>2, <2>5, <2>6 DEF OnTheShare, Active, FoundPcs, NonePcs
<1>12. CASE PatchStatus
  <2>1. pc = "done" /\ pc' = "idle" /\ ~SdkCreate /\ ~EditSpec
    BY <1>12 DEF PatchStatus, SdkCreate, EditSpec, CarefulUser, Quiet
  <2>2. cr'.arn \in {cr.arn, out.arn}
    <3>1. \/ UNCHANGED cr
          \/ cr' = [cr EXCEPT !.arn = out.arn, !.owned = out.owned, !.synced = out.synced]
      BY <1>12 DEF PatchStatus
    <3> QED
      BY <1>3, <3>1 DEF Cluster
  <2>3. cr'.arn \in Ids => Active(cr'.arn)
    BY <2>1, <2>2 DEF OnTheShare
  <2> QED
    BY <1>1, <1>2, <1>3, <2>1, <2>3 DEF OnTheShare, Active, FoundPcs, NonePcs
<1>13. CASE EditSpec
  <2>1. PICK s \in Specs : s.name = cr.spec.name /\ cr' = [cr EXCEPT !.spec = s]
    BY <1>13 DEF EditSpec, CarefulUser, IsSimple
  <2>2. cr'.spec.name = cr.spec.name /\ cr'.arn = cr.arn
    BY <1>3, <2>1 DEF Cluster
  <2>3. UNCHANGED <<shares, pc, des, lat, out>> /\ pc = "idle"
    BY <1>13 DEF EditSpec, CarefulUser, Quiet, mem
  <2> QED
    BY <2>2, <2>3 DEF OnTheShare, Active, FoundPcs, NonePcs
<1>14. CASE CrashRestart
  <2>1. UNCHANGED cr /\ pc' = "idle" /\ UNCHANGED shares
    BY <1>14 DEF CrashRestart
  <2> QED
    BY <2>1 DEF OnTheShare, Active, FoundPcs, NonePcs
<1>15. CASE Resync \/ TaggedByAws \/ Permission \/ UNCHANGED vars
            \/ \E i \in Ids, k \in Kinds, e \in Entities : Progress(i, k, e)
  <2>1. UNCHANGED <<cr, pc, des, lat, out>>
    BY <1>15 DEF Resync, TaggedByAws, Permission, PermissionWorker, CreatePermission,
       DeletePermission, ResyncPermission, EditPermission, Progress, vars, mem
  <2>2. \A i \in Ids : /\ shares'[i].state = shares[i].state
                       /\ Active(i) => shares'[i].name = cr.spec.name
    <3>1. ~SdkCreate
      BY <2>1 DEF SdkCreate, FailWith, FailDesired, Finish
    <3> QED
      BY <1>2, <3>1
  <2> QED
    BY <1>3, <2>1, <2>2 DEF OnTheShare, Active
<1>16. ~(SdkDelete \/ MarkUnmanaged \/ DeletedElsewhere \/ Purge)
  BY DEF SdkDelete, MarkUnmanaged, DeletedElsewhere, Purge, OnTheShare, NobodyElse, Fault
<1> QED
  BY <1>1, <1>5, <1>6, <1>7, <1>8, <1>9, <1>10, <1>11, <1>12, <1>13, <1>14, <1>15, <1>16
     DEF Next, Worker, Environment

-----------------------------------------------------------------------------
(* What is synced is shared.                                               *)

\* RAM takes every entry and completes what it has begun, and nobody else deletes
\* the share.
NothingRefused == BadEntities = {} /\ Faults \cap {"failed", "external"} = {}

\* The kinds whose associations are read, the associations a of one share.
ReadKinds == {"principal", "resource"}
In(a, k, s) == {e \in Entities : a[k][e] = s}
Held(a, k) == In(a, k, "associated") \cup In(a, k, "associating")

\* With W wanted, all of it is held; or RAM is at rest and one entry is missing, or
\* there are some too many.
OneMissing(a, k, W) ==
  /\ In(a, k, "associating") = {}
  /\ \E v \in W : v \notin In(a, k, "associated") /\ W = In(a, k, "associated") \cup {v}
TooMany(a, k, W) == In(a, k, "associating") = {} /\ W \subseteq In(a, k, "associated")
Near(a, k, W) == Held(a, k) = W \/ OneMissing(a, k, W) \/ TooMany(a, k, W)

\* What has been read as L is what is associated, or else RAM is on its way to W.
AsRead(a, k, W, L) == L = In(a, k, "associated") \/ (Held(a, k) = W /\ L \subseteq W)

\* Once it is disassociated what is too many, W is held or one entry is missing.
Fits(a, k, W, L) == /\ W \subseteq L => Held(a, k) = W
                    /\ ~(W \subseteq L) => AsRead(a, k, W, L) /\ L \subseteq W

Full(a, lists) == \A k \in ReadKinds : Held(a, k) = ToSet(lists[k])

ComparePcs == {"status", "untag", "tag", "disperm", "asperm", "dis"}
HasRead(k) == ComparePcs \cup IF k = "principal" THEN {"findresources"} ELSE {}

\* How far its associations are, at each step, from those of the spec.
Approached ==
  /\ \A i \in Ids, k \in ReadKinds : Active(i) => Near(shares[i].assoc, k, ToSet(cr.spec.list[k]))
  /\ \A k \in ReadKinds : pc \in HasRead(k) =>
       AsRead(shares[lat.id].assoc, k, ToSet(cr.spec.list[k]), lat.list[k])
  /\ pc = "as" => \A k \in ReadKinds :
       Fits(shares[lat.id].assoc, k, ToSet(cr.spec.list[k]), lat.list[k])
  /\ pc = "update" => Full(shares[lat.id].assoc, cr.spec.list)
  /\ pc = "done" => out.synced \in {"True", "error"}
  /\ pc = "done" /\ out.synced = "True" =>
       out.arn \in Ids /\ Full(shares[out.arn].assoc, cr.spec.list)
  /\ Quiet => cr.synced = "True" /\ cr.arn \in Ids /\ Full(shares[cr.arn].assoc, cr.spec.list)

SharedInv == Live => OnTheShare /\ Approached

\* The associations b of a share once some of a have moved to the state s.
Moved(a, b, k, N, s) == \A e \in Entities : b[k][e] = IF e \in N THEN s ELSE a[k][e]

\* With L read, what is not wanted of it is disassociated.
LEMMA Dropped ==
  ASSUME NEW a, NEW b, NEW k, NEW W \in SUBSET Entities, NEW L \in SUBSET Entities,
         Near(a, k, W), AsRead(a, k, W, L), Moved(a, b, k, L \ W, "disassociating")
  PROVE  Near(b, k, W) /\ Fits(b, k, W, L)
<1>1. /\ In(b, k, "associated") = In(a, k, "associated") \ (L \ W)
      /\ In(b, k, "associating") = In(a, k, "associating") \ (L \ W)
  BY DEF In, Moved
<1>2. In(a, k, "associated") \cap In(a, k, "associating") = {}
  BY DEF In
<1>3. CASE Held(a, k) = W
  <2>1. L \subseteq W
    BY <1>3 DEF AsRead, Held
  <2> QED
    BY <1>1, <1>2, <1>3, <2>1 DEF Near, Fits, AsRead, Held
<1>4. CASE OneMissing(a, k, W)
  <2>1. L \subseteq W
    BY <1>4 DEF OneMissing, AsRead
  <2>2. In(b, k, "associated") = In(a, k, "associated") /\ In(b, k, "associating") = {}
    BY <1>1, <1>4, <2>1 DEF OneMissing
  <2>3. OneMissing(b, k, W)
    BY <1>4, <2>2 DEF OneMissing
  <2> QED
    BY <1>4, <2>1, <2>2, <2>3 DEF OneMissing, Near, Fits, AsRead, Held
<1>5. CASE TooMany(a, k, W) /\ Held(a, k) # W
  <2>1. In(b, k, "associating") = {} /\ In(b, k, "associated") = W
    BY <1>1, <1>5 DEF TooMany, AsRead, Held
  <2>2. W \subseteq L
    BY <1>5 DEF TooMany, AsRead, Held
  <2> QED
    BY <2>1, <2>2 DEF Near, Fits, Held
<1> QED
  BY <1>3, <1>4, <1>5 DEF Near

\* When nothing had to be, the same.
LEMMA NoneDropped ==
  ASSUME NEW a, NEW k, NEW W \in SUBSET Entities, NEW L \in SUBSET Entities,
         Near(a, k, W), AsRead(a, k, W, L), L \subseteq W
  PROVE  Fits(a, k, W, L)
<1>1. Moved(a, a, k, L \ W, "disassociating")
  BY DEF Moved
<1> QED
  BY <1>1, Dropped

\* Then one of the entries that look missing is associated, unless it is held.
LEMMA Supplied ==
  ASSUME NEW a, NEW b, NEW k, NEW W \in SUBSET Entities, NEW L \in SUBSET Entities, NEW N,
         Near(a, k, W), Fits(a, k, W, L), Moved(a, b, k, N, "associating"),
         W \subseteq L => N = {}, ~(W \subseteq L) => \E v \in W \ L : N = {v} \ Held(a, k)
  PROVE  Held(b, k) = W
<1>1. N \cap Held(a, k) = {} => Held(b, k) = Held(a, k) \cup (N \cap Entities)
  BY DEF Held, In, Moved
<1>2. CASE W \subseteq L
  BY <1>1, <1>2 DEF Fits
<1>3. CASE ~(W \subseteq L) /\ Held(a, k) = W
  BY <1>1, <1>3
<1>4. CASE ~(W \subseteq L) /\ Held(a, k) # W
  <2>1. L = In(a, k, "associated") /\ L \subseteq W
    BY <1>4 DEF Fits, AsRead
  <2>2. OneMissing(a, k, W)
    BY <1>4, <2>1 DEF Near, TooMany
  <2>3. Held(a, k) = L
    BY <2>1, <2>2 DEF OneMissing, Held
  <2>4. PICK v \in W \ L : N = {v}
    BY <1>4, <2>3
  <2>5. W = L \cup {v}
    BY <2>1, <2>2, <2>4 DEF OneMissing
  <2> QED
    BY <1>1, <2>3, <2>4, <2>5
<1> QED
  BY <1>2, <1>3, <1>4

\* RAM completes an association, or a disassociation.
LEMMA Progressed ==
  ASSUME NEW a, NEW b, NEW k, NEW e \in Entities, NEW W \in SUBSET Entities,
         NEW L \in SUBSET Entities,
         \/ a[k][e] = "associating" /\ Moved(a, b, k, {e}, "associated")
         \/ a[k][e] = "disassociating" /\ Moved(a, b, k, {e}, "none")
  PROVE  /\ Near(a, k, W) => Near(b, k, W)
         /\ Near(a, k, W) /\ AsRead(a, k, W, L) => AsRead(b, k, W, L)
         /\ Near(a, k, W) /\ Fits(a, k, W, L) => Fits(b, k, W, L)
         /\ Held(b, k) = Held(a, k)
<1>1. Held(b, k) = Held(a, k)
  BY DEF Held, In, Moved
<1>2. CASE a[k][e] = "associating" /\ Moved(a, b, k, {e}, "associated")
  <2>1. In(a, k, "associating") # {}
    BY <1>2 DEF In
  <2>2. Near(a, k, W) => Held(a, k) = W
    BY <2>1 DEF Near, OneMissing, TooMany
  <2> QED
    BY <1>1, <2>2 DEF Near, AsRead, Fits, Held
<1>3. CASE a[k][e] = "disassociating" /\ Moved(a, b, k, {e}, "none")
  <2>1. /\ In(b, k, "associated") = In(a, k, "associated")
        /\ In(b, k, "associating") = In(a, k, "associating")
    BY <1>3 DEF In, Moved
  <2> QED
    BY <1>1, <2>1 DEF Near, OneMissing, TooMany, AsRead, Fits, Held
<1> QED
  BY <1>2, <1>3

\* When what has been read is what is wanted, it is held.
LEMMA ReadMatches ==
  ASSUME NEW a, NEW k, NEW W, Near(a, k, W), AsRead(a, k, W, W)
  PROVE  Held(a, k) = W
BY DEF Near, AsRead, OneMissing, TooMany, Held

\* The edits of a careful user, when the share is as the spec says.
LEMMA EditKeepsNear ==
  ASSUME NEW a, NEW k, NEW s \in Seq(Entities), NEW t \in Seq(Entities), SimpleChange(s, t),
         Held(a, k) = ToSet(s), In(a, k, "associating") = {}
  PROVE  Near(a, k, ToSet(t))
<1>1. In(a, k, "associated") = ToSet(s)
  BY DEF Held
<1>2. /\ Missing(t, s) \in Seq(Entities) /\ ToSet(Missing(t, s)) = ToSet(t) \ ToSet(s)
      /\ Missing(s, t) \in Seq(Entities) /\ ToSet(Missing(s, t)) = ToSet(s) \ ToSet(t)
  BY MissingIs
<1>3. CASE Missing(t, s) = <<>>
  BY <1>1, <1>2, <1>3, EmptyHasNone DEF Near, TooMany
<1>4. CASE Len(Missing(t, s)) = 1 /\ Missing(s, t) = <<>>
  <2>1. ToSet(s) \subseteq ToSet(t)
    BY <1>2, <1>4, EmptyHasNone
  <2>2. \A m \in Seq(Entities) : Len(m) = 1 => ToSet(m) = {m[1]}
    BY DEF ToSet
  <2>3. PICK v : ToSet(t) \ ToSet(s) = {v}
    BY <1>2, <1>4, <2>2
  <2> QED
    BY <1>1, <2>1, <2>3 DEF Near, OneMissing
<1> QED
  BY <1>3, <1>4 DEF SimpleChange


\* The calls that compareStringSlices makes of the lists of the spec.
LEMMA CallsAre ==
  ASSUME des \in Desired, lat \in Latest, NEW k \in Kinds
  PROVE  LET W == ToSet(des.spec.list[k])
             L == lat.list[k]
         IN  /\ W \in SUBSET Entities /\ L \in SUBSET Entities
             /\ Disassociated[k] = L \ W
             /\ W \subseteq L => Associated[k] = {}
             /\ ~(W \subseteq L) => \E v \in W \ L : Associated[k] = (L \ W) \cup {v}
<1> DEFINE s == des.spec.list[k]
           L == lat.list[k]
<1>1. s \in Seq(Entities) /\ L \in SUBSET Entities
  BY DEF Desired, SpecFields, Latest
<1>2. IsFiniteSet(L)
  BY <1>1, FiniteAssumption, FS_Subset
<1>3. ListOf(L) \in Seq(Entities) /\ ToSet(ListOf(L)) = L
  <2>1. SetToSeq(L) \in Seq(L) /\ ToSet(SetToSeq(L)) = L
    BY <1>2, ListOfSet
  <2> QED
    BY <1>1, <2>1 DEF ListOf
<1>4. Disassociated[k] = ToSet(ToDelete(s, ListOf(L))) /\ Associated[k] = ToSet(ToAdd(s, ListOf(L)))
  BY DEF Disassociated, Associated
<1>5. ToSet(s) \in SUBSET Entities /\ ToSet(<<>>) = {}
  BY <1>1 DEF ToSet
<1> HIDE DEF s, L
<1>6. ToSet(ToDelete(s, ListOf(L))) = L \ ToSet(s)
  BY <1>1, <1>3, ToDeleteIs
<1>7. /\ ToSet(s) \subseteq L => ToAdd(s, ListOf(L)) = <<>>
      /\ ~(ToSet(s) \subseteq L) =>
           \E v \in ToSet(s) \ L : ToSet(ToAdd(s, ListOf(L))) = (L \ ToSet(s)) \cup {v}
  BY <1>1, <1>3, ToAddIs
<1> QED
  BY <1>1, <1>4, <1>5, <1>6, <1>7 DEF s, L

\* Steps that leave the associations alone.
AtRest == \A i \in Ids : shares'[i].state = shares[i].state /\ shares'[i].assoc = shares[i].assoc

LEMMA StepAtRest ==
  ASSUME Typed,
         \/ StartReconcile \/ ResolveReferences \/ SdkFind \/ GetPermissionArns \/ GetPrincipals
         \/ GetResources \/ MarkManaged \/ PatchLatestStatus \/ Untag \/ Tag
         \/ DisassociatePermission \/ AssociatePermission \/ UpdateResourceShare \/ PatchStatus
         \/ MarkUnmanaged \/ EditSpec \/ DeleteResource \/ Resync \/ CrashRestart \/ TaggedByAws
         \/ Permission \/ UNCHANGED vars
  PROVE  AtRest
<1>0. UNCHANGED shares => AtRest
  BY DEF AtRest
<1>1. \A i \in Ids : {"state", "assoc", "tags", "perms", "ext", "name"} = DOMAIN shares[i]
  BY DEF Typed, Share
<1>2. DOMAIN shares = Ids
  BY DEF Typed
<1>3. Untag => UNCHANGED shares \/ \E t : shares' = [shares EXCEPT ![lat.id].tags = t]
  BY DEF Untag, Call, NoCall
<1>4. Tag => UNCHANGED shares \/ \E t : shares' = [shares EXCEPT ![lat.id].tags = t]
  BY DEF Tag, Call, NoCall
<1>5. DisassociatePermission =>
        UNCHANGED shares \/ \E t : shares' = [shares EXCEPT ![lat.id].perms = t]
  BY DEF DisassociatePermission, Call, NoCall
<1>6. AssociatePermission =>
        UNCHANGED shares \/ \E t : shares' = [shares EXCEPT ![lat.id].perms = t]
  BY DEF AssociatePermission, Call, NoCall
<1>7. UpdateResourceShare =>
        \/ UNCHANGED shares
        \/ shares' = [shares EXCEPT ![des.arn].ext = des.spec.ext, ![des.arn].name = des.spec.name]
  BY DEF UpdateResourceShare, Call, NoCall
<1>8. ASSUME TaggedByAws PROVE \E i : \E t : shares' = [shares EXCEPT ![i].tags = t]
  <2>1. PICK i \in Ids, k \in AwsKeys :
          shares' = [shares EXCEPT ![i].tags[k] = CHOOSE v \in TagVals : TRUE]
    BY <1>8 DEF TaggedByAws
  <2>2. shares' = [shares EXCEPT ![i].tags =
                     [shares[i].tags EXCEPT ![k] = CHOOSE v \in TagVals : TRUE]]
    BY <2>1
  <2> QED
    BY <2>2
<1>9. ASSUME NEW i, NEW t, shares' = [shares EXCEPT ![i].tags = t] PROVE AtRest
  BY <1>1, <1>2, <1>9 DEF AtRest
<1>10. ASSUME NEW i, NEW t, shares' = [shares EXCEPT ![i].perms = t] PROVE AtRest
  BY <1>1, <1>2, <1>10 DEF AtRest
<1>11. ASSUME shares' = [shares EXCEPT ![des.arn].ext = des.spec.ext,
                                       ![des.arn].name = des.spec.name]
       PROVE  AtRest
  BY <1>1, <1>2, <1>11 DEF AtRest
<1>12. StartReconcile \/ ResolveReferences \/ SdkFind \/ GetPermissionArns \/ GetPrincipals
       \/ GetResources \/ MarkManaged \/ PatchLatestStatus \/ PatchStatus \/ MarkUnmanaged
       \/ EditSpec \/ DeleteResource \/ Resync \/ CrashRestart \/ Permission \/ UNCHANGED vars
       => UNCHANGED shares
  BY DEF StartReconcile, ResolveReferences, SdkFind, GetPermissionArns, GetPrincipals,
     GetResources, MarkManaged, PatchLatestStatus, PatchStatus, MarkUnmanaged, EditSpec,
     DeleteResource, Resync, CrashRestart, Permission, PermissionWorker, CreatePermission,
     DeletePermission, ResyncPermission, EditPermission, vars
<1> QED
  BY <1>0, <1>3, <1>4, <1>5, <1>6, <1>7, <1>8, <1>9, <1>10, <1>11, <1>12

LEMMA FoundShare ==
  ASSUME Typed, OnTheShare, pc \in FoundPcs
  PROVE  pc # "idle" /\ lat.id \in Ids /\ Active(lat.id) /\ des.arn = lat.id
BY DEF Typed, PcOK, OnTheShare, FoundPcs

\* What a call of a reconcile that has found the share may lead to.
LEMMA GoOnShared ==
  ASSUME Typed, OnTheShare, Approached, AtRest, pc \in FoundPcs,
         UNCHANGED <<des, lat, cr.spec>>,
         \/ pc' = "done" /\ out'.synced = "error" /\ out'.arn \in {lat.id, des.arn}
         \/ pc \in ComparePcs /\ pc' \in ComparePcs
         \/ /\ Full(shares[lat.id].assoc, cr.spec.list)
            /\ pc' = "update" \/ (pc' = "done" /\ out' = Updated)
  PROVE  Approached'
<1>1. lat.id \in Ids /\ Active(lat.id) /\ des.arn = lat.id
  BY FoundShare
<1>2. pc # "idle" /\ pc' # "idle" /\ pc' \notin {"delete", "unmark"}
  BY DEF FoundPcs, ComparePcs
<1>3. \A i \in Ids : Active(i)' = Active(i)
  BY DEF AtRest, Active
<1>5. ~Quiet'
  BY <1>2 DEF Quiet
<1>6. shares'[lat.id].assoc = shares[lat.id].assoc
  BY <1>1 DEF AtRest
<1>7. \A i \in Ids, k \in ReadKinds :
        Active(i)' => Near(shares'[i].assoc, k, ToSet(cr'.spec.list[k]))
  BY <1>3 DEF AtRest, Approached
<1>8. \A k \in ReadKinds : pc \in ComparePcs =>
        AsRead(shares[lat.id].assoc, k, ToSet(cr.spec.list[k]), lat.list[k])
  BY DEF Approached, HasRead
<1>9. \A k \in ReadKinds : pc' \in HasRead(k) => pc' \in ComparePcs /\ pc \in ComparePcs
  BY DEF HasRead, ComparePcs
<1>10. pc' # "as" /\ (pc' = "update" => Full(shares[lat.id].assoc, cr.spec.list))
  BY DEF ComparePcs
<1>11. pc' = "done" =>
         /\ out'.synced \in {"True", "error"}
         /\ out'.synced = "True" => out'.arn = lat.id /\ Full(shares[lat.id].assoc, cr.spec.list)
  BY <1>1 DEF ComparePcs, Updated
<1> QED
  BY <1>1, <1>5, <1>6, <1>7, <1>8, <1>9, <1>10, <1>11 DEF Approached

\* When the lists do not differ from what has been read, the share is full.
LEMMA SameIsFull ==
  ASSUME Typed, OnTheShare, Approached, NEW l, ~ListsDiffer(l), pc # "idle", lat.id \in Ids,
         Active(lat.id),
         \A k \in ReadKinds : AsRead(shares[lat.id].assoc, k, ToSet(cr.spec.list[k]), l.list[k])
  PROVE  Full(shares[lat.id].assoc, cr.spec.list)
<1> SUFFICES ASSUME NEW k \in ReadKinds
             PROVE  Held(shares[lat.id].assoc, k) = ToSet(cr.spec.list[k])
  BY DEF Full
<1>1. des.spec.list[k] = cr.spec.list[k] /\ k \in Kinds
  BY DEF OnTheShare, ReadKinds, Kinds
<1>2. l.list[k] = ToSet(cr.spec.list[k])
  BY <1>1 DEF ListsDiffer, ListDiffers
<1>3. Near(shares[lat.id].assoc, k, ToSet(cr.spec.list[k]))
  BY DEF Approached
<1> QED
  BY <1>2, <1>3, ReadMatches

LEMMA AfterIs ==
  ASSUME Typed, OnTheShare, Approached, pc \in ComparePcs,
         AfterTags \/ AfterPermissions
  PROVE  \/ pc' \in ComparePcs
         \/ /\ Full(shares[lat.id].assoc, cr.spec.list)
            /\ pc' = "update" \/ (pc' = "done" /\ out' = Updated)
<1>1. pc' \in ComparePcs \/ (AfterLists /\ ~ListsDiffer(lat))
  BY DEF AfterTags, AfterPermissions, ComparePcs
<1>2. ~ListsDiffer(lat) => Full(shares[lat.id].assoc, cr.spec.list)
  <2>1. pc # "idle" /\ lat.id \in Ids /\ Active(lat.id)
    BY FoundShare DEF FoundPcs, ComparePcs
  <2>2. \A k \in ReadKinds :
          AsRead(shares[lat.id].assoc, k, ToSet(cr.spec.list[k]), lat.list[k])
    BY DEF Approached, HasRead
  <2> QED
    BY <2>1, <2>2, SameIsFull
<1> QED
  BY <1>1, <1>2 DEF AfterLists, Finish

\* The steps of sdkUpdate and of reading.
LEMMA StepFoundShared ==
  ASSUME NothingRefused, Typed, OnTheShare, Approached, cr'.spec = cr.spec,
         \/ GetPermissionArns \/ GetPrincipals \/ GetResources \/ PatchLatestStatus \/ Untag
         \/ Tag \/ DisassociatePermission \/ AssociatePermission \/ UpdateResourceShare
  PROVE  Approached'
<1>0. AtRest
  BY StepAtRest
<1>1. pc \in FoundPcs /\ pc \notin {"dis", "as"}
  BY DEF GetPermissionArns, GetPrincipals, GetResources, PatchLatestStatus, Untag,
     Tag, DisassociatePermission, AssociatePermission, UpdateResourceShare, FoundPcs
<1>2. lat.id \in Ids /\ Active(lat.id) /\ des.arn = lat.id
  BY <1>1, FoundShare
<1>3. \A i \in Ids : shares'[i].state = shares[i].state /\ shares'[i].assoc = shares[i].assoc
  BY <1>0 DEF AtRest
<1>a. \A i \in Ids, k \in ReadKinds :
        shares'[i].state = "active" => Near(shares'[i].assoc, k, ToSet(cr'.spec.list[k]))
  BY <1>3 DEF Approached, Active
<1>b. FailDesired("error") \/ FailLatest("error") =>
        pc' = "done" /\ out'.synced = "error" /\ out'.arn \in {lat.id, des.arn}
  BY DEF FailDesired, FailLatest, FailWith, Finish
<1>c. pc \in ComparePcs /\ (AfterTags \/ AfterPermissions) =>
        \/ pc' \in ComparePcs
        \/ /\ Full(shares[lat.id].assoc, cr.spec.list)
           /\ pc' = "update" \/ (pc' = "done" /\ out' = Updated)
  BY AfterIs
<1>4. ASSUME UNCHANGED <<cr, des, out>>, lat'.id = lat.id,
             pc' \in {"findprincipals", "findresources", "status"},
             \A k \in ReadKinds : pc' \in HasRead(k) =>
                AsRead(shares[lat.id].assoc, k, ToSet(cr.spec.list[k]), lat'.list[k])
      PROVE  Approached'
  <2> QED
    BY <1>2, <1>3, <1>4, <1>a DEF Approached, Active, Quiet
<1>5. CASE GetPermissionArns
  <2>1. CASE FailDesired("error") /\ UNCHANGED lat
    BY <1>0, <1>1, <1>5, <1>b, <2>1, GoOnShared DEF GetPermissionArns
  <2>2. CASE lat' = [lat EXCEPT !.perms = shares[lat.id].perms] /\ pc' = "findprincipals"
             /\ UNCHANGED out
    <3>1. lat'.id = lat.id
      BY <2>2 DEF Typed, MemOK, Latest
    <3>2. \A k \in ReadKinds : pc' \notin HasRead(k)
      BY <2>2 DEF HasRead, ComparePcs
    <3>3. UNCHANGED <<cr, des, out>>
      BY <1>5, <2>2 DEF GetPermissionArns
    <3> QED
      BY <1>4, <2>2, <3>1, <3>2, <3>3
  <2> QED
    BY <1>5, <2>1, <2>2 DEF GetPermissionArns
<1>6. CASE GetPrincipals
  <2>1. CASE FailDesired("error") /\ UNCHANGED lat
    BY <1>0, <1>1, <1>6, <1>b, <2>1, GoOnShared DEF GetPrincipals
  <2>2. CASE lat' = [lat EXCEPT !.list["principal"] = Read("principal")]
             /\ pc' = "findresources" /\ UNCHANGED out
    <3>1. lat'.id = lat.id
          /\ lat'.list["principal"] = In(shares[lat.id].assoc, "principal", "associated")
      BY <2>2 DEF Typed, MemOK, Latest, Kinds, Read, InState, In
    <3>2. \A k \in ReadKinds : pc' \in HasRead(k) => k = "principal"
      BY <2>2 DEF HasRead, ComparePcs, ReadKinds
    <3>3. UNCHANGED <<cr, des, out>>
      BY <1>6, <2>2 DEF GetPrincipals
    <3> QED
      BY <1>4, <2>2, <3>1, <3>2, <3>3 DEF AsRead
  <2> QED
    BY <1>6, <2>1, <2>2 DEF GetPrincipals
<1>7. CASE GetResources
  <2>1. CASE FailDesired("error") /\ UNCHANGED lat
    BY <1>0, <1>1, <1>7, <1>b, <2>1, GoOnShared DEF GetResources
  <2>2. CASE lat' = [lat EXCEPT !.list["resource"] = Read("resource")] /\ NoFault
    <3>1. lat'.id = lat.id
          /\ lat'.list["resource"] = In(shares[lat.id].assoc, "resource", "associated")
          /\ lat'.list["principal"] = lat.list["principal"]
      BY <2>2 DEF Typed, MemOK, Latest, Kinds, Read, InState, In
    <3>2. pc = "findresources" /\ UNCHANGED <<cr, des>>
      BY <1>7 DEF GetResources
    <3>3. \A k \in ReadKinds :
            AsRead(shares[lat.id].assoc, k, ToSet(cr.spec.list[k]), lat'.list[k])
      BY <3>1, <3>2 DEF AsRead, ReadKinds, HasRead, Approached
    <3>4. CASE UNCHANGED out /\ pc' = "status"
      BY <1>4, <3>1, <3>2, <3>3, <3>4
    <3>5. CASE FailLatest("True") /\ ~SpecDiffers(lat')
      <4>1. Full(shares[lat.id].assoc, cr.spec.list)
        BY <1>2, <3>2, <3>3, <3>5, SameIsFull DEF SpecDiffers
      <4>2. pc' = "done" /\ out'.arn = lat.id /\ out'.synced = "True"
        BY <3>5 DEF FailLatest, FailWith, Finish
      <4> QED
        BY <1>2, <1>3, <1>a, <4>1, <4>2
           DEF Approached, Active, Quiet, HasRead, ComparePcs
    <3>6. ~des.deleting
      BY <3>2 DEF OnTheShare
    <3> QED
      BY <1>7, <1>b, <2>1, <3>4, <3>5, <3>6 DEF GetResources
  <2> QED
    BY <1>7, <2>1, <2>2 DEF GetResources
<1>8. CASE PatchLatestStatus
  <2>3. pc = "status" /\ (pc' = "untag" \/ AfterTags \/ FailLatest("error"))
    BY <1>8 DEF PatchLatestStatus
  <2>4. UNCHANGED <<des, lat>>
    BY <1>8 DEF PatchLatestStatus
  <2> QED
    BY <1>0, <1>1, <1>b, <1>c, <2>3, <2>4, GoOnShared DEF ComparePcs
<1>9. CASE Untag
  <2>1. UNCHANGED <<cr, des, lat>> /\ pc = "untag" /\ (pc' = "tag" \/ FailLatest("error"))
    BY <1>9 DEF Untag, Call, NoCall, GoTo
  <2> QED
    BY <1>0, <1>1, <1>b, <2>1, GoOnShared DEF ComparePcs
<1>10. CASE Tag
  <2>1. UNCHANGED <<cr, des, lat>> /\ pc = "tag" /\ (AfterTags \/ FailLatest("error"))
    BY <1>10 DEF Tag, Call, NoCall
  <2> QED
    BY <1>0, <1>1, <1>b, <1>c, <2>1, GoOnShared DEF ComparePcs
<1>11. CASE DisassociatePermission
  <2>1. UNCHANGED <<cr, des, lat>> /\ pc = "disperm"
        /\ (pc' \in {"disperm", "asperm"} \/ FailLatest("error"))
    BY <1>11 DEF DisassociatePermission, Call, NoCall, GoTo
  <2> QED
    BY <1>0, <1>1, <1>b, <2>1, GoOnShared DEF ComparePcs
<1>12. CASE AssociatePermission
  <2>1. UNCHANGED <<cr, des, lat>> /\ pc = "asperm"
        /\ (pc' = "asperm" \/ AfterPermissions \/ FailLatest("error"))
    BY <1>12 DEF AssociatePermission, Call, NoCall
  <2> QED
    BY <1>0, <1>1, <1>b, <1>c, <2>1, GoOnShared DEF ComparePcs
<1>13. CASE UpdateResourceShare
  <2>1. UNCHANGED <<cr, des, lat>> /\ pc = "update"
        /\ (Finish(Updated) \/ FailLatest("error"))
    BY <1>13 DEF UpdateResourceShare, Call, NoCall
  <2>2. Full(shares[lat.id].assoc, cr.spec.list)
    BY <2>1 DEF Approached
  <2> QED
    BY <1>0, <1>1, <1>b, <2>1, <2>2, GoOnShared DEF Finish
<1> QED
  BY <1>5, <1>6, <1>7, <1>8, <1>9, <1>10, <1>11, <1>12, <1>13


\* The two calls of syncResourceShareResources.
LEMMA StepListsShared ==
  ASSUME NothingRefused, Typed, OnTheShare, Approached, Disassociate \/ Associate
  PROVE  Approached'
<1> DEFINE i == lat.id
           a == shares[i].assoc
           b == shares'[i].assoc
           W(k) == ToSet(cr.spec.list[k])
           L(k) == lat.list[k]
<1>0. UNCHANGED <<cr, des, lat>> /\ pc \in {"dis", "as"}
  BY DEF Disassociate, Associate
<1>1. i \in Ids /\ Active(i) /\ des.arn = i
  BY <1>0, FoundShare DEF FoundPcs
<1>2. \A k \in ReadKinds :
        /\ k \in Kinds /\ W(k) \in SUBSET Entities /\ L(k) \in SUBSET Entities
        /\ Disassociated[k] = L(k) \ W(k)
        /\ W(k) \subseteq L(k) => Associated[k] = {}
        /\ ~(W(k) \subseteq L(k)) => \E v \in W(k) \ L(k) : Associated[k] = (L(k) \ W(k)) \cup {v}
  <2>1. des \in Desired /\ lat \in Latest /\ ReadKinds \subseteq Kinds
    BY DEF Typed, MemOK, ReadKinds, Kinds
  <2>2. des.spec.list = cr.spec.list
    BY <1>0 DEF OnTheShare
  <2> QED
    BY <2>1, <2>2, CallsAre
<1>3. \A k \in ReadKinds : Near(a, k, W(k))
  BY <1>1 DEF Approached
<1>4. a \in [Kinds -> [Entities -> Status]] /\ shares \in [Ids -> Share]
  BY <1>1 DEF Typed, Share
<1>b. ASSUME NEW sets, NEW s, shares' = [shares EXCEPT ![i].assoc = Associations(@, sets, s)]
      PROVE  /\ \A k \in ReadKinds : Moved(a, b, k, sets[k], s)
             /\ \A j \in Ids : shares'[j].state = shares[j].state
             /\ \A j \in Ids \ {i} : shares'[j].assoc = shares[j].assoc
  <2>1. b = Associations(a, sets, s)
    BY <1>1, <1>4, <1>b DEF Share
  <2>2. \A k \in ReadKinds : Moved(a, b, k, sets[k], s)
    BY <1>2, <2>1 DEF Moved, Associations
  <2> QED
    BY <1>1, <1>4, <1>b, <2>2 DEF Share
\* How the step ends, with what it has made of the associations.
<1>5. ASSUME \A j \in Ids : shares'[j].state = shares[j].state,
             \A j \in Ids \ {i} : shares'[j].assoc = shares[j].assoc,
             \A k \in ReadKinds : Near(b, k, W(k)),
             \/ pc' = "done" /\ out'.synced = "error" /\ out'.arn = i
             \/ pc' = "as" /\ \A k \in ReadKinds : Fits(b, k, W(k), L(k))
             \/ /\ \A k \in ReadKinds : Held(b, k) = W(k)
                /\ pc' = "update" \/ (pc' = "done" /\ out' = Updated)
      PROVE  Approached'
  <2>1. out'.arn = i \/ pc' # "done"
    BY <1>1, <1>5 DEF Updated
  <2>3. \A j \in Ids, k \in ReadKinds :
          Active(j)' => Near(shares'[j].assoc, k, ToSet(cr'.spec.list[k]))
    BY <1>0, <1>5 DEF Approached, Active
  <2>4. \A k \in ReadKinds : pc' \notin HasRead(k)
    BY <1>5 DEF HasRead, ComparePcs
  <2>5. ~Quiet'
    BY <1>5 DEF Quiet
  <2>6. pc' \in {"done", "update"} =>
          Full(b, cr'.spec.list) \/ (pc' = "done" /\ out'.synced = "error")
    BY <1>0, <1>5 DEF Full
  <2>7. pc' = "done" => out'.synced \in {"True", "error"}
    BY <1>5 DEF Updated
  <2>8. pc' = "as" => \A k \in ReadKinds : Fits(b, k, W(k), L(k))
    BY <1>5
  <2>9. UNCHANGED lat
    BY <1>0
  <2> HIDE DEF a
  <2> QED
    BY <1>0, <1>1, <2>1, <2>3, <2>4, <2>5, <2>6, <2>7, <2>8, <2>9 DEF Approached
<1>6. CASE Disassociate
  <2>1. \A k \in ReadKinds : AsRead(a, k, W(k), L(k))
    BY <1>6 DEF Approached, HasRead, ComparePcs, Disassociate
  <2>2. CASE UNCHANGED shares /\ FailLatest("error")
    BY <1>3, <1>5, <2>2 DEF FailLatest, FailWith, Finish
  <2>3. CASE AllOf(Disassociated) = {} /\ UNCHANGED shares /\ pc' = "as"
    <3>1. \A k \in ReadKinds : L(k) \subseteq W(k)
      BY <1>2, <2>3 DEF AllOf
    <3>2. \A k \in ReadKinds : Fits(a, k, W(k), L(k))
      <4> HIDE DEF a, W, L
      <4> QED
        BY <1>2, <1>3, <2>1, <3>1, NoneDropped
    <3> QED
      BY <1>3, <1>5, <2>3, <3>2
  <2>4. CASE /\ shares' = [shares EXCEPT ![i].assoc =
                             Associations(@, Disassociated, "disassociating")]
             /\ pc' = "as" \/ FailLatest("error")
    <3>0. \A k \in ReadKinds : Moved(a, b, k, Disassociated[k], "disassociating")
      BY <1>b, <2>4
    <3>1. \A k \in ReadKinds : Moved(a, b, k, L(k) \ W(k), "disassociating")
      <4> HIDE DEF a, b, W, L
      <4> QED
        BY <1>2, <3>0
    <3>2. \A k \in ReadKinds : Near(b, k, W(k)) /\ Fits(b, k, W(k), L(k))
      <4> HIDE DEF a, b, W, L
      <4> QED
        BY <1>2, <1>3, <2>1, <3>1, Dropped
    <3>3. /\ \A j \in Ids : shares'[j].state = shares[j].state
          /\ \A j \in Ids \ {i} : shares'[j].assoc = shares[j].assoc
      BY <1>b, <2>4
    <3> QED
      BY <1>5, <2>4, <3>2, <3>3 DEF FailLatest, FailWith, Finish
  <2> QED
    BY <1>6, <2>2, <2>3, <2>4 DEF Disassociate, Call, NoCall, GoTo
<1>7. CASE Associate
  <2> DEFINE new == [k \in Kinds |-> Associated[k] \ (InState(i, k, "associated")
                                                        \cup InState(i, k, "associating"))]
  <2>1. \A k \in ReadKinds : Fits(a, k, W(k), L(k))
    BY <1>7 DEF Approached, Associate
  <2>2. \A k \in ReadKinds : /\ W(k) \subseteq L(k) => new[k] = {}
                             /\ ~(W(k) \subseteq L(k)) =>
                                  \E v \in W(k) \ L(k) : new[k] = {v} \ Held(a, k)
    <3>1. \A k \in ReadKinds : new[k] = Associated[k] \ Held(a, k)
      BY <1>2 DEF Held, In, InState
    <3>2. \A k \in ReadKinds : ~(W(k) \subseteq L(k)) => L(k) \subseteq W(k)
      BY <2>1 DEF Fits
    <3> HIDE DEF new, a, W, L
    <3> QED
      BY <1>2, <3>1, <3>2
  <2>3. \A e : ErrorFor(e) = "error"
    BY DEF ErrorFor, NothingRefused
  <2>4. AfterLists => pc' = "update" \/ (pc' = "done" /\ out' = Updated)
    BY DEF AfterLists, Finish
  <2>5. CASE UNCHANGED shares /\ FailLatest("error")
    BY <1>3, <1>5, <2>5 DEF FailLatest, FailWith, Finish
  <2>6. ASSUME NEW N, \A k \in ReadKinds : Moved(a, b, k, N[k], "associating"),
               \A j \in Ids : shares'[j].state = shares[j].state,
               \A j \in Ids \ {i} : shares'[j].assoc = shares[j].assoc,
               \A k \in ReadKinds :
                  /\ W(k) \subseteq L(k) => N[k] = {}
                  /\ ~(W(k) \subseteq L(k)) => \E v \in W(k) \ L(k) : N[k] = {v} \ Held(a, k),
               AfterLists \/ FailLatest("error")
        PROVE  Approached'
    <3>1. \A k \in ReadKinds : Held(b, k) = W(k)
      <4> HIDE DEF a, b, W, L
      <4> QED
        BY <1>2, <1>3, <2>1, <2>6, Supplied
    <3>2. \A k \in ReadKinds : Near(b, k, W(k))
      BY <3>1 DEF Near
    <3> QED
      BY <1>5, <2>4, <2>6, <3>1, <3>2 DEF FailLatest, FailWith, Finish
  <2>7. CASE AllOf(Associated) = {} /\ UNCHANGED shares /\ AfterLists
    <3> DEFINE N == [k \in ReadKinds |-> {}]
    <3>1. \A k \in ReadKinds : W(k) \subseteq L(k) /\ Moved(a, b, k, N[k], "associating")
      <4>1. \A k \in ReadKinds : Associated[k] = {}
        BY <1>2, <2>7 DEF AllOf
      <4> QED
        BY <1>2, <2>7, <4>1 DEF Moved
    <3>2. \A k \in ReadKinds : N[k] = {}
      OBVIOUS
    <3> HIDE DEF N
    <3> QED
      BY <2>6, <2>7, <3>1, <3>2
  <2>8. CASE /\ shares' = [shares EXCEPT ![i].assoc = Associations(@, new, "associating")]
             /\ AfterLists \/ FailLatest("error")
    <3> HIDE DEF new
    <3> QED
      BY <1>b, <2>2, <2>6, <2>8
  <2> QED
    BY <1>7, <2>3, <2>5, <2>7, <2>8 DEF Associate, Call, NoCall
<1> QED
  BY <1>6, <1>7

\* RAM completes what it has begun.
LEMMA StepProgressShared ==
  ASSUME NothingRefused, Typed, OnTheShare, Approached,
         NEW i \in Ids, NEW k \in Kinds, NEW e \in Entities, Progress(i, k, e)
  PROVE  Approached'
<1> DEFINE a == shares[i].assoc
           b == shares'[i].assoc
<1>0. UNCHANGED <<cr, pc, des, lat, out, queued>>
  BY DEF Progress, mem
<1>1. a \in [Kinds -> [Entities -> Status]] /\ shares \in [Ids -> Share]
  BY DEF Typed, Share
<1>2. \/ a[k][e] = "associating" /\ shares' = [shares EXCEPT ![i].assoc[k][e] = "associated"]
      \/ a[k][e] = "disassociating" /\ shares' = [shares EXCEPT ![i].assoc[k][e] = "none"]
  BY DEF Progress, NothingRefused, Fault
<1>3. /\ \A j \in Ids : shares'[j].state = shares[j].state
      /\ \A j \in Ids \ {i} : shares'[j].assoc = shares[j].assoc
      /\ \A h \in Kinds \ {k} : b[h] = a[h]
      /\ \/ a[k][e] = "associating" /\ b[k] = [a[k] EXCEPT ![e] = "associated"]
         \/ a[k][e] = "disassociating" /\ b[k] = [a[k] EXCEPT ![e] = "none"]
  <2>1. PICK x : /\ shares' = [shares EXCEPT ![i].assoc[k][e] = x]
                 /\ \/ a[k][e] = "associating" /\ x = "associated"
                    \/ a[k][e] = "disassociating" /\ x = "none"
    BY <1>2
  <2> DEFINE s == [shares[i] EXCEPT !.assoc = [a EXCEPT ![k] = [a[k] EXCEPT ![e] = x]]]
  <2>2. shares' = [shares EXCEPT ![i] = s]
    BY <2>1
  <2>3. s.state = shares[i].state /\ s.assoc = [a EXCEPT ![k] = [a[k] EXCEPT ![e] = x]]
    BY <1>1 DEF Share
  <2> HIDE DEF s
  <2>4. \A j \in Ids : shares'[j] = IF j = i THEN s ELSE shares[j]
    BY <1>1, <2>2
  <2>5. b = [a EXCEPT ![k] = [a[k] EXCEPT ![e] = x]]
    BY <2>3, <2>4
  <2> HIDE DEF a, b
  <2>6. b[k] = [a[k] EXCEPT ![e] = x] /\ \A h \in Kinds \ {k} : b[h] = a[h]
    BY <1>1, <2>5
  <2> QED
    BY <2>1, <2>3, <2>4, <2>6
<1>4. \/ a[k][e] = "associating" /\ Moved(a, b, k, {e}, "associated")
      \/ a[k][e] = "disassociating" /\ Moved(a, b, k, {e}, "none")
  BY <1>1, <1>3 DEF Moved
<1>5. ASSUME NEW W \in SUBSET Entities, NEW L \in SUBSET Entities, NEW h \in Kinds
      PROVE  /\ Near(a, h, W) => Near(b, h, W)
             /\ Near(a, h, W) /\ AsRead(a, h, W, L) => AsRead(b, h, W, L)
             /\ Near(a, h, W) /\ Fits(a, h, W, L) => Fits(b, h, W, L)
             /\ Held(b, h) = Held(a, h)
  <2>1. CASE h = k
    <3> HIDE DEF a, b
    <3> QED
      BY <1>4, <2>1, Progressed
  <2>2. CASE h # k
    BY <1>3, <2>2 DEF Near, OneMissing, TooMany, AsRead, Fits, Held, In
  <2> QED
    BY <2>1, <2>2
<1>7. \A h \in ReadKinds : h \in Kinds /\ ToSet(cr.spec.list[h]) \in SUBSET Entities
                           /\ lat.list[h] \in SUBSET Entities
  <2>1. cr.spec.list \in [Kinds -> Seq(Entities)] /\ lat.list \in [Kinds -> SUBSET Entities]
    BY SpecsAssumption DEF Typed, Cluster, SpecFields, MemOK, Latest
  <2> QED
    BY <2>1 DEF ReadKinds, Kinds, ToSet
<1>8. \A j \in Ids, h \in ReadKinds :
        LET W == ToSet(cr.spec.list[h])
            L == lat.list[h]
            c == shares[j].assoc
            d == shares'[j].assoc
        IN  /\ Near(c, h, W) => Near(d, h, W)
            /\ Near(c, h, W) /\ AsRead(c, h, W, L) => AsRead(d, h, W, L)
            /\ Near(c, h, W) /\ Fits(c, h, W, L) => Fits(d, h, W, L)
            /\ Held(d, h) = Held(c, h)
  BY <1>3, <1>5, <1>7
<1>9. \A j \in Ids : Full(shares'[j].assoc, cr.spec.list) = Full(shares[j].assoc, cr.spec.list)
  BY <1>8 DEF Full
<1>10. pc \in FoundPcs => lat.id \in Ids /\ Active(lat.id)
  BY FoundShare
<1>11. \A j \in Ids : Active(j)' = Active(j)
  BY <1>3 DEF Active
<1>12. \A h \in ReadKinds : pc \in FoundPcs => Near(shares[lat.id].assoc, h, ToSet(cr.spec.list[h]))
  BY <1>10 DEF Approached
<1>13. \A h \in ReadKinds : HasRead(h) \subseteq FoundPcs
  BY DEF HasRead, ComparePcs, FoundPcs
<1>14. {"as", "update"} \subseteq FoundPcs
  BY DEF FoundPcs
<1>15. \A j \in Ids, h \in ReadKinds :
         Active(j)' => Near(shares'[j].assoc, h, ToSet(cr.spec.list[h]))
  BY <1>8, <1>11 DEF Approached
<1>16. \A h \in ReadKinds : pc \in HasRead(h) =>
         AsRead(shares'[lat.id].assoc, h, ToSet(cr.spec.list[h]), lat.list[h])
  BY <1>8, <1>10, <1>12, <1>13 DEF Approached
<1>17. pc = "as" => \A h \in ReadKinds :
         Fits(shares'[lat.id].assoc, h, ToSet(cr.spec.list[h]), lat.list[h])
  BY <1>8, <1>10, <1>12, <1>14 DEF Approached
<1>18. pc = "update" => Full(shares'[lat.id].assoc, cr.spec.list)
  BY <1>9, <1>10, <1>14 DEF Approached
<1>19. pc = "done" /\ out.synced = "True" =>
         out.arn \in Ids /\ Full(shares'[out.arn].assoc, cr.spec.list)
  BY <1>9 DEF Approached
<1>20. Quiet => cr.synced = "True" /\ cr.arn \in Ids /\ Full(shares'[cr.arn].assoc, cr.spec.list)
  BY <1>9 DEF Approached
<1> QED
  BY <1>0, <1>15, <1>16, <1>17, <1>18, <1>19, <1>20 DEF Approached, Quiet


\* Steps outside of a reconcile that has found the share: with the associations
\* as they are, and no call in hand that looks at what has been read.
LEMMA ElsewhereShared ==
  ASSUME Approached, AtRest, cr'.spec = cr.spec, pc' \notin FoundPcs \cup {"done"}, ~Quiet'
  PROVE  Approached'
<1>1. \A i \in Ids : shares'[i].state = shares[i].state /\ shares'[i].assoc = shares[i].assoc
  BY DEF AtRest
<1>3. \A i \in Ids, k \in ReadKinds :
        Active(i)' => Near(shares'[i].assoc, k, ToSet(cr.spec.list[k]))
  BY <1>1 DEF Approached, Active
<1>4. \A k \in ReadKinds : pc' \notin HasRead(k)
  BY DEF HasRead, ComparePcs, FoundPcs
<1>5. pc' \notin {"as", "update", "done"}
  BY DEF FoundPcs
<1> QED
  BY <1>3, <1>4, <1>5 DEF Approached

\* Where a reconcile ends that has not looked at the associations.
LEMMA FailedShared ==
  ASSUME Approached, AtRest, cr'.spec = cr.spec, pc' = "done", out'.synced = "error"
  PROVE  Approached'
<1>1. \A i \in Ids : shares'[i].state = shares[i].state /\ shares'[i].assoc = shares[i].assoc
  BY DEF AtRest
<1>3. \A i \in Ids, k \in ReadKinds :
        Active(i)' => Near(shares'[i].assoc, k, ToSet(cr.spec.list[k]))
  BY <1>1 DEF Approached, Active
<1>4. \A k \in ReadKinds : pc' \notin HasRead(k)
  BY DEF HasRead, ComparePcs
<1>5. ~Quiet'
  BY DEF Quiet
<1> QED
  BY <1>3, <1>4, <1>5 DEF Approached

LEMMA StepReconcileShared ==
  ASSUME NothingRefused, Typed, AtMostOneShare, OnTheShare, Approached, Live, cr'.spec = cr.spec,
         StartReconcile \/ ResolveReferences \/ SdkFind \/ MarkManaged \/ PatchStatus
  PROVE  Approached'
<1>1. AtRest
  BY StepAtRest
<1>2. \A i \in Ids : shares'[i].state = shares[i].state /\ shares'[i].assoc = shares[i].assoc
  BY <1>1 DEF AtRest
<1>3. FailDesired("error") => pc' = "done" /\ out'.synced = "error"
  BY DEF FailDesired, FailWith, Finish
<1>4. CASE StartReconcile
  BY <1>1, <1>4, ElsewhereShared DEF StartReconcile, FoundPcs, Quiet
<1>5. CASE ResolveReferences
  BY <1>1, <1>3, <1>5, ElsewhereShared, FailedShared
     DEF ResolveReferences, Unresolved, FoundPcs, Quiet
<1>6. CASE SdkFind
  <2>1. CASE FailDesired("error")
    BY <1>1, <1>3, <2>1, FailedShared
  <2>2. CASE pc' \in {"mark", "create"}
    BY <1>1, <2>2, ElsewhereShared DEF FoundPcs, Quiet
  <2>3. CASE pc' = "findperms"
    <3>1. \A j \in Ids, k \in ReadKinds :
            Active(j)' => Near(shares'[j].assoc, k, ToSet(cr.spec.list[k]))
      BY <1>2 DEF Approached, Active
    <3>2. (\A k \in ReadKinds : pc' \notin HasRead(k)) /\ ~Quiet'
      BY <2>3 DEF HasRead, ComparePcs, Quiet
    <3> QED
      BY <2>3, <3>1, <3>2 DEF Approached
  <2>4. pc = "find" /\ ~des.deleting
    BY <1>6 DEF SdkFind, OnTheShare
  <2> QED
    BY <1>6, <2>1, <2>2, <2>3, <2>4 DEF SdkFind
<1>7. CASE MarkManaged
  BY <1>1, <1>3, <1>7, ElsewhereShared, FailedShared DEF MarkManaged, FoundPcs, Quiet
<1>8. CASE PatchStatus
  <2>1. pc = "done" /\ pc' = "idle"
    BY <1>8 DEF PatchStatus
  <2>2. CASE UNCHANGED cr /\ queued' = TRUE
    BY <1>1, <2>1, <2>2, ElsewhereShared DEF FoundPcs, Quiet
  <2>3. CASE /\ cr' = [cr EXCEPT !.arn = out.arn, !.owned = out.owned, !.synced = out.synced]
             /\ queued' = (queued \/ out.synced = "error")
    <3>1. cr'.arn = out.arn /\ cr'.synced = out.synced
      BY <2>3 DEF Typed, Cluster
    <3>2. \A j \in Ids, k \in ReadKinds :
            Active(j)' => Near(shares'[j].assoc, k, ToSet(cr.spec.list[k]))
      BY <1>2 DEF Approached, Active
    <3>3. \A k \in ReadKinds : pc' \notin HasRead(k)
      BY <2>1 DEF HasRead, ComparePcs
    <3>4. ASSUME Quiet' PROVE cr'.synced = "True" /\ cr'.arn \in Ids
                              /\ Full(shares'[cr'.arn].assoc, cr.spec.list)
      <4>1. out.synced = "True"
        BY <2>1, <2>3, <3>4 DEF Quiet, Approached
      <4>2. out.arn \in Ids /\ Full(shares[out.arn].assoc, cr.spec.list)
        BY <2>1, <4>1 DEF Approached
      <4> QED
        BY <1>2, <3>1, <4>1, <4>2
    <3> QED
      BY <2>1, <3>2, <3>3, <3>4 DEF Approached
  <2> QED
    BY <1>8, <2>2, <2>3 DEF PatchStatus, Live
<1> QED
  BY <1>4, <1>5, <1>6, <1>7, <1>8

LEMMA StepCreateShared ==
  ASSUME NothingRefused, Typed, OnTheShare, Approached, AtMostOneShare', SdkCreate
  PROVE  Approached'
<1> DEFINE unused == {i \in Ids : shares[i].state = "none"}
           c == Created(des.spec)
<1>0. UNCHANGED <<cr, des, lat>> /\ pc = "create" /\ pc' = "done"
  BY DEF SdkCreate, FailDesired, FailWith, Finish
<1>1. \A e : ErrorFor(e) = "error"
  BY DEF ErrorFor, NothingRefused
<1>2. CASE UNCHANGED shares /\ FailDesired("error")
  <2>1. AtRest
    BY <1>2 DEF AtRest
  <2> QED
    BY <1>0, <1>2, <2>1, FailedShared DEF FailDesired, FailWith, Finish
<1>3. ASSUME unused # {}, NEW id, id = Min(unused), shares' = [shares EXCEPT ![id] = c],
             \/ out' = [arn |-> id, owned |-> TRUE, synced |-> "True"]
             \/ out'.synced = "error"
      PROVE  Approached'
  <2>1. id \in Ids
    <3>1. Ids \subseteq Nat
      BY BoundAssumption DEF Ids
    <3>2. id \in unused
      BY <1>3, <3>1, MinIs
    <3> QED
      BY <3>2
  <2>2. /\ c.state = "active"
        /\ c.assoc = Associations(NoAssociation, [k \in Kinds |-> ToSet(des.spec.list[k])],
                                  "associating")
    BY DEF Created
  <2>3. des.spec.list \in [Kinds -> Seq(Entities)] /\ des.spec.list = cr.spec.list
    BY <1>0 DEF OnTheShare, Typed, MemOK, Desired, SpecFields
  <2>4. \A k \in ReadKinds : Held(c.assoc, k) = ToSet(cr.spec.list[k])
    <3> SUFFICES ASSUME NEW k \in ReadKinds PROVE Held(c.assoc, k) = ToSet(cr.spec.list[k])
      OBVIOUS
    <3>1. k \in Kinds /\ ToSet(cr.spec.list[k]) \subseteq Entities
      BY <2>3 DEF ReadKinds, Kinds, ToSet
    <3>2. \A e \in Entities : c.assoc[k][e] = IF e \in ToSet(des.spec.list[k]) THEN "associating"
                                              ELSE "none"
      BY <2>2, <3>1 DEF Associations, NoAssociation
    <3> HIDE DEF c
    <3> QED
      BY <2>3, <3>1, <3>2 DEF Held, In
  <2> HIDE DEF c
  <2>5. \A j \in Ids : shares'[j] = IF j = id THEN c ELSE shares[j]
    BY <1>3, <2>1 DEF Typed
  <2>6. \A j \in Ids : Active(j)' => j = id
    <3>1. Active(id)'
      BY <2>1, <2>2, <2>5 DEF Active
    <3> QED
      BY <2>1, <3>1 DEF AtMostOneShare
  <2>7. shares'[id].assoc = c.assoc
    BY <2>1, <2>5
  <2>8. \A j \in Ids, k \in ReadKinds :
           Active(j)' => Near(shares'[j].assoc, k, ToSet(cr'.spec.list[k]))
    BY <1>0, <2>4, <2>6, <2>7 DEF Near
  <2>9. Full(shares'[id].assoc, cr'.spec.list)
    BY <1>0, <2>4, <2>7 DEF Full
  <2>10. out'.synced = "error" \/ (out'.synced = "True" /\ out'.arn = id)
    BY <1>3
  <2>11. (\A k \in ReadKinds : pc' \notin HasRead(k)) /\ ~Quiet'
    BY <1>0 DEF HasRead, ComparePcs, Quiet
  <2> QED
    BY <1>0, <2>1, <2>8, <2>9, <2>10, <2>11 DEF Approached
<1> QED
  BY <1>1, <1>2, <1>3 DEF SdkCreate, FailWith, FailDesired, Finish

LEMMA StepEditShared ==
  ASSUME CarefulUser, Typed, AtMostOneShare, OnTheShare, Approached, EditSpec
  PROVE  Approached'
<1>1. PICK s \in Specs : IsSimple(s) /\ cr' = [cr EXCEPT !.spec = s]
  BY DEF EditSpec, CarefulUser
<1>2. /\ cr'.spec = s /\ s \in SpecFields /\ cr.spec \in SpecFields
      /\ UNCHANGED <<shares, pc>> /\ pc = "idle" /\ queued' = TRUE
  BY <1>1, SpecsAssumption DEF Typed, Cluster, EditSpec, CarefulUser, Quiet, mem
<1>3. Quiet /\ ~InTransit
  BY DEF EditSpec, CarefulUser
<1>4. cr.arn \in Ids /\ Active(cr.arn) /\ Full(shares[cr.arn].assoc, cr.spec.list)
  BY <1>3 DEF Approached, OnTheShare
<1>5. \A k \in ReadKinds : Near(shares[cr.arn].assoc, k, ToSet(s.list[k]))
  <2> SUFFICES ASSUME NEW k \in ReadKinds PROVE Near(shares[cr.arn].assoc, k, ToSet(s.list[k]))
    OBVIOUS
  <2>1. k \in Kinds /\ s.list[k] \in Seq(Entities) /\ cr.spec.list[k] \in Seq(Entities)
    BY <1>2 DEF ReadKinds, Kinds, SpecFields
  <2>2. SimpleChange(cr.spec.list[k], s.list[k])
    BY <1>1, <2>1 DEF IsSimple
  <2>3. In(shares[cr.arn].assoc, k, "associating") = {}
    BY <1>3, <1>4, <2>1 DEF InTransit, InState, In
  <2>4. Held(shares[cr.arn].assoc, k) = ToSet(cr.spec.list[k])
    BY <1>4 DEF Full
  <2> QED
    BY <2>1, <2>2, <2>3, <2>4, EditKeepsNear
<1>6. \A i \in Ids : Active(i) => i = cr.arn
  BY <1>4 DEF AtMostOneShare
<1>7. \A i \in Ids, k \in ReadKinds :
        Active(i)' => Near(shares'[i].assoc, k, ToSet(cr'.spec.list[k]))
  BY <1>2, <1>5, <1>6 DEF Active
<1>8. (\A k \in ReadKinds : pc' \notin HasRead(k)) /\ ~Quiet'
  BY <1>2 DEF HasRead, ComparePcs, Quiet
<1> QED
  BY <1>2, <1>7, <1>8 DEF Approached

LEMMA StepSharedInv ==
  ASSUME CarefulUser, NothingRefused, Typed, AtMostOneShare, AtMostOneShare', SharedInv,
         [Next]_vars
  PROVE  SharedInv'
<1> SUFFICES ASSUME Live' PROVE OnTheShare' /\ Approached'
  BY DEF SharedInv
<1>0. Live /\ ~DeleteResource /\ (~EditSpec => cr'.spec = cr.spec)
  BY StepLive
<1>1. OnTheShare /\ Approached
  BY <1>0 DEF SharedInv
<1>2. OnTheShare'
  BY <1>1, StepOnTheShare DEF NothingRefused, NobodyElse
<1> SUFFICES Approached'
  BY <1>2
<1>3. CASE EditSpec
  BY <1>1, <1>3, StepEditShared
<1>4. CASE /\ ~EditSpec
           /\ \/ GetPermissionArns \/ GetPrincipals \/ GetResources \/ PatchLatestStatus \/ Untag
              \/ Tag \/ DisassociatePermission \/ AssociatePermission \/ UpdateResourceShare
  BY <1>0, <1>1, <1>4, StepFoundShared
<1>5. CASE Disassociate \/ Associate
  BY <1>1, <1>5, StepListsShared
<1>6. CASE /\ ~EditSpec
           /\ StartReconcile \/ ResolveReferences \/ SdkFind \/ MarkManaged \/ PatchStatus
  BY <1>0, <1>1, <1>6, StepReconcileShared
<1>7. CASE SdkCreate
  BY <1>1, <1>7, StepCreateShared
<1>8. CASE \E i \in Ids, k \in Kinds, e \in Entities : Progress(i, k, e)
  BY <1>1, <1>8, StepProgressShared
<1>9. ~(SdkDelete \/ MarkUnmanaged \/ DeletedElsewhere \/ Purge)
  BY <1>1 DEF SdkDelete, MarkUnmanaged, DeletedElsewhere, Purge, OnTheShare, NothingRefused, Fault
<1>10. CASE Resync \/ CrashRestart
  <2>1. AtRest
    BY <1>10, StepAtRest
  <2>2. UNCHANGED cr /\ queued' = TRUE /\ pc' = "idle"
    BY <1>10 DEF Resync, CrashRestart, Quiet
  <2> QED
    BY <1>1, <2>1, <2>2, ElsewhereShared DEF FoundPcs, Quiet
<1>11. CASE TaggedByAws \/ Permission \/ UNCHANGED vars
  <2>1. AtRest
    BY <1>11, StepAtRest
  <2>2. UNCHANGED <<cr, pc, des, lat, out, queued>>
    BY <1>11 DEF TaggedByAws, Permission, PermissionWorker, CreatePermission, DeletePermission,
       ResyncPermission, EditPermission, vars, mem
  <2>3. \A i \in Ids : shares'[i].state = shares[i].state /\ shares'[i].assoc = shares[i].assoc
    BY <2>1 DEF AtRest
  <2>4. \A j \in Ids, k \in ReadKinds :
          Active(j)' => Near(shares'[j].assoc, k, ToSet(cr.spec.list[k]))
    BY <1>1, <2>3 DEF Approached, Active
  <2>5. pc \in FoundPcs => shares'[lat.id].assoc = shares[lat.id].assoc
    BY <1>1, <2>3, FoundShare
  <2>6. (\A k \in ReadKinds : HasRead(k) \subseteq FoundPcs) /\ {"as", "update"} \subseteq FoundPcs
    BY DEF HasRead, ComparePcs, FoundPcs
  <2>7. pc = "done" /\ out.synced = "True" =>
          out.arn \in Ids /\ Full(shares'[out.arn].assoc, cr.spec.list)
    BY <1>1, <2>3 DEF Approached
  <2>8. Quiet => cr.synced = "True" /\ cr.arn \in Ids
                 /\ Full(shares'[cr.arn].assoc, cr.spec.list)
    BY <1>1, <2>3 DEF Approached
  <2>9. \A k \in ReadKinds : pc \in HasRead(k) =>
          AsRead(shares'[lat.id].assoc, k, ToSet(cr.spec.list[k]), lat.list[k])
    BY <1>1, <2>5, <2>6 DEF Approached
  <2>10. /\ pc = "as" => \A k \in ReadKinds :
              Fits(shares'[lat.id].assoc, k, ToSet(cr.spec.list[k]), lat.list[k])
         /\ pc = "update" => Full(shares'[lat.id].assoc, cr.spec.list)
    BY <1>1, <2>5, <2>6 DEF Approached
  <2> QED
    BY <1>1, <2>2, <2>4, <2>7, <2>8, <2>9, <2>10 DEF Approached, Quiet
<1> QED
  BY <1>0, <1>3, <1>4, <1>5, <1>6, <1>7, <1>8, <1>9, <1>10, <1>11
     DEF Next, Worker, Update, Environment

LEMMA InitSettled ==
  ASSUME Init
  PROVE  /\ \A i \in Ids : shares[i].state = "none"
         /\ pc = "idle" /\ queued = TRUE /\ cr.arn = NoShare /\ OnTheShare
<1>1. \A i \in Ids : shares[i].state = "none"
  BY DEF Init, NoShareYet
<1>2. pc = "idle" /\ queued = TRUE /\ cr.arn = NoShare
  BY DEF Init
<1> QED
  BY <1>1, <1>2, SubsetAssumption DEF OnTheShare, FoundPcs, NonePcs, Active

LEMMA InitSharedInv == Init => SharedInv
<1> SUFFICES ASSUME Init PROVE OnTheShare /\ Approached
  BY DEF SharedInv
<1>1. \A k \in ReadKinds : pc \notin HasRead(k)
  BY InitSettled DEF HasRead, ComparePcs
<1> QED
  BY <1>1, InitSettled DEF Approached, Active, Quiet

LEMMA SharedInvShared == Typed /\ SharedInv => SyncedMeansShared
<1> SUFFICES ASSUME Typed, SharedInv, SettledSynced
             PROVE  /\ cr.arn \in Ids
                    /\ \A k \in ReadKinds :
                         InState(cr.arn, k, "associated") = ToSet(cr.spec.list[k])
  BY DEF SyncedMeansShared, ReadKinds
<1>1. Quiet /\ Live /\ ~InTransit
  BY DEF SettledSynced, Live
<1>2. cr.arn \in Ids /\ Full(shares[cr.arn].assoc, cr.spec.list)
  BY <1>1 DEF SharedInv, Approached
<1>3. \A k \in ReadKinds : InState(cr.arn, k, "associating") = {} /\ k \in Kinds
  BY <1>1, <1>2 DEF InTransit, ReadKinds, Kinds
<1> QED
  BY <1>2, <1>3 DEF Full, Held, In, InState

\* Whatever calls, answers or status patches are lost, wherever the controller is
\* restarted, and however many edits a careful user makes: as long as no second
\* share has come into being, a synced resource at rest is shared exactly as its
\* spec says (compareStringSlices, syncResourceShareResources).
THEOREM SharedAsLongAsOne ==
  ASSUME CarefulUser, NothingRefused
  PROVE  Spec /\ []AtMostOneShare => []SyncedMeansShared
<1>1. Typed /\ [Next]_vars => Typed'
  BY StepEnvTyped, StepClusterTyped, StepSharesTyped, StepMemTyped DEF Typed
<1>2. Typed /\ AtMostOneShare /\ AtMostOneShare' /\ SharedInv /\ [Next]_vars => SharedInv'
  BY StepSharedInv
<1> QED
  BY <1>1, <1>2, InitTyped, InitSharedInv, SharedInvShared, PTL DEF Spec

\* With one name for all specs, and nothing lost on the way to the status, no
\* second share comes into being (OneShare).
THEOREM SyncedIsShared ==
  ASSUME CarefulUser, NothingRefused, OneName, NothingLost
  PROVE  Spec => []SyncedMeansShared
BY OneShare, SharedAsLongAsOne, PTL

-----------------------------------------------------------------------------
(* What is synced is configured.                                           *)

\* RAM attaches nothing by itself, or every spec names its permissions.
PermissionsNamed == DefaultPermissions = {} \/ \A s \in Specs : s.refs \/ s.perms # <<>>

\* What the share of a spec is to have, the aws: tags apart.
Wanted(s) == ToSet(WantedPermissions(s))
WantedTags(s) == Ensured(s.tags, DefaultTags)
TagsAre(t, u) == \A o \in TagKeys \ AwsKeys : t[o] = u[o]
Configured(share, s) == /\ s.refs => s.perms = <<>>
                        /\ share.perms = Wanted(s) /\ share.ext = s.ext
                        /\ TagsAre(share.tags, WantedTags(s))

\* With W wanted, the permissions P have some too many or lack one.
NearSet(P, W) == W \subseteq P \/ \E v \in W : v \notin P /\ W = P \cup {v}

\* What syncPermissions still has to do makes W of P.
Makes(t, P, W) == /\ ToSet(t.add) \subseteq W /\ ToSet(t.del) \cap W = {}
                  /\ (P \ ToSet(t.del)) \cup ToSet(t.add) = W

ReadPcs == {"findperms", "findprincipals", "findresources", "status"}

\* How far a share is before each call, when l has been read, t is still to do and
\* u are the tags in desired.
Stage(call, share, l, t, u, s) ==
  /\ share.ext = l.ext
  /\ call \in ReadPcs \cup {"untag"} => TagsAre(share.tags, l.tags)
  /\ call = "tag" => TagsAre(share.tags, UntagKeys(l.tags, TagsRemoved(l.tags, u)))
  /\ call \in {"disperm", "asperm", "dis", "as", "update"} => TagsAre(share.tags, WantedTags(s))
  /\ call \in (ReadPcs \ {"findperms"}) \cup {"untag", "tag"} => l.perms = share.perms
  /\ call \in {"untag", "tag", "disperm", "asperm"} => Makes(t, share.perms, Wanted(s))
  /\ call = "asperm" => t.del = <<>>
  /\ call \in {"dis", "as", "update"} => share.perms = Wanted(s)

\* The spec that the reconcile has in hand, before and after references are resolved.
InHand ==
  /\ pc # "idle" => /\ des.spec.refs = cr.spec.refs /\ des.spec.ext = cr.spec.ext
                    /\ TagsAre(des.spec.tags, WantedTags(cr.spec))
  /\ pc = "resolve" => cr.spec.refs /\ des.spec.perms = cr.spec.perms
  /\ pc = "resolveagain" => cr.spec.refs /\ cr.spec.perms = <<>> /\ des.spec.perms = <<>>
  /\ pc \in {"find", "mark", "create"} \cup FoundPcs =>
       /\ des.spec.perms = WantedPermissions(cr.spec)
       /\ cr.spec.refs => cr.spec.perms = <<>>

OnItsWay ==
  pc \in FoundPcs => Stage(pc, shares[lat.id], lat, todo, des.spec.tags, cr.spec)

HasBad(s) == (UNION {ToSet(s.list[o]) : o \in Kinds}) \cap BadEntities # {}

\* Only an error leaves the permissions different from those of the spec, and it
\* brings the reconcile back before the user edits again.
Arrived ==
  /\ \A i \in Ids : Active(i) => NearSet(shares[i].perms, Wanted(cr.spec))
  /\ \A i \in Ids : Active(i) /\ cr.arn = NoShare => ~HasBad(cr.spec)
  /\ pc = "done" /\ out.synced # "error" =>
       \A i \in Ids : Active(i) => out.arn = i /\ shares[i].perms = Wanted(cr.spec)
  /\ pc = "done" /\ out.synced = "True" =>
       out.arn \in Ids /\ Configured(shares[out.arn], cr.spec)
  /\ Quiet => \A i \in Ids : Active(i) => cr.arn = i /\ shares[i].perms = Wanted(cr.spec)
  /\ Quiet /\ cr.synced = "True" => cr.arn \in Ids /\ Configured(shares[cr.arn], cr.spec)

ConfInv == Live => OnTheShare /\ InHand /\ OnItsWay /\ Arrived

LEMMA StageKept ==
  ASSUME NEW call, NEW share, NEW shareN, NEW l, NEW t, NEW u, NEW s,
         Stage(call, share, l, t, u, s),
         shareN.ext = share.ext, shareN.perms = share.perms, TagsAre(shareN.tags, share.tags)
  PROVE  Stage(call, shareN, l, t, u, s)
<1>1. \A v : TagsAre(share.tags, v) => TagsAre(shareN.tags, v)
  BY DEF TagsAre
<1> QED
  BY <1>1 DEF Stage

LEMMA ConfiguredKept ==
  ASSUME NEW share, NEW shareN, NEW s, Configured(share, s),
         shareN.ext = share.ext, shareN.perms = share.perms, TagsAre(shareN.tags, share.tags)
  PROVE  Configured(shareN, s)
BY DEF Configured, TagsAre

\* What syncPermissions sets out to do is enough.
LEMMA TodoMakes ==
  ASSUME des \in Desired, lat \in Latest, NearSet(lat.perms, ToSet(des.spec.perms))
  PROVE  Makes(PermissionsTodo, lat.perms, ToSet(des.spec.perms))
<1> DEFINE b == ListOf(lat.perms)
           a == des.spec.perms
<1>1. IsFiniteSet(lat.perms) /\ lat.perms \subseteq Permissions
  BY FiniteAssumption, FS_Subset DEF Latest
<1>2. b \in Seq(Permissions) /\ ToSet(b) = lat.perms
  BY <1>1, ListOfSet DEF ListOf
<1>3. a \in Seq(Permissions)
  BY DEF Desired, SpecFields
<1>4. PermissionsTodo.del = ToDelete(a, b) /\ PermissionsTodo.add = ToAdd(a, b)
  BY DEF PermissionsTodo
<1> HIDE DEF a, b
<1>5. ToSet(PermissionsTodo.del) = lat.perms \ ToSet(a)
  BY <1>2, <1>3, <1>4, ToDeleteIs
<1>6. /\ ToSet(a) \subseteq lat.perms => ToSet(PermissionsTodo.add) = {}
      /\ ~(ToSet(a) \subseteq lat.perms) =>
           \E v \in ToSet(a) \ lat.perms :
             ToSet(PermissionsTodo.add) = (lat.perms \ ToSet(a)) \cup {v}
  <2>1. ToSet(<<>>) = {}
    BY DEF ToSet
  <2>2. ToSet(a) \subseteq ToSet(b) => ToAdd(a, b) = <<>>
    BY <1>2, <1>3, ToAddIs
  <2>3. ~(ToSet(a) \subseteq ToSet(b)) =>
           \E v \in ToSet(a) \ ToSet(b) : ToSet(ToAdd(a, b)) = (ToSet(b) \ ToSet(a)) \cup {v}
    BY <1>2, <1>3, ToAddIs
  <2> QED
    BY <1>2, <1>4, <2>1, <2>2, <2>3
<1>7. NearSet(lat.perms, ToSet(a))
  BY DEF a
<1>8. Makes(PermissionsTodo, lat.perms, ToSet(a))
  <2>1. CASE ToSet(a) \subseteq lat.perms
    BY <1>5, <1>6, <2>1 DEF Makes
  <2>2. CASE ~(ToSet(a) \subseteq lat.perms)
    <3>1. PICK v \in ToSet(a) \ lat.perms :
             ToSet(PermissionsTodo.add) = (lat.perms \ ToSet(a)) \cup {v}
      BY <1>6, <2>2
    <3>2. lat.perms \ ToSet(a) = {} /\ ToSet(a) = lat.perms \cup {v}
      BY <1>7, <2>2 DEF NearSet
    <3> QED
      BY <1>5, <3>1, <3>2 DEF Makes
  <2> QED
    BY <2>1, <2>2
<1> QED
  BY <1>8 DEF a

\* One call of syncPermissions after the other.
LEMMA HeadTail ==
  ASSUME NEW A, NEW s \in Seq(A), s # <<>>
  PROVE  Tail(s) \in Seq(A) /\ ToSet(s) = {Head(s)} \cup ToSet(Tail(s))
<1>1. Len(s) \in Nat \ {0} /\ DOMAIN s = 1..Len(s)
  OBVIOUS
<1>2. Tail(s) \in Seq(A) /\ Len(Tail(s)) = Len(s) - 1 /\ DOMAIN Tail(s) = 1..(Len(s) - 1)
      /\ \A i \in 1..(Len(s) - 1) : Tail(s)[i] = s[i + 1]
  OBVIOUS
<1>3. \A i \in 2..Len(s) : s[i] = Tail(s)[i - 1]
  BY <1>1, <1>2
<1>4. ToSet(s) = {s[i] : i \in 1..Len(s)} /\ ToSet(Tail(s)) = {Tail(s)[i] : i \in 1..(Len(s) - 1)}
  BY <1>1, <1>2 DEF ToSet
<1>5. ASSUME NEW x \in ToSet(s) PROVE x = s[1] \/ x \in ToSet(Tail(s))
  <2>1. PICK i \in 1..Len(s) : x = s[i]
    BY <1>4, <1>5
  <2>2. i # 1 => x = Tail(s)[i - 1] /\ i - 1 \in 1..(Len(s) - 1)
    BY <1>1, <1>3, <2>1
  <2> QED
    BY <1>4, <2>1, <2>2
<1>6. s[1] \in ToSet(s) /\ Head(s) = s[1]
  BY <1>1, <1>4
<1>7. ASSUME NEW x \in ToSet(Tail(s)) PROVE x \in ToSet(s)
  <2>1. PICK i \in 1..(Len(s) - 1) : x = Tail(s)[i]
    BY <1>4, <1>7
  <2>2. x = s[i + 1] /\ i + 1 \in 1..Len(s)
    BY <1>1, <1>2, <2>1
  <2> QED
    BY <1>4, <2>2
<1> QED
  BY <1>2, <1>5, <1>6, <1>7

\* Each call of syncPermissions leaves the rest to be done, and the permissions near.
LEMMA MakesLess ==
  ASSUME NEW A, NEW t, t.del \in Seq(A), t.add \in Seq(A), NEW P, NEW W, Makes(t, P, W),
         NearSet(P, W)
  PROVE  /\ t.del # <<>> =>
              /\ ToSet(Tail(t.del)) \cap W = {} /\ NearSet(P \ {Head(t.del)}, W)
              /\ ((P \ {Head(t.del)}) \ ToSet(Tail(t.del))) \cup ToSet(t.add) = W
         /\ t.add # <<>> /\ t.del = <<>> =>
              /\ ToSet(Tail(t.add)) \subseteq W /\ NearSet(P \cup {Head(t.add)}, W)
              /\ P \cup {Head(t.add)} \cup ToSet(Tail(t.add)) = W
         /\ t.del = <<>> /\ t.add = <<>> => P = W
<1>1. ToSet(<<>>) = {}
  BY DEF ToSet
<1>2. ASSUME t.del # <<>>
      PROVE  /\ ToSet(Tail(t.del)) \cap W = {} /\ NearSet(P \ {Head(t.del)}, W)
             /\ ((P \ {Head(t.del)}) \ ToSet(Tail(t.del))) \cup ToSet(t.add) = W
  <2>1. ToSet(t.del) = {Head(t.del)} \cup ToSet(Tail(t.del))
    BY <1>2, HeadTail
  <2>2. Head(t.del) \notin W
    BY <2>1 DEF Makes
  <2> QED
    BY <2>1, <2>2 DEF Makes, NearSet
<1>3. ASSUME t.add # <<>>, t.del = <<>>
      PROVE  /\ ToSet(Tail(t.add)) \subseteq W /\ NearSet(P \cup {Head(t.add)}, W)
             /\ P \cup {Head(t.add)} \cup ToSet(Tail(t.add)) = W
  <2>1. ToSet(t.add) = {Head(t.add)} \cup ToSet(Tail(t.add))
    BY <1>3, HeadTail
  <2>2. Head(t.add) \in W /\ P \cup ToSet(t.add) = W
    BY <1>1, <1>3, <2>1 DEF Makes
  <2> QED
    BY <2>1, <2>2 DEF Makes, NearSet
<1> QED
  BY <1>1, <1>2, <1>3 DEF Makes

LEMMA WantedIs ==
  ASSUME NEW s \in SpecFields
  PROVE  /\ WantedPermissions(s) = IF s.refs THEN Append(s.perms, RefPermission) ELSE s.perms
         /\ TagsAre(EnsureTags(s).tags, WantedTags(s))
         /\ \A t, u : TagsAre(s.tags, u)
                       => TagsAre([s EXCEPT !.tags = Mirrored(@, t, AwsKeys)].tags, u)
<1>1. \A t : [s EXCEPT !.tags = t].tags = t
  BY SpecParts
<1>2. \A t : \A o \in TagKeys \ AwsKeys : Mirrored(s.tags, t, AwsKeys)[o] = s.tags[o]
  BY DEF Mirrored
<1>3. EnsureTags(s).tags = WantedTags(s)
  BY SpecParts DEF WantedTags
<1>4. \A t : [s EXCEPT !.tags = Mirrored(@, t, AwsKeys)].tags = Mirrored(s.tags, t, AwsKeys)
  BY <1>1
<1>5. ASSUME NEW t, NEW u, TagsAre(s.tags, u)
      PROVE  TagsAre([s EXCEPT !.tags = Mirrored(@, t, AwsKeys)].tags, u)
  BY <1>2, <1>4, <1>5 DEF TagsAre
<1>6. WantedPermissions(s) = IF s.refs THEN Append(s.perms, RefPermission) ELSE s.perms
  BY SpecParts DEF WantedPermissions
<1>7. TagsAre(EnsureTags(s).tags, WantedTags(s))
  BY <1>3 DEF TagsAre
<1> QED
  BY <1>5, <1>6, <1>7

LEMMA StepInHand ==
  ASSUME CarefulUser, Typed, OnTheShare, InHand, Live', [Next]_vars
  PROVE  InHand'
<1> DEFINE Has == {"find", "mark", "create"} \cup FoundPcs
<1>1. Live /\ ~DeleteResource /\ (~EditSpec => cr'.spec = cr.spec)
  BY StepLive
<1>2. /\ des \in Desired /\ des.spec \in SpecFields /\ cr \in Cluster /\ cr.spec \in SpecFields
  BY SpecsAssumption DEF Typed, MemOK, Desired, Cluster
<1>3. ASSUME cr'.spec = cr.spec, pc' # "idle", pc' \notin {"resolve", "resolveagain"},
             des'.spec.refs = cr.spec.refs, des'.spec.ext = cr.spec.ext,
             TagsAre(des'.spec.tags, WantedTags(cr.spec)),
             pc' \in Has => /\ des'.spec.perms = WantedPermissions(cr.spec)
                            /\ cr.spec.refs => cr.spec.perms = <<>>
      PROVE  InHand'
  BY <1>3 DEF InHand
<1>4. ASSUME cr'.spec = cr.spec, UNCHANGED des, pc # "idle",
             pc' = "done" \/ (pc \in Has /\ pc' \in Has)
      PROVE  InHand'
  <2>1. pc' # "idle" /\ pc' \notin {"resolve", "resolveagain"} /\ "done" \notin Has
    BY <1>4 DEF FoundPcs
  <2> QED
    BY <1>3, <1>4, <2>1 DEF InHand
<1>5. FailDesired("error") => pc' = "done"
  BY DEF FailDesired, FailWith, Finish
<1>6. CASE Update
  <2>1. pc \in FoundPcs
    BY <1>6, TypedShaped, StepUpdate DEF Typed, PcOK, UpdatePcs, FoundPcs
  <2>2. UNCHANGED des /\ pc' \in UpdatePcs \cup {"done"} /\ cr'.spec = cr.spec
    BY <1>6, <2>1, TypedShaped, StepUpdate DEF Typed, PcOK, Ended
  <2>3. pc # "idle" /\ UpdatePcs \subseteq FoundPcs
    BY <2>1 DEF FoundPcs, UpdatePcs
  <2> QED
    BY <1>4, <2>1, <2>2, <2>3
<1>7. CASE GetPermissionArns \/ GetPrincipals \/ GetResources
  <2>1. UNCHANGED <<cr, des>> /\ pc \in FoundPcs /\ pc # "idle" /\ pc' \in FoundPcs \cup {"done"}
    BY <1>7 DEF GetPermissionArns, GetPrincipals, GetResources, FailDesired, FailLatest, FailWith,
       Finish, FoundPcs
  <2> QED
    BY <1>4, <2>1
<1>8. CASE StartReconcile
  <2>1. /\ UNCHANGED cr /\ des'.spec = EnsureTags(cr.spec)
        /\ pc' = IF cr.spec.refs THEN "resolve" ELSE "find"
    BY <1>1, <1>8 DEF StartReconcile, Live
  <2>2. /\ des'.spec.refs = cr.spec.refs /\ des'.spec.ext = cr.spec.ext
        /\ des'.spec.perms = cr.spec.perms /\ TagsAre(des'.spec.tags, WantedTags(cr.spec))
    BY <1>2, <2>1, SpecParts, WantedIs
  <2>3. ~cr.spec.refs => WantedPermissions(cr.spec) = cr.spec.perms
    BY <1>2, WantedIs
  <2>4. cr'.spec = cr.spec
    BY <2>1
  <2>5. CASE cr.spec.refs
    <3>1. pc' = "resolve" /\ pc' \notin Has
      BY <2>1, <2>5 DEF FoundPcs
    <3> QED
      BY <2>2, <2>4, <2>5, <3>1 DEF InHand
  <2>6. CASE ~cr.spec.refs
    BY <1>3, <2>1, <2>2, <2>3, <2>4, <2>6
  <2> QED
    BY <2>5, <2>6
<1>9. CASE ResolveReferences
  <2>1. UNCHANGED cr /\ pc \in {"resolve", "resolveagain"} /\ pc # "idle"
    BY <1>9 DEF ResolveReferences
  <2>2. CASE Unresolved /\ UNCHANGED des
    BY <1>4, <1>5, <2>1, <2>2 DEF Unresolved
  <2>3. CASE /\ Resolvable /\ des' = [des EXCEPT !.spec = Resolved(@)]
             /\ pc' = IF pc = "resolve" THEN "find" ELSE "create"
    <3>1. des'.spec = Resolved(des.spec) /\ des.spec.perms = <<>>
      BY <1>2, <2>3 DEF Desired, Resolvable
    <3>2. /\ des'.spec.refs = cr.spec.refs /\ des'.spec.ext = cr.spec.ext
          /\ des'.spec.perms = Append(des.spec.perms, RefPermission)
          /\ TagsAre(des'.spec.tags, WantedTags(cr.spec))
      BY <1>2, <2>1, <3>1, SpecParts DEF InHand
    <3>3. cr.spec.refs /\ cr.spec.perms = <<>>
      BY <2>1, <3>1 DEF InHand
    <3>4. des'.spec.perms = WantedPermissions(cr.spec)
      BY <1>2, <3>1, <3>2, <3>3, WantedIs
    <3>5. pc' \in {"find", "create"} /\ cr'.spec = cr.spec
      BY <2>1, <2>3
    <3> QED
      BY <1>3, <3>2, <3>3, <3>4, <3>5
  <2> QED
    BY <1>9, <2>2, <2>3 DEF ResolveReferences
<1>10. CASE SdkFind
  <2>1. UNCHANGED cr /\ pc = "find" /\ ~des.deleting /\ cr'.spec = cr.spec
    BY <1>1, <1>10 DEF SdkFind, OnTheShare
  <2>2. CASE FailDesired("error") /\ UNCHANGED des
    BY <1>4, <1>5, <2>1, <2>2
  <2>3. CASE UNCHANGED des /\ pc' \in {"mark", "create"}
    BY <1>4, <2>1, <2>3
  <2>4. ASSUME NEW i, des' = [des EXCEPT !.spec.tags = Mirrored(@, shares[i].tags, AwsKeys)],
               pc' = "findperms"
        PROVE  InHand'
    <3>1. des' = [des EXCEPT !.spec =
                    [des.spec EXCEPT !.tags = Mirrored(@, shares[i].tags, AwsKeys)]]
      BY <2>4
    <3>2. des'.spec = [des.spec EXCEPT !.tags = Mirrored(@, shares[i].tags, AwsKeys)]
      BY <1>2, <3>1 DEF Desired
    <3>3. des'.spec.refs = des.spec.refs /\ des'.spec.ext = des.spec.ext
          /\ des'.spec.perms = des.spec.perms
      BY <1>2, <3>2, SpecParts
    <3>4. TagsAre(des.spec.tags, WantedTags(cr.spec))
          => TagsAre(des'.spec.tags, WantedTags(cr.spec))
      BY <1>2, <3>2, WantedIs
    <3> QED
      BY <1>3, <2>1, <2>4, <3>3, <3>4 DEF InHand
  <2> QED
    BY <1>10, <2>1, <2>2, <2>3, <2>4 DEF SdkFind
<1>11. CASE MarkManaged
  <2>1. pc = "mark" /\ pc # "idle" /\ cr'.spec = cr.spec
    BY <1>1, <1>11 DEF MarkManaged, EditSpec, CarefulUser, Quiet
  <2>2. CASE UNCHANGED des /\ FailDesired("error")
    BY <1>4, <1>5, <2>1, <2>2
  <2>3. CASE /\ des' = [des EXCEPT !.spec = Cleared(@)]
             /\ pc' = IF des.spec.refs THEN "resolveagain" ELSE "create"
    <3>1. des'.spec = Cleared(des.spec)
      BY <1>2, <2>3 DEF Desired
    <3>2. /\ des.spec.perms = WantedPermissions(cr.spec) /\ (cr.spec.refs => cr.spec.perms = <<>>)
          /\ des.spec.refs = cr.spec.refs /\ des.spec.ext = cr.spec.ext
          /\ TagsAre(des.spec.tags, WantedTags(cr.spec))
      BY <2>1 DEF InHand
    <3>3. /\ des'.spec.refs = cr.spec.refs /\ des'.spec.ext = cr.spec.ext
          /\ TagsAre(des'.spec.tags, WantedTags(cr.spec))
          /\ des'.spec.perms = IF des.spec.refs THEN <<>> ELSE des.spec.perms
      BY <1>2, <3>1, <3>2, SpecParts
    <3>4. CASE cr.spec.refs
      <4>1. pc' = "resolveagain" /\ pc' \notin Has
        BY <2>3, <3>2, <3>4 DEF FoundPcs
      <4> QED
        BY <2>1, <3>2, <3>3, <3>4, <4>1 DEF InHand
    <3>5. CASE ~cr.spec.refs
      BY <1>3, <2>1, <2>3, <3>2, <3>3, <3>5
    <3> QED
      BY <3>4, <3>5
  <2> QED
    BY <1>11, <2>2, <2>3 DEF MarkManaged
<1>12. CASE SdkCreate
  <2>1. UNCHANGED <<cr, des>> /\ pc # "idle" /\ pc' = "done"
    BY <1>12 DEF SdkCreate, FailDesired, FailWith, Finish
  <2> QED
    BY <1>4, <2>1
<1>13. CASE PatchStatus \/ EditSpec \/ CrashRestart
  <2>1. pc' = "idle"
    BY <1>13 DEF PatchStatus, EditSpec, CarefulUser, Quiet, CrashRestart
  <2> QED
    BY <2>1 DEF InHand, FoundPcs
<1>14. CASE Resync \/ TaggedByAws \/ Permission \/ UNCHANGED vars
            \/ \E i \in Ids, k \in Kinds, e \in Entities : Progress(i, k, e)
  <2>1. UNCHANGED <<cr, pc, des>>
    BY <1>14 DEF Resync, TaggedByAws, Permission, PermissionWorker, CreatePermission,
       DeletePermission, ResyncPermission, EditPermission, Progress, vars, mem
  <2> QED
    BY <2>1 DEF InHand
<1>15. CASE SdkDelete \/ MarkUnmanaged \/ DeletedElsewhere \/ Purge
  <2>1. ~(SdkDelete \/ MarkUnmanaged)
    BY DEF SdkDelete, MarkUnmanaged, OnTheShare
  <2>2. UNCHANGED <<cr, pc, des>>
    BY <1>15, <2>1 DEF DeletedElsewhere, Purge, mem
  <2> QED
    BY <2>2 DEF InHand
<1> QED
  BY <1>1, <1>6, <1>7, <1>8, <1>9, <1>10, <1>11, <1>12, <1>13, <1>14, <1>15
     DEF Next, Worker, Environment

\* Steps that leave alone what the spec says of a share, its lists apart.
Undisturbed ==
  \A i \in Ids : /\ shares'[i].state = shares[i].state /\ shares'[i].perms = shares[i].perms
                 /\ shares'[i].ext = shares[i].ext /\ TagsAre(shares'[i].tags, shares[i].tags)

\* One field of a share after the other.
LEMMA FieldChanged ==
  ASSUME Typed, NEW i \in Ids, NEW t
  PROVE  /\ shares' = [shares EXCEPT ![i].tags = t] =>
              /\ \A j \in Ids : shares'[j].state = shares[j].state
              /\ \A j \in Ids : shares'[j].perms = shares[j].perms /\ shares'[j].ext = shares[j].ext
              /\ \A j \in Ids : shares'[j].tags = IF j = i THEN t ELSE shares[j].tags
         /\ shares' = [shares EXCEPT ![i].assoc = t] =>
              /\ \A j \in Ids : shares'[j].state = shares[j].state
              /\ \A j \in Ids : shares'[j].perms = shares[j].perms /\ shares'[j].ext = shares[j].ext
              /\ \A j \in Ids : shares'[j].tags = shares[j].tags
         /\ shares' = [shares EXCEPT ![i].perms = t] =>
              /\ \A j \in Ids : shares'[j].state = shares[j].state
              /\ shares'[i].perms = t /\ shares'[i].ext = shares[i].ext
              /\ shares'[i].tags = shares[i].tags
         /\ \A n : shares' = [shares EXCEPT ![i].ext = t, ![i].name = n] =>
              /\ \A j \in Ids : shares'[j].state = shares[j].state
              /\ shares'[i].perms = shares[i].perms /\ shares'[i].ext = t
              /\ shares'[i].tags = shares[i].tags
<1>1. \A j \in Ids : DOMAIN shares[j] = {"state", "name", "ext", "perms", "assoc", "tags"}
  BY DEF Typed, Share
<1>2. DOMAIN shares = Ids
  BY DEF Typed
<1> QED
  BY <1>1, <1>2

LEMMA StepUndisturbed ==
  ASSUME Typed,
         \/ StartReconcile \/ ResolveReferences \/ SdkFind \/ GetPermissionArns \/ GetPrincipals
         \/ GetResources \/ MarkManaged \/ PatchLatestStatus \/ PatchStatus \/ Disassociate
         \/ Associate \/ EditSpec \/ Resync \/ CrashRestart \/ TaggedByAws \/ Permission
         \/ UNCHANGED vars \/ \E i \in Ids, k \in Kinds, e \in Entities : Progress(i, k, e)
  PROVE  Undisturbed
<1>0. UNCHANGED shares => Undisturbed
  BY DEF Undisturbed, TagsAre
<1>1. ASSUME NEW i \in Ids, NEW t, shares' = [shares EXCEPT ![i].assoc = t] PROVE Undisturbed
  BY <1>1, FieldChanged DEF Undisturbed, TagsAre
<1>2. Disassociate \/ Associate => pc \in FoundPcs
  BY DEF Disassociate, Associate, FoundPcs
<1>3. pc \in FoundPcs => lat.id \in Ids
  BY DEF Typed, PcOK
<1>4. Disassociate => UNCHANGED shares \/ \E t : shares' = [shares EXCEPT ![lat.id].assoc = t]
  BY DEF Disassociate, Call, NoCall
<1>5. Associate => UNCHANGED shares \/ \E t : shares' = [shares EXCEPT ![lat.id].assoc = t]
  BY DEF Associate, Call, NoCall
<1>6. ASSUME NEW i \in Ids, NEW k \in Kinds, NEW e \in Entities, Progress(i, k, e)
      PROVE  Undisturbed
  <2>1. PICK x : shares' = [shares EXCEPT ![i].assoc[k][e] = x]
    BY <1>6 DEF Progress
  <2>2. shares' = [shares EXCEPT ![i].assoc = [shares[i].assoc EXCEPT ![k][e] = x]]
    BY <2>1
  <2> QED
    BY <1>1, <2>2
<1>7. ASSUME TaggedByAws PROVE Undisturbed
  <2>1. PICK i \in Ids, k \in AwsKeys :
          shares' = [shares EXCEPT ![i].tags[k] = CHOOSE v \in TagVals : TRUE]
    BY <1>7 DEF TaggedByAws
  <2> DEFINE t == [shares[i].tags EXCEPT ![k] = CHOOSE v \in TagVals : TRUE]
  <2>2. shares' = [shares EXCEPT ![i].tags = t]
    BY <2>1
  <2>3. TagsAre(t, shares[i].tags)
    BY DEF TagsAre, Typed, Share, Tagging
  <2> HIDE DEF t
  <2> QED
    BY <2>2, <2>3, FieldChanged DEF Undisturbed, TagsAre
<1>8. StartReconcile \/ ResolveReferences \/ SdkFind \/ GetPermissionArns \/ GetPrincipals
      \/ GetResources \/ MarkManaged \/ PatchLatestStatus \/ PatchStatus \/ EditSpec \/ Resync
      \/ CrashRestart \/ Permission \/ UNCHANGED vars => UNCHANGED shares
  BY DEF StartReconcile, ResolveReferences, SdkFind, GetPermissionArns, GetPrincipals,
     GetResources, MarkManaged, PatchLatestStatus, PatchStatus, EditSpec, Resync, CrashRestart,
     Permission, PermissionWorker, CreatePermission, DeletePermission, ResyncPermission,
     EditPermission, vars
<1> QED
  BY <1>0, <1>1, <1>2, <1>3, <1>4, <1>5, <1>6, <1>7, <1>8

\* Where a call of sdkUpdate, or of reading, gets with the share it has found.
Lands(share) ==
  \/ pc' \in FoundPcs /\ Stage(pc', share, lat', todo', des.spec.tags, cr.spec)
  \/ /\ pc' = "done" /\ out'.arn = lat.id
     /\ \/ out'.synced = "error"
        \/ out'.synced = "terminal" /\ share.perms = Wanted(cr.spec)
        \/ out'.synced = "True" /\ Configured(share, cr.spec)

LEMMA LandsWell ==
  ASSUME Typed, AtMostOneShare, OnTheShare, Arrived, pc \in FoundPcs, UNCHANGED des,
         cr'.spec = cr.spec, cr'.arn # NoShare, lat'.id = lat.id,
         \A i \in Ids : shares'[i].state = shares[i].state,
         NearSet(shares'[lat.id].perms, Wanted(cr.spec)), Lands(shares'[lat.id])
  PROVE  OnItsWay' /\ Arrived'
<1>1. lat.id \in Ids /\ Active(lat.id)
  BY FoundShare
<1>2. \A i \in Ids : Active(i)' => i = lat.id
  BY <1>1 DEF AtMostOneShare, Active
<1>3. pc' # "idle" /\ (pc' \in FoundPcs => pc' # "done")
  BY DEF Lands, FoundPcs
<1>4. OnItsWay'
  BY <1>3 DEF OnItsWay, Lands
<1>5. pc' = "done" => /\ out'.arn = lat.id
                      /\ out'.synced # "error" => shares'[lat.id].perms = Wanted(cr.spec)
                      /\ out'.synced = "True" => Configured(shares'[lat.id], cr.spec)
  BY <1>3 DEF Lands, Configured
<1> QED
  BY <1>1, <1>2, <1>3, <1>4, <1>5 DEF Arrived, Quiet

\* A reconcile that has found the share and ends in an error, or goes on as it is.
LEMMA ErrorLands ==
  ASSUME Typed, OnTheShare, pc \in FoundPcs, FailLatest("error") \/ FailDesired("error"), NEW share
  PROVE  Lands(share)
<1>1. des.arn = lat.id
  BY FoundShare
<1> QED
  BY <1>1 DEF Lands, FailLatest, FailDesired, FailWith, Finish

\* When the permissions and the tags are those of the spec.
LEMMA AfterPermissionsLands ==
  ASSUME Typed, OnTheShare, InHand, pc \in FoundPcs, UNCHANGED lat, NEW share,
         share.ext = lat.ext, TagsAre(share.tags, WantedTags(cr.spec)),
         share.perms = Wanted(cr.spec), AfterLists \/ AfterPermissions
  PROVE  Lands(share)
<1>1. des.arn = lat.id /\ pc # "idle"
  BY FoundShare
<1>2. des.spec.ext = cr.spec.ext /\ (cr.spec.refs => cr.spec.perms = <<>>)
  BY <1>1 DEF InHand
<1>3. CASE pc' \in {"dis", "update"}
  <2>1. Stage(pc', share, lat', todo', des.spec.tags, cr.spec)
    BY <1>3 DEF Stage, ReadPcs
  <2> QED
    BY <1>3, <2>1 DEF Lands, FoundPcs
<1>4. CASE Finish(Updated) /\ ~ExtDiffers
  <2>1. Configured(share, cr.spec)
    BY <1>2, <1>4 DEF Configured, ExtDiffers
  <2> QED
    BY <1>1, <1>4, <2>1 DEF Lands, Finish, Updated
<1> QED
  BY <1>3, <1>4 DEF AfterPermissions, AfterLists

LEMMA AfterTagsLands ==
  ASSUME Typed, OnTheShare, InHand, pc \in FoundPcs, UNCHANGED lat, NEW share,
         share.ext = lat.ext, TagsAre(share.tags, WantedTags(cr.spec)),
         share.perms = lat.perms, Makes(todo', share.perms, Wanted(cr.spec)), AfterTags
  PROVE  Lands(share)
<1>1. ToSet(des.spec.perms) = Wanted(cr.spec)
  BY DEF InHand, Wanted
<1>2. CASE pc' = "disperm"
  <2>1. Stage(pc', share, lat', todo', des.spec.tags, cr.spec)
    BY <1>2 DEF Stage, ReadPcs
  <2> QED
    BY <1>2, <2>1 DEF Lands, FoundPcs
<1>3. CASE AfterPermissions /\ ~PermissionsDiffer
  <2>1. share.perms = Wanted(cr.spec)
    BY <1>1, <1>3 DEF PermissionsDiffer, ListDiffers
  <2> QED
    BY <1>3, <2>1, AfterPermissionsLands
<1> QED
  BY <1>2, <1>3 DEF AfterTags

\* Reading the share.
LEMMA StepReadLands ==
  ASSUME Typed, OnTheShare, InHand, OnItsWay, pc \in FoundPcs,
         GetPermissionArns \/ GetPrincipals \/ GetResources
  PROVE  UNCHANGED <<cr, des, shares>> /\ lat'.id = lat.id /\ Lands(shares[lat.id])
<1> DEFINE s == shares[lat.id]
<1>1. Stage(pc, s, lat, todo, des.spec.tags, cr.spec) /\ ~des.deleting
  BY FoundShare DEF OnItsWay, OnTheShare
<1>2. UNCHANGED <<cr, des, shares, todo>>
  BY DEF GetPermissionArns, GetPrincipals, GetResources
<1>3. lat \in Latest
  BY DEF Typed, MemOK
<1> HIDE DEF s
<1>4. ASSUME lat'.id = lat.id, lat'.ext = lat.ext, lat'.tags = lat.tags, lat'.perms = s.perms,
             pc \in ReadPcs, pc' \in {"findprincipals", "findresources", "status"}
      PROVE  Lands(s)
  <2>1. Stage(pc', s, lat', todo', des.spec.tags, cr.spec)
    BY <1>1, <1>2, <1>4 DEF Stage, ReadPcs
  <2> QED
    BY <1>4, <2>1 DEF Lands, FoundPcs
<1>5. CASE FailDesired("error") /\ UNCHANGED lat
  BY <1>2, <1>5, ErrorLands DEF s
<1>6. CASE GetPermissionArns
  <2>1. CASE lat' = [lat EXCEPT !.perms = shares[lat.id].perms] /\ pc' = "findprincipals"
    <3>1. lat'.id = lat.id /\ lat'.ext = lat.ext /\ lat'.tags = lat.tags /\ lat'.perms = s.perms
      BY <1>3, <2>1 DEF Latest, s
    <3>2. pc \in ReadPcs
      BY <1>6 DEF GetPermissionArns, ReadPcs
    <3> QED
      BY <1>2, <1>4, <2>1, <3>1, <3>2 DEF s
  <2> QED
    BY <1>5, <1>6, <2>1 DEF GetPermissionArns
<1>7. CASE GetPrincipals
  <2>1. CASE lat' = [lat EXCEPT !.list["principal"] = Read("principal")] /\ pc' = "findresources"
    <3>1. pc \in ReadPcs \ {"findperms"}
      BY <1>7 DEF GetPrincipals, ReadPcs
    <3>2. lat.perms = s.perms
      BY <1>1, <3>1 DEF Stage
    <3>3. lat'.id = lat.id /\ lat'.ext = lat.ext /\ lat'.tags = lat.tags /\ lat'.perms = s.perms
      BY <1>3, <2>1, <3>2 DEF Latest
    <3> QED
      BY <1>2, <1>4, <2>1, <3>1, <3>3 DEF s
  <2> QED
    BY <1>5, <1>7, <2>1 DEF GetPrincipals
<1>8. CASE GetResources
  <2>1. CASE lat' = [lat EXCEPT !.list["resource"] = Read("resource")]
             /\ \/ pc' = "status"
                \/ FailLatest("True") /\ ~SpecDiffers(lat')
    <3>1. pc \in ReadPcs \ {"findperms"}
      BY <1>8 DEF GetResources, ReadPcs
    <3>2. lat.perms = s.perms
      BY <1>1, <3>1 DEF Stage
    <3>3. lat'.id = lat.id /\ lat'.ext = lat.ext /\ lat'.tags = lat.tags /\ lat'.perms = s.perms
      BY <1>3, <2>1, <3>2 DEF Latest
    <3>4. CASE FailLatest("True") /\ ~SpecDiffers(lat')
      <4>1. des.spec.tags = lat.tags /\ ToSet(des.spec.perms) = s.perms /\ des.spec.ext = lat.ext
        BY <3>3, <3>4 DEF SpecDiffers, ListDiffers
      <4>2. /\ TagsAre(des.spec.tags, WantedTags(cr.spec)) /\ des.spec.ext = cr.spec.ext
            /\ des.spec.perms = WantedPermissions(cr.spec)
            /\ cr.spec.refs => cr.spec.perms = <<>>
        BY FoundShare DEF InHand
      <4>3. s.ext = lat.ext /\ TagsAre(s.tags, lat.tags)
        BY <1>1, <3>1 DEF Stage
      <4>4. Configured(s, cr.spec)
        BY <4>1, <4>2, <4>3 DEF Configured, Wanted, TagsAre
      <4>5. pc' = "done" /\ out'.arn = lat.id /\ out'.synced = "True"
        BY <3>4 DEF FailLatest, FailWith, Finish
      <4> QED
        BY <1>2, <3>3, <4>4, <4>5 DEF Lands, s
    <3> QED
      BY <1>2, <1>4, <2>1, <3>1, <3>3, <3>4 DEF s
  <2> QED
    BY <1>1, <1>5, <1>8, <2>1 DEF GetResources
<1> QED
  BY <1>6, <1>7, <1>8 DEF s

\* Patching what has been read to the status, and the calls of syncTags.
LEMMA StepTagsLands ==
  ASSUME Typed, OnTheShare, InHand, OnItsWay, Arrived, pc \in FoundPcs,
         PatchLatestStatus \/ Untag \/ Tag
  PROVE  /\ UNCHANGED <<des, lat>> /\ cr'.arn # NoShare
         /\ \A i \in Ids : shares'[i].state = shares[i].state
         /\ shares'[lat.id].perms = shares[lat.id].perms
         /\ Lands(shares'[lat.id])
<1> DEFINE s == shares[lat.id]
           n == shares'[lat.id]
           u == des.spec.tags
<1>1. /\ Stage(pc, s, lat, todo, u, cr.spec) /\ des.arn = lat.id /\ cr.arn = lat.id
      /\ lat.id \in Ids /\ Active(lat.id)
  BY FoundShare DEF OnItsWay, OnTheShare
<1>2. UNCHANGED <<des, lat>>
  BY DEF PatchLatestStatus, Untag, Tag
<1>3. /\ lat \in Latest /\ lat.tags \in Tagging /\ des \in Desired /\ u \in Tagging
      /\ s.tags \in Tagging /\ cr \in Cluster
  BY <1>1 DEF Typed, MemOK, Latest, Desired, SpecFields, Share
<1>4. cr'.arn # NoShare
  <2>1. UNCHANGED cr \/ cr' = [cr EXCEPT !.arn = lat.id, !.owned = TRUE]
    BY DEF PatchLatestStatus, Untag, Tag
  <2> QED
    BY <1>1, <1>3, <2>1, SubsetAssumption DEF Cluster
<1>5. TagsAre(u, WantedTags(cr.spec)) /\ ToSet(des.spec.perms) = Wanted(cr.spec)
  BY FoundShare DEF InHand, Wanted
<1>6. TagKeysAs(UntagKeys(lat.tags, Removed), Added, u) = u
  BY <1>3, TagsSynced DEF Removed, Added
<1>a. \A t : shares' = [shares EXCEPT ![lat.id].tags = t] =>
        /\ \A j \in Ids : shares'[j].state = shares[j].state
        /\ n.perms = s.perms /\ n.ext = s.ext /\ n.tags = t
  BY <1>1, FieldChanged
<1>7. CASE PatchLatestStatus
  <2>1. UNCHANGED shares /\ pc = "status"
    BY <1>7 DEF PatchLatestStatus
  <2>2. FailLatest("error") => Lands(s)
    BY ErrorLands
  <2>3. ASSUME todo' = PermissionsTodo,
               IF TagsDiffer THEN pc' = "untag" /\ UNCHANGED out ELSE AfterTags
        PROVE  Lands(s)
    <3>1. TagsAre(s.tags, lat.tags) /\ s.ext = lat.ext /\ s.perms = lat.perms
      BY <1>1, <2>1 DEF Stage, ReadPcs
    <3>2. NearSet(s.perms, Wanted(cr.spec))
      BY <1>1 DEF Arrived
    <3>3. Makes(todo', s.perms, Wanted(cr.spec))
      BY <1>3, <1>5, <2>3, <3>1, <3>2, TodoMakes
    <3>4. CASE pc' = "untag"
      <4>1. Stage(pc', s, lat', todo', u, cr.spec)
        BY <1>2, <3>1, <3>3, <3>4 DEF Stage, ReadPcs
      <4> QED
        BY <3>4, <4>1 DEF Lands, FoundPcs
    <3>5. CASE AfterTags /\ ~TagsDiffer
      <4>1. TagsAre(s.tags, WantedTags(cr.spec))
        BY <1>5, <3>1, <3>5 DEF TagsDiffer, TagsAre
      <4> HIDE DEF s
      <4> QED
        BY <1>2, <3>1, <3>3, <3>5, <4>1, AfterTagsLands
    <3> QED
      BY <2>3, <3>4, <3>5
  <2> QED
    BY <1>2, <1>4, <1>7, <2>1, <2>2, <2>3 DEF PatchLatestStatus
<1>8. CASE Untag
  <2>1. pc = "untag" /\ TagsAre(s.tags, lat.tags) /\ s.ext = lat.ext /\ s.perms = lat.perms
        /\ Makes(todo, s.perms, Wanted(cr.spec))
    BY <1>1, <1>8 DEF Untag, Stage, ReadPcs
  <2>2. ASSUME n.ext = s.ext, n.perms = s.perms, \A i \in Ids : shares'[i].state = shares[i].state,
               TagsAre(n.tags, UntagKeys(lat.tags, Removed)), pc' = "tag", UNCHANGED todo
        PROVE  Lands(n)
    <3>1. Stage(pc', n, lat', todo', u, cr.spec)
      BY <1>2, <2>1, <2>2 DEF Stage, ReadPcs, Removed
    <3> QED
      BY <2>2, <3>1 DEF Lands, FoundPcs
  <2>3. CASE UNCHANGED shares /\ FailLatest("error")
    BY <1>2, <1>4, <2>3, ErrorLands
  <2>4. CASE Removed = {} /\ UNCHANGED shares /\ GoTo("tag")
    <3>1. \A o \in TagKeys : UntagKeys(lat.tags, Removed)[o] = lat.tags[o]
      BY <1>3, <2>4 DEF UntagKeys
    <3>2. TagsAre(n.tags, UntagKeys(lat.tags, Removed))
      BY <2>1, <2>4, <3>1 DEF TagsAre
    <3> QED
      BY <1>2, <1>4, <2>2, <2>4, <3>2 DEF GoTo
  <2>5. CASE /\ shares' = [shares EXCEPT ![lat.id].tags = UntagKeys(@, Removed)]
             /\ GoTo("tag") \/ FailLatest("error")
    <3>1. shares' = [shares EXCEPT ![lat.id].tags = UntagKeys(s.tags, Removed)]
      BY <2>5
    <3>2. /\ \A j \in Ids : shares'[j].state = shares[j].state
          /\ n.perms = s.perms /\ n.ext = s.ext /\ n.tags = UntagKeys(s.tags, Removed)
      BY <1>1, <1>a, <3>1
    <3>3. TagsAre(UntagKeys(s.tags, Removed), UntagKeys(lat.tags, Removed))
      BY <2>1 DEF TagsAre, UntagKeys
    <3> QED
      BY <1>2, <1>4, <2>2, <2>5, <3>2, <3>3, ErrorLands DEF GoTo
  <2> QED
    BY <1>8, <2>3, <2>4, <2>5 DEF Untag, Call, NoCall
<1>9. CASE Tag
  <2>1. pc = "tag" /\ TagsAre(s.tags, UntagKeys(lat.tags, Removed)) /\ s.ext = lat.ext
        /\ s.perms = lat.perms /\ Makes(todo, s.perms, Wanted(cr.spec))
    BY <1>1, <1>9 DEF Tag, Stage, ReadPcs, Removed
  <2>2. ASSUME n.ext = s.ext, n.perms = s.perms, TagsAre(n.tags, u), AfterTags, UNCHANGED todo
        PROVE  Lands(n)
    <3>1. TagsAre(n.tags, WantedTags(cr.spec))
      BY <1>5, <2>2 DEF TagsAre
    <3> HIDE DEF n
    <3> QED
      BY <1>2, <2>1, <2>2, <3>1, AfterTagsLands
  <2>3. CASE UNCHANGED shares /\ FailLatest("error")
    BY <1>2, <1>4, <2>3, ErrorLands
  <2>4. CASE Added = {} /\ UNCHANGED shares /\ AfterTags /\ UNCHANGED todo
    <3>1. \A o \in TagKeys : UntagKeys(lat.tags, Removed)[o] = u[o]
      BY <1>3, <1>6, <2>4 DEF TagKeysAs
    <3>2. TagsAre(n.tags, u)
      BY <2>1, <2>4, <3>1 DEF TagsAre
    <3> QED
      BY <1>2, <1>4, <2>2, <2>4, <3>2
  <2>5. CASE /\ shares' = [shares EXCEPT ![lat.id].tags = TagKeysAs(@, Added, des.spec.tags)]
             /\ (AfterTags /\ UNCHANGED todo) \/ FailLatest("error")
    <3>1. shares' = [shares EXCEPT ![lat.id].tags = TagKeysAs(s.tags, Added, u)]
      BY <2>5
    <3>2. /\ \A j \in Ids : shares'[j].state = shares[j].state
          /\ n.perms = s.perms /\ n.ext = s.ext /\ n.tags = TagKeysAs(s.tags, Added, u)
      BY <1>1, <1>a, <3>1
    <3>3. TagsAre(TagKeysAs(s.tags, Added, u), TagKeysAs(UntagKeys(lat.tags, Removed), Added, u))
      BY <2>1 DEF TagsAre, TagKeysAs
    <3>4. TagsAre(n.tags, u)
      BY <1>6, <3>2, <3>3
    <3> QED
      BY <1>2, <1>4, <2>2, <2>5, <3>2, <3>4, ErrorLands
  <2> QED
    BY <1>9, <2>3, <2>4, <2>5 DEF Tag, Call, NoCall
<1> QED
  BY <1>7, <1>8, <1>9

\* The calls of syncPermissions.
LEMMA StepPermissionsLands ==
  ASSUME Typed, OnTheShare, InHand, OnItsWay, Arrived, pc \in FoundPcs,
         DisassociatePermission \/ AssociatePermission
  PROVE  /\ UNCHANGED <<cr, des, lat>>
         /\ \A i \in Ids : shares'[i].state = shares[i].state
         /\ NearSet(shares'[lat.id].perms, Wanted(cr.spec))
         /\ Lands(shares'[lat.id])
<1> DEFINE s == shares[lat.id]
           n == shares'[lat.id]
           W == Wanted(cr.spec)
<1>1. Stage(pc, s, lat, todo, des.spec.tags, cr.spec) /\ lat.id \in Ids /\ Active(lat.id)
  BY FoundShare DEF OnItsWay
<1>2. UNCHANGED <<cr, des, lat>> /\ pc \in {"disperm", "asperm"}
  BY DEF DisassociatePermission, AssociatePermission
<1>3. NearSet(s.perms, W) /\ Makes(todo, s.perms, W) /\ s.ext = lat.ext
      /\ TagsAre(s.tags, WantedTags(cr.spec)) /\ (pc = "asperm" => todo.del = <<>>)
  BY <1>1, <1>2 DEF Arrived, Stage
<1>4. DOMAIN todo = {"del", "add"} /\ todo.del \in Seq(Permissions) /\ todo.add \in Seq(Permissions)
  BY DEF Typed, MemOK, TodoOK
<1>5. /\ todo.del # <<>> =>
           /\ ToSet(Tail(todo.del)) \cap W = {} /\ NearSet(s.perms \ {Head(todo.del)}, W)
           /\ ((s.perms \ {Head(todo.del)}) \ ToSet(Tail(todo.del))) \cup ToSet(todo.add) = W
      /\ todo.add # <<>> /\ todo.del = <<>> =>
           /\ ToSet(Tail(todo.add)) \subseteq W /\ NearSet(s.perms \cup {Head(todo.add)}, W)
           /\ s.perms \cup {Head(todo.add)} \cup ToSet(Tail(todo.add)) = W
      /\ todo.del = <<>> /\ todo.add = <<>> => s.perms = W
  <2> HIDE DEF s, W
  <2> QED
    BY <1>3, <1>4, MakesLess
<1>6. \A t : shares' = [shares EXCEPT ![lat.id].perms = t] =>
        /\ \A j \in Ids : shares'[j].state = shares[j].state
        /\ n.perms = t /\ n.ext = s.ext /\ n.tags = s.tags
  BY <1>1, FieldChanged
\* Each step leaves the rest to be done.
<1>7. ASSUME n.ext = s.ext, n.tags = s.tags, pc' \in {"disperm", "asperm"},
             Makes(todo', n.perms, W), pc' = "asperm" => todo'.del = <<>>
      PROVE  Lands(n)
  <2>1. Stage(pc', n, lat', todo', des.spec.tags, cr.spec)
    BY <1>2, <1>3, <1>7 DEF Stage, ReadPcs
  <2> QED
    BY <1>7, <2>1 DEF Lands, FoundPcs
<1>8. CASE UNCHANGED shares /\ FailLatest("error")
  BY <1>2, <1>3, <1>8, ErrorLands
<1>9. CASE DisassociatePermission
  <2>1. CASE todo.del = <<>> /\ UNCHANGED shares /\ GoTo("asperm")
    BY <1>2, <1>3, <1>7, <2>1 DEF GoTo
  <2>2. CASE /\ todo.del # <<>> /\ pc = "disperm"
             /\ shares' = [shares EXCEPT ![lat.id].perms = @ \ {Head(todo.del)}]
             /\ \/ todo' = [todo EXCEPT !.del = Tail(@)] /\ UNCHANGED <<pc, out>>
                \/ FailLatest("error")
    <3>1. shares' = [shares EXCEPT ![lat.id].perms = s.perms \ {Head(todo.del)}]
      BY <2>2
    <3>2. /\ \A j \in Ids : shares'[j].state = shares[j].state
          /\ n.perms = s.perms \ {Head(todo.del)} /\ n.ext = s.ext /\ n.tags = s.tags
      BY <1>6, <3>1
    <3>3. NearSet(n.perms, W)
      BY <1>5, <2>2, <3>2
    <3>4. ASSUME todo' = [todo EXCEPT !.del = Tail(@)], pc' = pc PROVE Lands(n)
      <4>1. todo'.del = Tail(todo.del) /\ todo'.add = todo.add
        BY <1>4, <3>4
      <4>2. ToSet(todo.add) \subseteq W
        BY <1>3 DEF Makes
      <4>3. Makes(todo', n.perms, W)
        BY <1>5, <2>2, <3>2, <4>1, <4>2 DEF Makes
      <4> QED
        BY <1>7, <2>2, <3>2, <3>4, <4>3
    <3>5. FailLatest("error") => Lands(n)
      BY ErrorLands
    <3> QED
      BY <1>2, <2>2, <3>2, <3>3, <3>4, <3>5
  <2> QED
    BY <1>8, <1>9, <2>1, <2>2 DEF DisassociatePermission, Call, NoCall
<1>10. CASE AssociatePermission
  <2>1. CASE todo.add = <<>> /\ pc = "asperm" /\ UNCHANGED shares /\ AfterPermissions
    <3>1. s.perms = W
      BY <1>3, <1>5, <2>1
    <3>2. Lands(s)
      <4> HIDE DEF s
      <4> QED
        BY <1>2, <1>3, <2>1, <3>1, AfterPermissionsLands
    <3> QED
      BY <1>2, <1>3, <2>1, <3>2
  <2>2. CASE /\ todo.add # <<>> /\ pc = "asperm"
             /\ shares' = [shares EXCEPT ![lat.id].perms = @ \cup {Head(todo.add)}]
             /\ \/ todo' = [todo EXCEPT !.add = Tail(@)] /\ UNCHANGED <<pc, out>>
                \/ FailLatest("error")
    <3>1. shares' = [shares EXCEPT ![lat.id].perms = s.perms \cup {Head(todo.add)}]
      BY <2>2
    <3>2. /\ \A j \in Ids : shares'[j].state = shares[j].state
          /\ n.perms = s.perms \cup {Head(todo.add)} /\ n.ext = s.ext /\ n.tags = s.tags
      BY <1>6, <3>1
    <3>3. NearSet(n.perms, W) /\ todo.del = <<>>
      BY <1>3, <1>5, <2>2, <3>2
    <3>4. ASSUME todo' = [todo EXCEPT !.add = Tail(@)], pc' = pc PROVE Lands(n)
      <4>1. todo'.add = Tail(todo.add) /\ todo'.del = <<>>
        BY <1>4, <3>3, <3>4
      <4>2. ToSet(<<>>) = {}
        BY DEF ToSet
      <4>3. Makes(todo', n.perms, W)
        BY <1>5, <2>2, <3>2, <3>3, <4>1, <4>2 DEF Makes
      <4> QED
        BY <1>7, <2>2, <3>2, <3>4, <4>1, <4>3
    <3>5. FailLatest("error") => Lands(n)
      BY ErrorLands
    <3> QED
      BY <1>2, <2>2, <3>2, <3>3, <3>4, <3>5
  <2> QED
    BY <1>8, <1>10, <2>1, <2>2 DEF AssociatePermission, Call, NoCall
<1> QED
  BY <1>9, <1>10

\* The calls of syncResourceShareResources, and UpdateResourceShare.
LEMMA StepListsLands ==
  ASSUME Typed, OnTheShare, InHand, OnItsWay, pc \in FoundPcs,
         Disassociate \/ Associate \/ UpdateResourceShare
  PROVE  /\ UNCHANGED <<cr, des, lat>>
         /\ \A i \in Ids : shares'[i].state = shares[i].state
         /\ shares'[lat.id].perms = Wanted(cr.spec) /\ Lands(shares'[lat.id])
<1> DEFINE s == shares[lat.id]
           n == shares'[lat.id]
<1>1. /\ Stage(pc, s, lat, todo, des.spec.tags, cr.spec) /\ lat.id \in Ids /\ des.arn = lat.id
      /\ des.spec.ext = cr.spec.ext /\ (cr.spec.refs => cr.spec.perms = <<>>)
  BY FoundShare DEF OnItsWay, InHand
<1>2. UNCHANGED <<cr, des, lat>> /\ pc \in {"dis", "as", "update"}
  BY DEF Disassociate, Associate, UpdateResourceShare
<1>3. /\ s.perms = Wanted(cr.spec) /\ s.ext = lat.ext
      /\ TagsAre(s.tags, WantedTags(cr.spec))
  BY <1>1, <1>2 DEF Stage
<1>4. CASE Disassociate \/ Associate
  <2>1. Undisturbed
    BY <1>4, StepUndisturbed
  <2>2. /\ \A i \in Ids : shares'[i].state = shares[i].state
        /\ n.perms = Wanted(cr.spec) /\ n.ext = lat.ext /\ TagsAre(n.tags, WantedTags(cr.spec))
    BY <1>1, <1>3, <2>1 DEF Undisturbed, TagsAre
  <2>3. pc' = "as" \/ AfterLists \/ FailLatest("error")
        \/ FailLatest(ErrorFor(AllOf(Associated)))
    BY <1>4 DEF Disassociate, Associate, Call, NoCall, GoTo
  <2> HIDE DEF n
  <2>4. pc' = "as" => Lands(n)
    <3>1. pc' = "as" => Stage(pc', n, lat', todo', des.spec.tags, cr.spec)
      BY <1>2, <2>2 DEF Stage, ReadPcs
    <3> QED
      BY <3>1 DEF Lands, FoundPcs
  <2>5. AfterLists => Lands(n)
    BY <1>2, <2>2, AfterPermissionsLands
  <2>6. FailLatest("error") \/ FailLatest("terminal") => Lands(n)
    BY <2>2 DEF Lands, FailLatest, FailWith, Finish
  <2>7. Lands(n)
    BY <2>3, <2>4, <2>5, <2>6 DEF ErrorFor
  <2> QED
    BY <1>2, <2>2, <2>7 DEF n
<1>5. CASE UpdateResourceShare
  <2>1. FailLatest("error") => Lands(n)
    BY ErrorLands
  <2>2. CASE UNCHANGED shares /\ FailLatest("error")
    BY <1>2, <1>3, <2>1, <2>2
  <2>3. CASE /\ shares' = [shares EXCEPT ![des.arn].ext = des.spec.ext,
                                         ![des.arn].name = des.spec.name]
             /\ Finish(Updated) \/ FailLatest("error")
    <3>1. shares' = [shares EXCEPT ![lat.id].ext = des.spec.ext, ![lat.id].name = des.spec.name]
      BY <1>1, <2>3
    <3>2. /\ \A j \in Ids : shares'[j].state = shares[j].state
          /\ n.perms = s.perms /\ n.ext = des.spec.ext /\ n.tags = s.tags
      BY <1>1, <3>1, FieldChanged
    <3>3. Finish(Updated) => Lands(n)
      <4>1. Configured(n, cr.spec)
        BY <1>1, <1>3, <3>2 DEF Configured
      <4> QED
        BY <1>1, <4>1 DEF Lands, Finish, Updated
    <3> QED
      BY <1>2, <1>3, <2>1, <2>3, <3>2, <3>3
  <2> QED
    BY <1>1, <1>5, <2>2, <2>3 DEF UpdateResourceShare, Call, NoCall
<1> QED
  BY <1>4, <1>5

\* Outside of a reconcile that has found the share.
LEMMA ElsewhereArrived ==
  ASSUME Arrived, Undisturbed, cr'.spec = cr.spec, cr'.arn = cr.arn,
         pc' \notin FoundPcs, ~Quiet', pc' = "done" => out'.synced = "error"
  PROVE  OnItsWay' /\ Arrived'
<1>1. \A i \in Ids : /\ shares'[i].state = shares[i].state
                     /\ shares'[i].perms = shares[i].perms
  BY DEF Undisturbed
<1> QED
  BY <1>1 DEF OnItsWay, Arrived, Active

\* Steps that no reconcile takes.
LEMMA AroundArrived ==
  ASSUME Typed, OnTheShare, OnItsWay, Arrived, Undisturbed,
         UNCHANGED <<cr, pc, des, lat, todo, out>>, queued' = queued \/ queued' = TRUE
  PROVE  OnItsWay' /\ Arrived'
<1>1. \A i \in Ids : /\ shares'[i].state = shares[i].state
                     /\ shares'[i].perms = shares[i].perms
                     /\ Configured(shares[i], cr.spec) => Configured(shares'[i], cr.spec)
  BY ConfiguredKept DEF Undisturbed
<1>2. OnItsWay'
  <2> SUFFICES ASSUME pc \in FoundPcs
               PROVE  Stage(pc, shares'[lat.id], lat, todo, des.spec.tags, cr.spec)
    BY DEF OnItsWay
  <2>1. lat.id \in Ids /\ Stage(pc, shares[lat.id], lat, todo, des.spec.tags, cr.spec)
    BY FoundShare DEF OnItsWay
  <2> QED
    BY <2>1, StageKept DEF Undisturbed
<1>3. Quiet' => Quiet
  BY DEF Quiet
<1>4. pc = "done" /\ out.synced = "True" => out.arn \in Ids /\ Configured(shares'[out.arn], cr.spec)
  BY <1>1 DEF Arrived
<1>5. Quiet /\ cr.synced = "True" => cr.arn \in Ids /\ Configured(shares'[cr.arn], cr.spec)
  BY <1>1 DEF Arrived
<1>6. pc = "done" /\ out.synced # "error" =>
        \A i \in Ids : Active(i)' => out.arn = i /\ shares'[i].perms = Wanted(cr.spec)
  BY <1>1 DEF Arrived, Active
<1>7. Quiet => \A i \in Ids : Active(i)' => cr.arn = i /\ shares'[i].perms = Wanted(cr.spec)
  BY <1>1 DEF Arrived, Active
<1>8. \A i \in Ids : Active(i)' => /\ NearSet(shares'[i].perms, Wanted(cr.spec))
                                   /\ cr.arn = NoShare => ~HasBad(cr.spec)
  BY <1>1 DEF Arrived, Active
<1> QED
  BY <1>2, <1>3, <1>4, <1>5, <1>6, <1>7, <1>8 DEF Arrived

LEMMA StepFindArrived ==
  ASSUME Typed, OnTheShare, Arrived, SdkFind
  PROVE  OnItsWay' /\ Arrived'
<1>1. Undisturbed
  BY StepUndisturbed
<1>2. UNCHANGED <<cr, shares>> /\ pc = "find" /\ ~des.deleting
  BY DEF SdkFind, OnTheShare
<1>3. CASE FailDesired("error") \/ pc' \in {"mark", "create"}
  BY <1>1, <1>2, <1>3, ElsewhereArrived DEF FailDesired, FailWith, Finish, FoundPcs, Quiet
<1>4. ASSUME NEW i \in Listed, pc' = "findperms",
             lat' = [id |-> i, ext |-> shares[i].ext, perms |-> ToSet(des.spec.perms),
                     list |-> [k \in Kinds |-> ToSet(des.spec.list[k])], tags |-> shares[i].tags]
      PROVE  OnItsWay' /\ Arrived'
  <2>1. lat'.id = i /\ lat'.ext = shares[i].ext /\ lat'.tags = shares[i].tags
    BY <1>4
  <2>2. Stage(pc', shares[i], lat', todo', des'.spec.tags, cr.spec)
    BY <1>4, <2>1 DEF Stage, TagsAre, ReadPcs
  <2>3. OnItsWay'
    BY <1>2, <2>1, <2>2 DEF OnItsWay
  <2>4. pc' # "done" /\ ~Quiet'
    BY <1>4 DEF Quiet
  <2> QED
    BY <1>2, <2>3, <2>4 DEF Arrived, Active
<1> QED
  BY <1>2, <1>3, <1>4 DEF SdkFind

LEMMA StepCreateArrived ==
  ASSUME PermissionsNamed, Typed, OnTheShare, InHand, Arrived, AtMostOneShare', SdkCreate
  PROVE  OnItsWay' /\ Arrived'
<1> DEFINE unused == {i \in Ids : shares[i].state = "none"}
           wanted == UNION {ToSet(des.spec.list[k]) : k \in Kinds}
           c == Created(des.spec)
<1>1. /\ UNCHANGED <<cr, des, lat>> /\ pc = "create" /\ pc' = "done" /\ cr.arn = NoShare
      /\ des.spec.list = cr.spec.list
  BY DEF SdkCreate, FailDesired, FailWith, Finish, OnTheShare, NonePcs
<1>2. /\ des.spec.ext = cr.spec.ext /\ TagsAre(des.spec.tags, WantedTags(cr.spec))
      /\ des.spec.perms = WantedPermissions(cr.spec) /\ (cr.spec.refs => cr.spec.perms = <<>>)
  BY <1>1 DEF InHand
<1>3. ~Quiet' /\ pc' \notin FoundPcs
  BY <1>1 DEF Quiet, FoundPcs
<1>4. wanted \cap BadEntities # {} <=> HasBad(cr.spec)
  <2>1. \A k \in Kinds : des.spec.list[k] = cr.spec.list[k]
    BY <1>1
  <2>2. \A e : e \in wanted <=> \E k \in Kinds : e \in ToSet(des.spec.list[k])
    OBVIOUS
  <2>3. \A e : e \in UNION {ToSet(cr.spec.list[o]) : o \in Kinds}
               <=> \E k \in Kinds : e \in ToSet(cr.spec.list[k])
    OBVIOUS
  <2>4. wanted = UNION {ToSet(cr.spec.list[o]) : o \in Kinds}
    BY <2>1, <2>2, <2>3
  <2> QED
    BY <2>4 DEF HasBad
<1>5. CASE UNCHANGED shares /\ FailDesired("error")
  <2>1. Undisturbed
    BY <1>5 DEF Undisturbed, TagsAre
  <2> QED
    BY <1>1, <1>3, <1>5, <2>1, ElsewhereArrived DEF FailDesired, FailWith, Finish
<1>6. CASE UNCHANGED shares /\ FailDesired("terminal") /\ HasBad(cr.spec)
  <2>1. \A i \in Ids : ~Active(i)
    BY <1>1, <1>6 DEF Arrived
  <2>2. out'.synced = "terminal"
    BY <1>6 DEF FailDesired, FailWith, Finish
  <2> QED
    BY <1>1, <1>3, <1>6, <2>1, <2>2 DEF Arrived, OnItsWay, Active
<1>7. ASSUME unused # {}, NEW id, id = Min(unused), shares' = [shares EXCEPT ![id] = c],
             ~HasBad(cr.spec),
             \/ out' = [arn |-> id, owned |-> TRUE, synced |-> "True"]
             \/ out'.synced = "error"
      PROVE  OnItsWay' /\ Arrived'
  <2>1. id \in Ids
    <3>1. Ids \subseteq Nat
      BY BoundAssumption DEF Ids
    <3>2. id \in unused
      BY <1>7, <3>1, MinIs
    <3> QED
      BY <3>2
  <2>2. /\ c.state = "active" /\ c.ext = cr.spec.ext /\ TagsAre(c.tags, WantedTags(cr.spec))
        /\ c.perms = IF des.spec.perms = <<>> THEN DefaultPermissions ELSE ToSet(des.spec.perms)
    BY <1>2 DEF Created
  <2>3. c.perms = Wanted(cr.spec)
    <3>1. ToSet(<<>>) = {}
      BY DEF ToSet
    <3>2. cr.spec \in Specs /\ cr.spec \in SpecFields
      BY SpecsAssumption DEF Typed, Cluster
    <3>3. cr.spec.refs \/ cr.spec.perms # <<>> => WantedPermissions(cr.spec) # <<>>
      <4>1. Append(cr.spec.perms, RefPermission) # <<>>
        BY <3>2 DEF SpecFields
      <4> QED
        BY <3>2, <4>1, WantedIs
    <3> HIDE DEF c
    <3> QED
      BY <1>2, <2>2, <3>1, <3>2, <3>3 DEF Wanted, PermissionsNamed
  <2> HIDE DEF c
  <2>4. \A j \in Ids : shares'[j] = IF j = id THEN c ELSE shares[j]
    BY <1>7, <2>1 DEF Typed
  <2>5. \A j \in Ids : Active(j)' => j = id
    <3>1. Active(id)'
      BY <2>1, <2>2, <2>4 DEF Active
    <3> QED
      BY <2>1, <3>1 DEF AtMostOneShare
  <2>6. shares'[id] = c /\ NearSet(c.perms, Wanted(cr.spec)) /\ Configured(c, cr.spec)
    BY <1>2, <2>1, <2>2, <2>3, <2>4 DEF NearSet, Configured
  <2>7. out'.synced = "error" \/ (out'.synced = "True" /\ out'.arn = id)
    BY <1>7
  <2> QED
    BY <1>1, <1>3, <1>7, <2>1, <2>3, <2>5, <2>6, <2>7 DEF Arrived, OnItsWay
<1> QED
  BY <1>4, <1>5, <1>6, <1>7 DEF SdkCreate, FailWith, FailDesired, Finish, ErrorFor

LEMMA StepEditArrived ==
  ASSUME CarefulUser, Typed, Arrived, EditSpec
  PROVE  OnItsWay' /\ Arrived'
<1>1. PICK s \in Specs : IsSimple(s) /\ cr' = [cr EXCEPT !.spec = s]
  BY DEF EditSpec, CarefulUser
<1>2. /\ cr'.spec = s /\ cr'.arn = cr.arn /\ s \in SpecFields /\ cr.spec \in SpecFields
      /\ UNCHANGED <<shares, pc>> /\ pc = "idle" /\ queued' = TRUE /\ Quiet
  BY <1>1, SpecsAssumption DEF Typed, Cluster, EditSpec, CarefulUser, Quiet, mem
<1>3. \A i \in Ids : Active(i) => cr.arn = i /\ shares[i].perms = Wanted(cr.spec)
  BY <1>2 DEF Arrived
<1>4. NearSet(Wanted(cr.spec), Wanted(s))
  <2> DEFINE a == WantedPermissions(cr.spec)
             b == WantedPermissions(s)
  <2>1. a \in Seq(Permissions) /\ b \in Seq(Permissions)
    <3>1. cr.spec.perms \in Seq(Permissions) /\ s.perms \in Seq(Permissions)
      BY <1>2 DEF SpecFields
    <3>2. \A p \in Seq(Permissions) : Append(p, RefPermission) \in Seq(Permissions)
      BY SubsetAssumption
    <3>3. /\ a = IF cr.spec.refs THEN Append(cr.spec.perms, RefPermission) ELSE cr.spec.perms
          /\ b = IF s.refs THEN Append(s.perms, RefPermission) ELSE s.perms
      BY <1>2, WantedIs
    <3> QED
      BY <3>1, <3>2, <3>3
  <2>2. SimpleChange(a, b)
    BY <1>1 DEF IsSimple
  <2> HIDE DEF a, b
  <2>3. /\ Missing(b, a) \in Seq(Permissions) /\ ToSet(Missing(b, a)) = ToSet(b) \ ToSet(a)
        /\ Missing(a, b) \in Seq(Permissions) /\ ToSet(Missing(a, b)) = ToSet(a) \ ToSet(b)
    BY <2>1, MissingIs
  <2>4. CASE Missing(b, a) = <<>>
    <3>1. ToSet(b) \subseteq ToSet(a)
      BY <2>3, <2>4, EmptyHasNone
    <3> QED
      BY <3>1 DEF NearSet, Wanted, a, b
  <2>5. CASE Len(Missing(b, a)) = 1 /\ Missing(a, b) = <<>>
    <3>1. ToSet(a) \subseteq ToSet(b)
      BY <2>3, <2>5, EmptyHasNone
    <3>2. \A m \in Seq(Permissions) : Len(m) = 1 => ToSet(m) = {m[1]}
      BY DEF ToSet
    <3>3. PICK v : ToSet(b) \ ToSet(a) = {v}
      BY <2>3, <2>5, <3>2
    <3>4. NearSet(ToSet(a), ToSet(b))
      BY <3>1, <3>3 DEF NearSet
    <3> QED
      BY <3>4 DEF Wanted, a, b
  <2> QED
    BY <2>2, <2>4, <2>5 DEF SimpleChange
<1>5. cr.arn \in Ids => cr.arn # NoShare
  BY SubsetAssumption
<1>6. \A i \in Ids : Active(i) => NearSet(shares[i].perms, Wanted(s)) /\ cr.arn # NoShare
  BY <1>3, <1>4, <1>5
<1> QED
  BY <1>2, <1>6 DEF OnItsWay, Arrived, Quiet, FoundPcs, Active

LEMMA StepPatchArrived ==
  ASSUME Typed, OnTheShare, Arrived, PatchStatus, Live
  PROVE  OnItsWay' /\ Arrived'
<1>1. pc = "done" /\ pc' = "idle" /\ UNCHANGED shares
  BY DEF PatchStatus
<1>2. Undisturbed
  BY StepUndisturbed
<1>3. CASE UNCHANGED cr /\ queued' = TRUE
  BY <1>1, <1>2, <1>3, ElsewhereArrived DEF FoundPcs, Quiet
<1>4. CASE /\ cr' = [cr EXCEPT !.arn = out.arn, !.owned = out.owned, !.synced = out.synced]
           /\ queued' = (queued \/ out.synced = "error")
  <2>1. cr'.arn = out.arn /\ cr'.synced = out.synced /\ cr'.spec = cr.spec
    BY <1>4 DEF Typed, Cluster
  <2>2. out.arn = NoShare => cr.arn = NoShare
    BY <1>1 DEF OnTheShare
  <2>3. Quiet' => out.synced # "error"
    BY <1>4 DEF Quiet
  <2>4. pc' # "done" /\ pc' \notin FoundPcs
    BY <1>1 DEF FoundPcs
  <2> QED
    BY <1>1, <2>1, <2>2, <2>3, <2>4 DEF OnItsWay, Arrived, Active
<1> QED
  BY <1>3, <1>4 DEF PatchStatus, Live

LEMMA StepFoundArrived ==
  ASSUME Typed, AtMostOneShare, OnTheShare, InHand, OnItsWay, Arrived,
         Update \/ GetPermissionArns \/ GetPrincipals \/ GetResources, cr'.spec = cr.spec
  PROVE  OnItsWay' /\ Arrived'
<1>1. pc \in FoundPcs
  BY DEF Update, PatchLatestStatus, Untag, Tag, DisassociatePermission, AssociatePermission,
     Disassociate, Associate, UpdateResourceShare, GetPermissionArns, GetPrincipals,
     GetResources, FoundPcs
<1>2. lat.id \in Ids /\ Active(lat.id) /\ cr.arn = lat.id /\ cr.arn # NoShare
  BY <1>1, FoundShare, SubsetAssumption DEF OnTheShare
<1>3. NearSet(shares[lat.id].perms, Wanted(cr.spec))
  BY <1>2 DEF Arrived
<1>4. CASE GetPermissionArns \/ GetPrincipals \/ GetResources
  BY <1>1, <1>2, <1>3, <1>4, StepReadLands, LandsWell
<1>5. CASE PatchLatestStatus \/ Untag \/ Tag
  BY <1>1, <1>2, <1>3, <1>5, StepTagsLands, LandsWell
<1>6. CASE DisassociatePermission \/ AssociatePermission
  BY <1>1, <1>2, <1>6, StepPermissionsLands, LandsWell
<1>7. CASE Disassociate \/ Associate \/ UpdateResourceShare
  <2>1. \A W : NearSet(W, W)
    BY DEF NearSet
  <2> QED
    BY <1>1, <1>2, <1>7, <2>1, StepListsLands, LandsWell
<1> QED
  BY <1>4, <1>5, <1>6, <1>7 DEF Update

LEMMA StepConfInv ==
  ASSUME CarefulUser, NobodyElse, PermissionsNamed, Typed, AtMostOneShare, AtMostOneShare',
         ConfInv, [Next]_vars
  PROVE  ConfInv'
<1> SUFFICES ASSUME Live' PROVE OnTheShare' /\ InHand' /\ OnItsWay' /\ Arrived'
  BY DEF ConfInv
<1>1. /\ Live /\ ~DeleteResource /\ (~EditSpec => cr'.spec = cr.spec)
      /\ (~PatchStatus /\ ~PatchLatestStatus => cr'.arn = cr.arn)
  BY StepLive
<1>2. OnTheShare /\ InHand /\ OnItsWay /\ Arrived
  BY <1>1 DEF ConfInv
<1>3. OnTheShare'
  BY <1>2, StepOnTheShare
<1>4. InHand'
  BY <1>2, StepInHand
<1> SUFFICES OnItsWay' /\ Arrived'
  BY <1>3, <1>4
<1>5. CASE ~EditSpec /\ (Update \/ GetPermissionArns \/ GetPrincipals \/ GetResources)
  BY <1>1, <1>2, <1>5, StepFoundArrived
<1>6. CASE StartReconcile \/ ResolveReferences \/ MarkManaged \/ CrashRestart
  <2>1. Undisturbed
    BY <1>6, StepUndisturbed
  <2>2. pc' \notin FoundPcs /\ ~Quiet' /\ (pc' = "done" => out'.synced = "error")
    BY <1>6 DEF StartReconcile, ResolveReferences, MarkManaged, CrashRestart, Unresolved,
       FailDesired, FailWith, Finish, FoundPcs, Quiet
  <2>3. cr'.spec = cr.spec /\ cr'.arn = cr.arn
    <3>1. CASE CrashRestart
      BY <3>1 DEF CrashRestart
    <3>2. CASE StartReconcile \/ ResolveReferences \/ MarkManaged
      BY <1>1, <3>2 DEF StartReconcile, ResolveReferences, MarkManaged, EditSpec, PatchStatus,
         PatchLatestStatus, CarefulUser, Quiet
    <3> QED
      BY <1>6, <3>1, <3>2
  <2> QED
    BY <1>2, <2>1, <2>2, <2>3, ElsewhereArrived
<1>7. CASE SdkFind
  BY <1>2, <1>7, StepFindArrived
<1>8. CASE SdkCreate
  BY <1>2, <1>8, StepCreateArrived
<1>9. CASE PatchStatus
  BY <1>1, <1>2, <1>9, StepPatchArrived
<1>10. CASE EditSpec
  BY <1>2, <1>10, StepEditArrived
<1>11. CASE Resync \/ TaggedByAws \/ Permission \/ UNCHANGED vars
            \/ \E i \in Ids, k \in Kinds, e \in Entities : Progress(i, k, e)
  <2>1. Undisturbed
    BY <1>11, StepUndisturbed
  <2>2. UNCHANGED <<cr, pc, des, lat, todo, out>> /\ (queued' = queued \/ queued' = TRUE)
    BY <1>11 DEF Resync, TaggedByAws, Permission, PermissionWorker, CreatePermission,
       DeletePermission, ResyncPermission, EditPermission, Progress, vars, mem
  <2> QED
    BY <1>2, <2>1, <2>2, AroundArrived
<1>12. ~(SdkDelete \/ MarkUnmanaged \/ DeletedElsewhere \/ Purge)
  BY <1>2 DEF SdkDelete, MarkUnmanaged, DeletedElsewhere, Purge, OnTheShare, NobodyElse, Fault
<1> QED
  BY <1>1, <1>5, <1>6, <1>7, <1>8, <1>9, <1>10, <1>11, <1>12 DEF Next, Worker, Environment

LEMMA InitConfInv == Init => ConfInv
<1> SUFFICES ASSUME Init PROVE OnTheShare /\ InHand /\ OnItsWay /\ Arrived
  BY DEF ConfInv
<1> QED
  BY InitSettled DEF InHand, OnItsWay, Arrived, FoundPcs, Active, Quiet

LEMMA ConfInvConfigured == Typed /\ ConfInv => SyncedMeansConfigured
<1> SUFFICES ASSUME Typed, ConfInv, SettledSynced
             PROVE  /\ cr.arn \in Ids
                    /\ cr.spec.perms # <<>> => shares[cr.arn].perms = ToSet(cr.spec.perms)
                    /\ cr.spec.refs => shares[cr.arn].perms = {RefPermission}
                    /\ \A k \in TagKeys \ AwsKeys :
                         shares[cr.arn].tags[k] =
                           IF cr.spec.tags[k] = NoTag THEN DefaultTags[k] ELSE cr.spec.tags[k]
                    /\ shares[cr.arn].ext = cr.spec.ext
  BY DEF SyncedMeansConfigured
<1>1. cr.arn \in Ids /\ Configured(shares[cr.arn], cr.spec)
  BY DEF SettledSynced, ConfInv, Live, Arrived
<1>2. cr.spec \in SpecFields
  BY SpecsAssumption DEF Typed, Cluster
<1>3. WantedPermissions(cr.spec) = IF cr.spec.refs THEN Append(cr.spec.perms, RefPermission)
                                   ELSE cr.spec.perms
  BY <1>2, WantedIs
<1>4. cr.spec.perms # <<>> => shares[cr.arn].perms = ToSet(cr.spec.perms)
  BY <1>1, <1>3 DEF Configured, Wanted
<1>5. cr.spec.refs => shares[cr.arn].perms = {RefPermission}
  <2>1. ToSet(Append(<<>>, RefPermission)) = {RefPermission}
    BY DEF ToSet
  <2> QED
    BY <1>1, <1>3, <2>1 DEF Configured, Wanted
<1>6. \A k \in TagKeys \ AwsKeys :
        shares[cr.arn].tags[k] =
          IF cr.spec.tags[k] = NoTag THEN DefaultTags[k] ELSE cr.spec.tags[k]
  BY <1>1 DEF Configured, TagsAre, WantedTags, Ensured
<1> QED
  BY <1>1, <1>4, <1>5, <1>6 DEF Configured

\* Whatever calls, answers or status patches are lost, wherever the controller is
\* restarted, whatever entries RAM refuses, and however many edits a careful user
\* makes: as long as no second share has come into being, a synced resource at rest
\* has the permissions, tags and allowExternalPrincipals of its spec
\* (syncPermissions, syncTags, UpdateResourceShare in sdkUpdate).
THEOREM ConfiguredAsLongAsOne ==
  ASSUME CarefulUser, NobodyElse, PermissionsNamed
  PROVE  Spec /\ []AtMostOneShare => []SyncedMeansConfigured
<1>1. Typed /\ [Next]_vars => Typed'
  BY StepEnvTyped, StepClusterTyped, StepSharesTyped, StepMemTyped DEF Typed
<1>2. Typed /\ AtMostOneShare /\ AtMostOneShare' /\ ConfInv /\ [Next]_vars => ConfInv'
  BY StepConfInv
<1> QED
  BY <1>1, <1>2, InitTyped, InitConfInv, ConfInvConfigured, PTL DEF Spec

\* The same without an assumption on the run, when all specs have one name and
\* nothing is lost on the way to the status.
THEOREM SyncedIsConfigured ==
  ASSUME CarefulUser, NobodyElse, PermissionsNamed, OneName, NothingLost
  PROVE  Spec => []SyncedMeansConfigured
BY OneShare, ConfiguredAsLongAsOne, PTL
=============================================================================
