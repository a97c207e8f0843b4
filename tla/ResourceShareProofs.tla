------------------------ MODULE ResourceShareProofs ------------------------
(***************************************************************************)
(* One share for one custom resource, and none when it is gone: for any    *)
(* specs with the same name, any number of entities, shares, edits and     *)
(* faults, as long as nothing is lost on the way to the status. And the    *)
(* tags that AWS sets are left alone, whatever is lost.                    *)
(***************************************************************************)
EXTENDS ResourceShare, OperatorProofs

OneName == \A s, t \in Specs : s.name = t.name
NothingLost == Faults \cap {"lost", "patch", "crash"} = {}

SpecKeys == {"name", "ext", "refs", "perms", "list", "tags"}

\* What the steps below need to know of the variables' types.
Shaped ==
  /\ DOMAIN cr = {"spec", "arn", "owned", "synced", "life"}
  /\ cr.spec \in Specs /\ cr.owned \in BOOLEAN
  /\ cr.life \in {"unmanaged", "managed", "deleting", "gone"}
  /\ DOMAIN des = {"spec", "arn", "owned", "deleting"}
  /\ DOMAIN des.spec = SpecKeys /\ des.owned \in BOOLEAN /\ des.deleting \in BOOLEAN
  /\ "id" \in DOMAIN lat
  /\ out.owned \in BOOLEAN
  /\ DOMAIN shares = Ids /\ shares = [i \in Ids |-> shares[i]]
  /\ \A i \in Ids : {"state", "name"} \subseteq DOMAIN shares[i]

\* All shares have the one name, under which the worker looks for them.
Named ==
  /\ des.spec.name = cr.spec.name
  /\ \A i \in Ids : shares[i].state # "none" => shares[i].name = cr.spec.name

\* Where a share has been found, and where none is left.
FoundPcs == {"findperms", "findprincipals", "findresources", "status", "untag", "tag",
             "disperm", "asperm", "dis", "as", "update", "delete"}
NonePcs == {"mark", "resolveagain", "create", "unmark"}
NoneActive == \A i \in Ids : ~Active(i)

\* The status knows that there is a share, or is about to.
OwnerKnown ==
  /\ pc # "idle" => des.owned = cr.owned /\ (des.deleting => cr.life = "deleting")
  /\ pc \in FoundPcs => des.owned /\ lat.id \in Ids
  /\ pc = "done" /\ cr.owned => out.owned
  /\ ~NoneActive => cr.owned \/ (pc = "done" /\ out.owned)

FinalizerOn ==
  /\ pc \in {"resolveagain", "create"} => cr.life \in {"managed", "deleting"}
  /\ pc = "delete" => des.deleting
  /\ pc = "unmark" => cr.life = "deleting"
  /\ ~NoneActive => cr.life \in {"managed", "deleting"}

ShareInv ==
  /\ Shaped /\ Named /\ OwnerKnown /\ FinalizerOn
  /\ pc \in NonePcs => NoneActive
  /\ AtMostOneShare

LEMMA BlankSpec == Blank \in Specs /\ \A s \in Specs : DOMAIN s = SpecKeys
BY SpecsAssumption DEF Blank, SpecFields, SpecKeys

LEMMA InitShareInv == ASSUME Init, OneName PROVE ShareInv
<1> USE BlankSpec
<1>1. Shaped
  BY DEF Init, Shaped, NoLatest, NoShareYet
<1>2. Named
  BY DEF Init, Named, OneName, NoShareYet
<1>3. NoneActive /\ pc = "idle"
  BY DEF Init, NoneActive, NoShareYet, Active
<1> QED
  BY <1>1, <1>2, <1>3 DEF ShareInv, OwnerKnown, FinalizerOn, FoundPcs, NonePcs, AtMostOneShare,
     NoneActive

\* What no call of sdkUpdate changes.
UpdatePcs == {"status", "untag", "tag", "disperm", "asperm", "dis", "as", "update"}
Kept ==
  /\ DOMAIN shares' = Ids /\ shares' = [i \in Ids |-> shares'[i]]
  /\ \A i \in Ids : /\ {"state", "name"} \subseteq DOMAIN shares'[i]
                    /\ shares'[i].state = shares[i].state
                    /\ shares'[i].name \in {shares[i].name, des.spec.name}

\* ... and how each of them goes on.
Ended == pc' = "done" /\ (out'.owned = TRUE \/ out'.owned = des.owned)

LEMMA StepUpdate ==
  ASSUME Shaped, Update, pc \in FoundPcs => lat.id \in Ids
  PROVE  /\ UNCHANGED <<des, lat>> /\ Kept
         /\ DOMAIN cr' = DOMAIN cr /\ UNCHANGED <<cr.spec, cr.life>>
         /\ cr'.owned = cr.owned \/ cr'.owned = TRUE
         /\ pc \in UpdatePcs /\ ((UNCHANGED out /\ pc' \in UpdatePcs) \/ Ended)
<1> DEFINE Goes == UNCHANGED out /\ pc' \in UpdatePcs
<1> USE DEF Call, NoCall, GoTo, AfterTags, AfterPermissions, AfterLists, Updated, FailLatest,
            FailWith, Finish, UpdatePcs, rest
<1>0. UNCHANGED shares => Kept
  BY DEF Shaped, Kept
<1>1. CASE PatchLatestStatus
  <2>1. Goes \/ Ended
    BY <1>1 DEF PatchLatestStatus, Ended
  <2>2. cr'.owned = cr.owned \/ cr'.owned = TRUE
    BY <1>1 DEF PatchLatestStatus, Shaped
  <2>3. DOMAIN cr' = DOMAIN cr /\ UNCHANGED <<cr.spec, cr.life>>
    BY <1>1 DEF PatchLatestStatus, Shaped
  <2> QED
    BY <1>0, <1>1, <2>1, <2>2, <2>3 DEF PatchLatestStatus
<1>2. CASE Untag
  <2>1. Goes \/ Ended
    BY <1>2 DEF Untag, Ended
  <2>2. Kept
    BY <1>0, <1>2 DEF Untag, Shaped, Kept, FoundPcs
  <2> QED
    BY <1>2, <2>1, <2>2 DEF Untag
<1>3. CASE Tag
  <2>1. Goes \/ Ended
    BY <1>3 DEF Tag, Ended
  <2>2. Kept
    BY <1>0, <1>3 DEF Tag, Shaped, Kept, FoundPcs
  <2> QED
    BY <1>3, <2>1, <2>2 DEF Tag
<1>4. CASE DisassociatePermission
  <2>1. Goes \/ Ended
    BY <1>4 DEF DisassociatePermission, Ended
  <2>2. Kept
    BY <1>0, <1>4 DEF DisassociatePermission, Shaped, Kept, FoundPcs
  <2> QED
    BY <1>4, <2>1, <2>2 DEF DisassociatePermission
<1>5. CASE AssociatePermission
  <2>1. Goes \/ Ended
    BY <1>5 DEF AssociatePermission, Ended
  <2>2. Kept
    BY <1>0, <1>5 DEF AssociatePermission, Shaped, Kept, FoundPcs
  <2> QED
    BY <1>5, <2>1, <2>2 DEF AssociatePermission
<1>6. CASE Disassociate
  <2>1. Goes \/ Ended
    BY <1>6 DEF Disassociate, Ended
  <2>2. Kept
    BY <1>0, <1>6 DEF Disassociate, Shaped, Kept, FoundPcs
  <2> QED
    BY <1>6, <2>1, <2>2 DEF Disassociate
<1>7. CASE Associate
  <2>1. Goes \/ Ended
    BY <1>7 DEF Associate, Ended
  <2>2. Kept
    BY <1>0, <1>7 DEF Associate, Shaped, Kept, FoundPcs
  <2> QED
    BY <1>7, <2>1, <2>2 DEF Associate
<1>8. CASE UpdateResourceShare
  <2>1. Goes \/ Ended
    BY <1>8 DEF UpdateResourceShare, Ended
  <2>2. Kept
    BY <1>0, <1>8 DEF UpdateResourceShare, Shaped, Kept, FoundPcs
  <2> QED
    BY <1>8, <2>1, <2>2 DEF UpdateResourceShare
<1> QED
  BY <1>1, <1>2, <1>3, <1>4, <1>5, <1>6, <1>7, <1>8 DEF Update

\* What deleting a share changes.
Dead(k) ==
  /\ DOMAIN shares' = Ids /\ shares' = [i \in Ids |-> shares'[i]]
  /\ \A i \in Ids : /\ {"state", "name"} \subseteq DOMAIN shares'[i]
                    /\ shares'[i].state = IF i = k THEN "deleted" ELSE shares[i].state
                    /\ shares'[i].name = shares[i].name

LEMMA DeletedIsDead ==
  ASSUME Shaped, NEW k \in Ids, shares' = Deleted(k)
  PROVE  Dead(k)
BY DEF Shaped, Deleted, Dead

LEMMA DeadIsShaped ==
  ASSUME Shaped, Named, NEW k \in Ids, (Dead(k) /\ Active(k)) \/ UNCHANGED shares,
         UNCHANGED <<cr, des, lat>>, out'.owned \in BOOLEAN
  PROVE  Shaped' /\ Named'
<1>1. Shaped'
  BY DEF Shaped, Dead
<1>2. \A i \in Ids : shares'[i].state # "none" => shares[i].state # "none"
  BY DEF Dead, Active
<1>3. \A i \in Ids : shares'[i].name = shares[i].name
  BY DEF Dead
<1>4. Named'
  BY <1>2, <1>3 DEF Named
<1> QED
  BY <1>1, <1>4

\* Neither references nor tags change the name.
LEMMA SpecChanges ==
  ASSUME NEW s, DOMAIN s = SpecKeys, NEW tags
  PROVE  \A t \in {Resolved(s), Cleared(s), EnsureTags(s), [s EXCEPT !.tags = tags]} :
           DOMAIN t = SpecKeys /\ t.name = s.name
BY DEF SpecKeys, Resolved, Cleared, EnsureTags

LEMMA NoPatchFault == ASSUME NothingLost PROVE ~Fault("patch") /\ ~Fault("lost") /\ ~Fault("crash")
BY DEF NothingLost, Fault

LEMMA ForgetShaped ==
  ASSUME Forget
  PROVE  /\ DOMAIN des' = {"spec", "arn", "owned", "deleting"} /\ DOMAIN des'.spec = SpecKeys
         /\ des'.owned \in BOOLEAN /\ des'.deleting \in BOOLEAN
         /\ "id" \in DOMAIN lat' /\ out'.owned \in BOOLEAN
BY BlankSpec DEF Forget, NoLatest

\* Steps that concern neither the share nor its worker.
LEMMA StepElsewhere ==
  ASSUME ShareInv, UNCHANGED <<cr, shares, pc, des, lat, out>>
  PROVE  ShareInv'
BY DEF ShareInv, Shaped, Named, OwnerKnown, FinalizerOn, NoneActive, Active, AtMostOneShare,
   FoundPcs, NonePcs

\* No step breaks the invariant.
LEMMA StepShareInv ==
  ASSUME OneName, NothingLost, ShareInv, [Next]_vars
  PROVE  ShareInv'
<1> USE BlankSpec DEF ShareInv, rest, env, mem
<1>0. CASE Update
  <2>1. Shaped'
    BY <1>0, StepUpdate DEF Shaped, OwnerKnown, Kept, Ended
  <2>2. Named'
    BY <1>0, StepUpdate DEF OwnerKnown, Kept, Named
  <2>3. OwnerKnown'
    BY <1>0, StepUpdate DEF Shaped, OwnerKnown, Kept, Ended, NoneActive, Active, UpdatePcs,
       FoundPcs
  <2>4. FinalizerOn'
    BY <1>0, StepUpdate DEF OwnerKnown, FinalizerOn, Kept, Ended, NoneActive, Active, UpdatePcs
  <2>5. (pc \in NonePcs => NoneActive)' /\ AtMostOneShare'
    BY <1>0, StepUpdate DEF OwnerKnown, AtMostOneShare, Kept, Ended, Active, UpdatePcs, NonePcs
  <2> QED
    BY <2>1, <2>2, <2>3, <2>4, <2>5
<1>1. CASE StartReconcile
  <2>0. /\ UNCHANGED <<cr, shares, lat, out>> /\ des'.spec = EnsureTags(cr.spec)
        /\ DOMAIN des' = {"spec", "arn", "owned", "deleting"}
        /\ des'.owned = cr.owned /\ des'.deleting \in BOOLEAN
    BY <1>1 DEF StartReconcile
  <2>1. Shaped' /\ Named'
    <3>1. DOMAIN des'.spec = SpecKeys /\ des'.spec.name = cr.spec.name
      BY <2>0, SpecChanges DEF Shaped
    <3> QED
      BY <2>0, <3>1 DEF Shaped, Named
  <2>3. OwnerKnown'
    BY <1>1 DEF StartReconcile, Shaped, Named, OwnerKnown, NoneActive, Active, NonePcs, FoundPcs
  <2>4. FinalizerOn'
    BY <1>1 DEF StartReconcile, Shaped, OwnerKnown, FinalizerOn, NoneActive, Active, NonePcs
  <2>5. (pc \in NonePcs => NoneActive)' /\ AtMostOneShare'
    BY <1>1 DEF StartReconcile, Shaped, Named, OwnerKnown, AtMostOneShare, NoneActive, Active,
       NonePcs
  <2> QED
    BY <2>1, <2>3, <2>4, <2>5
<1>2. CASE ResolveReferences
  <2>1. /\ UNCHANGED <<cr, shares, lat>> /\ pc \in {"resolve", "resolveagain"}
        /\ \/ /\ des' = [des EXCEPT !.spec = Resolved(@)] /\ UNCHANGED out
              /\ pc' = IF pc = "resolve" THEN "find" ELSE "create"
           \/ UNCHANGED des /\ pc' = "done" /\ out'.owned = des.owned
    BY <1>2 DEF ResolveReferences, Unresolved, FailDesired, FailWith, Finish
  <2>2. /\ DOMAIN des' = DOMAIN des /\ UNCHANGED <<des.owned, des.deleting>>
        /\ des'.spec \in {des.spec, Resolved(des.spec)}
    BY <2>1 DEF Shaped
  <2>3. DOMAIN des'.spec = SpecKeys /\ des'.spec.name = des.spec.name
    BY <2>2, SpecChanges DEF Shaped
  <2>4. Shaped' /\ Named'
    BY <2>1, <2>2, <2>3 DEF Shaped, Named
  <2>5. OwnerKnown' /\ FinalizerOn'
    BY <2>1, <2>2 DEF OwnerKnown, FinalizerOn, NoneActive, Active, FoundPcs
  <2>6. (pc \in NonePcs => NoneActive)' /\ AtMostOneShare'
    BY <2>1 DEF AtMostOneShare, NoneActive, Active, NonePcs
  <2> QED
    BY <2>4, <2>5, <2>6
<1>3. CASE SdkFind
  <2>1. /\ UNCHANGED <<cr, shares>> /\ pc = "find"
        /\ \/ /\ UNCHANGED <<des, out>> /\ "id" \in DOMAIN lat' /\ Listed = {}
              /\ pc' \in NonePcs \ {"resolveagain"}
              /\ pc' = "unmark" => des.deleting
              /\ pc' = "create" => cr.life \in {"managed", "deleting"}
           \/ /\ pc' = "findperms" /\ UNCHANGED out /\ "id" \in DOMAIN lat'
              /\ lat'.id \in Listed
              /\ \E t : des' = [des EXCEPT !.spec.tags = t]
           \/ /\ pc' = "done" /\ out'.owned = des.owned /\ UNCHANGED <<des, lat>>
    BY <1>3 DEF SdkFind, FailDesired, FailWith, Finish, Shaped, NonePcs
  <2>2. DOMAIN des' = DOMAIN des /\ UNCHANGED <<des.owned, des.deleting>>
        /\ (UNCHANGED des \/ \E t : des'.spec = [des.spec EXCEPT !.tags = t])
    <3>1. CASE \E t : des' = [des EXCEPT !.spec.tags = t]
      BY <3>1 DEF Shaped
    <3> QED
      BY <2>1, <3>1
  <2>3. DOMAIN des'.spec = SpecKeys /\ des'.spec.name = des.spec.name
    <3>1. \A t : DOMAIN [des.spec EXCEPT !.tags = t] = SpecKeys
                 /\ [des.spec EXCEPT !.tags = t].name = des.spec.name
      BY SpecChanges DEF Shaped
    <3>2. CASE \E t : des'.spec = [des.spec EXCEPT !.tags = t]
      BY <3>1, <3>2
    <3> QED
      BY <2>2, <3>2 DEF Shaped
  <2>4. Shaped' /\ Named'
    BY <2>1, <2>2, <2>3 DEF Shaped, Named
  <2>5. Listed = {} => NoneActive
    BY <2>1 DEF Listed, Visible, NoneActive, Active, OwnerKnown, Named
  <2>6. lat'.id \in Listed => lat'.id \in Ids /\ des.owned
    BY DEF Listed
  <2>7. OwnerKnown' /\ FinalizerOn'
    BY <2>1, <2>2, <2>5, <2>6 DEF OwnerKnown, FinalizerOn, NoneActive, Active, FoundPcs, NonePcs
  <2>8. (pc \in NonePcs => NoneActive)' /\ AtMostOneShare'
    BY <2>1, <2>5 DEF AtMostOneShare, NoneActive, Active, NonePcs
  <2> QED
    BY <2>4, <2>7, <2>8
<1>4. CASE GetPermissionArns
  <2>1. /\ UNCHANGED <<cr, shares, des>> /\ pc \in FoundPcs /\ "id" \in DOMAIN lat'
        /\ \/ /\ lat'.id = lat.id /\ UNCHANGED out
              /\ pc' = "findprincipals"
           \/ /\ pc' = "done" /\ (out'.owned = TRUE \/ out'.owned = des.owned)
    <3>1. lat' = lat \/ lat' = [lat EXCEPT !.perms = shares[lat.id].perms]
      BY <1>4 DEF GetPermissionArns
    <3>2. "id" \in DOMAIN lat' /\ lat'.id = lat.id
      BY <3>1 DEF Shaped
    <3> QED
      BY <1>4, <3>2 DEF GetPermissionArns, FailDesired, FailLatest, FailWith, Finish, FoundPcs
  <2> QED
    BY <2>1 DEF Shaped, Named, OwnerKnown, FinalizerOn, NoneActive, Active, AtMostOneShare,
       FoundPcs, NonePcs
<1>5. CASE GetPrincipals
  <2>1. /\ UNCHANGED <<cr, shares, des>> /\ pc \in FoundPcs /\ "id" \in DOMAIN lat'
        /\ \/ /\ lat'.id = lat.id /\ UNCHANGED out
              /\ pc' = "findresources"
           \/ /\ pc' = "done" /\ (out'.owned = TRUE \/ out'.owned = des.owned)
    <3>1. lat' = lat \/ lat' = [lat EXCEPT !.list["principal"] = Read("principal")]
      BY <1>5 DEF GetPrincipals
    <3>2. "id" \in DOMAIN lat' /\ lat'.id = lat.id
      BY <3>1 DEF Shaped
    <3> QED
      BY <1>5, <3>2 DEF GetPrincipals, FailDesired, FailLatest, FailWith, Finish, FoundPcs
  <2> QED
    BY <2>1 DEF Shaped, Named, OwnerKnown, FinalizerOn, NoneActive, Active, AtMostOneShare,
       FoundPcs, NonePcs
<1>6. CASE GetResources
  <2>1. /\ UNCHANGED <<cr, shares, des>> /\ pc \in FoundPcs /\ "id" \in DOMAIN lat'
        /\ \/ /\ lat'.id = lat.id /\ UNCHANGED out
              /\ (pc' = "delete" /\ des.deleting) \/ pc' = "status"
           \/ /\ pc' = "done" /\ (out'.owned = TRUE \/ out'.owned = des.owned)
    <3>1. lat' = lat \/ lat' = [lat EXCEPT !.list["resource"] = Read("resource")]
      BY <1>6 DEF GetResources
    <3>2. "id" \in DOMAIN lat' /\ lat'.id = lat.id
      BY <3>1 DEF Shaped
    <3> QED
      BY <1>6, <3>2 DEF GetResources, FailDesired, FailLatest, FailWith, Finish, FoundPcs
  <2> QED
    BY <2>1 DEF Shaped, Named, OwnerKnown, FinalizerOn, NoneActive, Active, AtMostOneShare,
       FoundPcs, NonePcs
<1>7. CASE MarkManaged
  <2>1. /\ UNCHANGED <<shares, lat>> /\ pc = "mark"
        /\ \/ /\ cr' = [cr EXCEPT !.life = "managed"] /\ des' = [des EXCEPT !.spec = Cleared(@)]
              /\ pc' \in {"resolveagain", "create"} /\ UNCHANGED out
           \/ UNCHANGED <<cr, des>> /\ pc' = "done" /\ out'.owned = des.owned
        /\ cr' = cr \/ cr.life = "unmanaged"
    BY <1>7 DEF MarkManaged, FailDesired, FailWith, Finish
  <2>2. /\ DOMAIN des' = DOMAIN des /\ UNCHANGED <<des.owned, des.deleting>>
        /\ des'.spec \in {des.spec, Cleared(des.spec)}
    BY <2>1 DEF Shaped
  <2>3. /\ DOMAIN cr' = DOMAIN cr /\ UNCHANGED <<cr.spec, cr.owned>>
        /\ cr'.life = cr.life \/ (cr.life = "unmanaged" /\ cr'.life = "managed")
        /\ pc' # "done" => cr'.life = "managed"
    <3>1. CASE cr' = [cr EXCEPT !.life = "managed"]
      <4>1. DOMAIN cr' = DOMAIN cr /\ UNCHANGED <<cr.spec, cr.owned>> /\ cr'.life = "managed"
        BY <3>1 DEF Shaped
      <4>2. cr' = cr => cr.life = "managed"
        BY <4>1
      <4> QED
        BY <2>1, <4>1, <4>2
    <3>2. CASE UNCHANGED cr /\ pc' = "done"
      BY <3>2
    <3> QED
      BY <2>1, <3>1, <3>2
  <2>4. DOMAIN des'.spec = SpecKeys /\ des'.spec.name = des.spec.name
    BY <2>2, SpecChanges DEF Shaped
  <2>5. Shaped' /\ Named'
    BY <2>1, <2>2, <2>3, <2>4 DEF Shaped, Named
  <2>6. OwnerKnown' /\ FinalizerOn'
    BY <2>1, <2>2, <2>3 DEF OwnerKnown, FinalizerOn, NoneActive, Active, FoundPcs, NonePcs
  <2>7. (pc \in NonePcs => NoneActive)' /\ AtMostOneShare'
    BY <2>1 DEF AtMostOneShare, NoneActive, Active, NonePcs
  <2> QED
    BY <2>5, <2>6, <2>7
<1>8. CASE SdkCreate
  <2>1. /\ UNCHANGED <<cr, des, lat>> /\ pc = "create" /\ pc' = "done" /\ NoneActive
        /\ \/ UNCHANGED shares /\ out'.owned = des.owned
           \/ out'.owned = TRUE /\ \E id : shares' = [shares EXCEPT ![id] = Created(des.spec)]
    BY <1>8 DEF SdkCreate, FailDesired, FailWith, Finish, Fault, NothingLost, NonePcs
  <2>2. CASE UNCHANGED shares /\ out'.owned = des.owned
    BY <2>1, <2>2 DEF Shaped, Named, OwnerKnown, FinalizerOn, NoneActive, Active, NonePcs,
       FoundPcs, AtMostOneShare
  <2>3. CASE out'.owned = TRUE /\ \E id : shares' = [shares EXCEPT ![id] = Created(des.spec)]
    <3>1. PICK id : shares' = [shares EXCEPT ![id] = Created(des.spec)]
      BY <2>3
    <3>2. /\ DOMAIN shares' = Ids /\ shares' = [i \in Ids |-> shares'[i]]
          /\ \A i \in Ids : shares'[i] = IF i = id THEN Created(des.spec) ELSE shares[i]
      BY <3>1 DEF Shaped
    <3>3. /\ {"state", "name"} \subseteq DOMAIN Created(des.spec)
          /\ Created(des.spec).name = cr.spec.name
      BY DEF Created, Named
    <3>4. Shaped'
      <4>1. out'.owned \in BOOLEAN
        BY <2>3
      <4>2. \A i \in Ids : {"state", "name"} \subseteq DOMAIN shares'[i]
        BY <3>2, <3>3 DEF Shaped
      <4> QED
        BY <2>1, <3>2, <4>1, <4>2 DEF Shaped
    <3>5. Named'
      BY <2>1, <3>2, <3>3 DEF Named
    <3>6. OwnerKnown' /\ FinalizerOn'
      BY <2>1, <2>3, <3>2 DEF OwnerKnown, FinalizerOn, FoundPcs
    <3>7. AtMostOneShare'
      BY <2>1, <3>2 DEF AtMostOneShare, NoneActive, Active
    <3> QED
      BY <2>1, <3>4, <3>5, <3>6, <3>7 DEF NonePcs
  <2> QED
    BY <2>1, <2>2, <2>3
<1>9. CASE PatchStatus
  <2>1. Shaped'
    <3>1. DOMAIN cr' = DOMAIN cr /\ UNCHANGED <<cr.spec, cr.life>>
      BY <1>9 DEF PatchStatus, Shaped
    <3>3. cr'.owned \in BOOLEAN
      <4>1. cr' = cr \/ \E a, b : cr' = [cr EXCEPT !.arn = a, !.owned = out.owned, !.synced = b]
        BY <1>9 DEF PatchStatus
      <4> QED
        BY <4>1 DEF Shaped
    <3>2. UNCHANGED shares /\ Forget
      BY <1>9 DEF PatchStatus
    <3> QED
      BY <3>1, <3>2, <3>3, ForgetShaped DEF Shaped
  <2>2. Named'
    BY <1>9 DEF PatchStatus, Forget, NoLatest, Fault, Shaped, Named, OneName
  <2>3. OwnerKnown'
    BY <1>9 DEF PatchStatus, Forget, NoLatest, Fault, NothingLost,
       FinalizerOn, Shaped, Named, OwnerKnown, NoneActive, Active, NonePcs, FoundPcs
  <2>4. FinalizerOn'
    BY <1>9 DEF PatchStatus, Forget, NoLatest, Fault, Shaped, OwnerKnown, FinalizerOn,
       NoneActive, Active, NonePcs
  <2>5. (pc \in NonePcs => NoneActive)' /\ AtMostOneShare'
    BY <1>9 DEF PatchStatus, Forget, NoLatest, Fault, NothingLost,
       FinalizerOn, Shaped, Named, OwnerKnown, AtMostOneShare, NoneActive, Active, NonePcs
  <2> QED
    BY <2>1, <2>2, <2>3, <2>4, <2>5
<1>10. CASE SdkDelete
  <2>1. /\ UNCHANGED <<cr, des, lat>> /\ pc = "delete" /\ lat.id \in Ids
        /\ \/ shares' = Deleted(lat.id) /\ Active(lat.id)
           \/ UNCHANGED shares
        /\ \/ UNCHANGED out /\ pc' = "unmark" /\ shares' = Deleted(lat.id) /\ Active(lat.id)
           \/ pc' = "done" /\ out'.owned = TRUE
    BY <1>10 DEF SdkDelete, DeleteFailed, FailLatest, FailWith, Finish, OwnerKnown, FoundPcs
  <2>2. shares' = Deleted(lat.id) => Dead(lat.id)
    BY <2>1, DeletedIsDead
  <2>3. Shaped' /\ Named'
    <3>1. out'.owned \in BOOLEAN
      BY <2>1 DEF Shaped
    <3> QED
      BY <2>1, <2>2, <3>1, DeadIsShaped
  <2>4. NoneActive => NoneActive'
    BY <2>1, <2>2 DEF NoneActive, Active, Dead
  <2>5. cr.life = "deleting"
    BY <2>1 DEF OwnerKnown, FinalizerOn
  <2>6. OwnerKnown' /\ FinalizerOn'
    BY <2>1, <2>4, <2>5 DEF OwnerKnown, FinalizerOn, FoundPcs
  <2>7. pc' = "unmark" => NoneActive'
    BY <2>1, <2>2 DEF AtMostOneShare, NoneActive, Active, Dead
  <2>8. AtMostOneShare'
    BY <2>1, <2>2 DEF AtMostOneShare, Active, Dead
  <2> QED
    BY <2>1, <2>3, <2>6, <2>7, <2>8 DEF NonePcs
<1>11. CASE MarkUnmanaged
  <2>1. /\ UNCHANGED shares /\ pc = "unmark" /\ pc' = "idle"
        /\ cr' = [cr EXCEPT !.life = "gone"] /\ Forget
    BY <1>11, NoPatchFault DEF MarkUnmanaged
  <2>2. DOMAIN cr' = DOMAIN cr /\ UNCHANGED <<cr.spec, cr.owned>> /\ cr'.life = "gone"
    BY <2>1 DEF Shaped
  <2>3. Shaped'
    BY <2>1, <2>2, ForgetShaped DEF Shaped
  <2>4. Named'
    BY <2>1, <2>2 DEF Forget, Shaped, Named, OneName
  <2>5. OwnerKnown' /\ FinalizerOn' /\ AtMostOneShare'
    BY <2>1, <2>2 DEF OwnerKnown, FinalizerOn, AtMostOneShare, NoneActive, Active, NonePcs,
       FoundPcs
  <2> QED
    BY <2>1, <2>3, <2>4, <2>5 DEF NonePcs
<1>12. CASE EditSpec
  <2>1. Shaped'
    BY <1>12 DEF EditSpec, Shaped
  <2>2. Named'
    BY <1>12 DEF EditSpec, Shaped, Named, OneName
  <2>3. OwnerKnown'
    BY <1>12 DEF EditSpec, Shaped, Named, OwnerKnown, NoneActive, Active, NonePcs, FoundPcs
  <2>4. FinalizerOn'
    BY <1>12 DEF EditSpec, Shaped, OwnerKnown, FinalizerOn, NoneActive, Active, NonePcs
  <2>5. (pc \in NonePcs => NoneActive)' /\ AtMostOneShare'
    BY <1>12 DEF EditSpec, Shaped, Named, OwnerKnown, AtMostOneShare, NoneActive, Active, NonePcs
  <2> QED
    BY <2>1, <2>2, <2>3, <2>4, <2>5
<1>13. CASE DeleteResource
  <2>1. Shaped'
    BY <1>13 DEF DeleteResource, Shaped
  <2>2. Named'
    BY <1>13 DEF DeleteResource, Shaped, Named, OneName
  <2>3. OwnerKnown'
    BY <1>13 DEF DeleteResource, Shaped, Named, OwnerKnown, NoneActive, Active, NonePcs, FoundPcs
  <2>4. FinalizerOn'
    BY <1>13 DEF DeleteResource, Shaped, OwnerKnown, FinalizerOn, NoneActive, Active, NonePcs
  <2>5. (pc \in NonePcs => NoneActive)' /\ AtMostOneShare'
    BY <1>13 DEF DeleteResource, Shaped, Named, OwnerKnown, AtMostOneShare, NoneActive, Active,
       NonePcs
  <2> QED
    BY <2>1, <2>2, <2>3, <2>4, <2>5
<1>14. CASE Resync
  BY <1>14, StepElsewhere DEF Resync
<1>15. CASE CrashRestart
  BY <1>15 DEF CrashRestart, Fault, NothingLost
<1>16. CASE DeletedElsewhere
  <2>1. /\ UNCHANGED <<cr, des, lat, out, pc>>
        /\ \E k \in Ids : Active(k) /\ shares' = Deleted(k)
    BY <1>16 DEF DeletedElsewhere
  <2>2. PICK k \in Ids : Dead(k) /\ Active(k)
    BY <2>1, DeletedIsDead
  <2>3. Shaped' /\ Named'
    <3>1. out'.owned \in BOOLEAN
      BY <2>1 DEF Shaped
    <3> QED
      BY <2>1, <2>2, <3>1, DeadIsShaped
  <2>4. NoneActive => NoneActive'
    BY <2>2 DEF NoneActive, Active, Dead
  <2>5. OwnerKnown' /\ FinalizerOn' /\ (pc \in NonePcs => NoneActive)'
    BY <2>1, <2>4 DEF OwnerKnown, FinalizerOn
  <2>6. AtMostOneShare'
    BY <2>2 DEF AtMostOneShare, Active, Dead
  <2> QED
    BY <2>3, <2>5, <2>6
<1>17. CASE Purge
  <2>1. Shaped'
    BY <1>17 DEF Purge, Shaped
  <2>2. Named'
    BY <1>17 DEF Purge, Shaped, Named, OneName
  <2>3. OwnerKnown'
    BY <1>17 DEF Purge, Shaped, Named, OwnerKnown, NoneActive, Active, NonePcs, FoundPcs
  <2>4. FinalizerOn'
    BY <1>17 DEF Purge, Shaped, OwnerKnown, FinalizerOn, NoneActive, Active, NonePcs
  <2>5. (pc \in NonePcs => NoneActive)' /\ AtMostOneShare'
    BY <1>17 DEF Purge, Shaped, Named, OwnerKnown, AtMostOneShare, NoneActive, Active, NonePcs
  <2> QED
    BY <2>1, <2>2, <2>3, <2>4, <2>5
<1>18. CASE \E i \in Ids, k \in Kinds, e \in Entities : Progress(i, k, e)
  <2>1. Shaped'
    BY <1>18 DEF Progress, Shaped
  <2>2. Named'
    BY <1>18 DEF Progress, Shaped, Named, OneName
  <2>3. OwnerKnown'
    BY <1>18 DEF Progress, Shaped, Named, OwnerKnown, NoneActive, Active, NonePcs, FoundPcs
  <2>4. FinalizerOn'
    BY <1>18 DEF Progress, Shaped, OwnerKnown, FinalizerOn, NoneActive, Active, NonePcs
  <2>5. (pc \in NonePcs => NoneActive)' /\ AtMostOneShare'
    BY <1>18 DEF Progress, Shaped, Named, OwnerKnown, AtMostOneShare, NoneActive, Active, NonePcs
  <2> QED
    BY <2>1, <2>2, <2>3, <2>4, <2>5
<1>19. CASE Permission
  BY <1>19, StepElsewhere DEF Permission, PermissionWorker, CreatePermission, DeletePermission,
     ResyncPermission, EditPermission
<1>20. CASE UNCHANGED vars
  BY <1>20, StepElsewhere DEF vars
<1>21. CASE TaggedByAws
  <2>1. /\ UNCHANGED <<cr, pc, des, lat, out>>
    BY <1>21 DEF TaggedByAws
  <2>2. /\ DOMAIN shares' = Ids /\ shares' = [i \in Ids |-> shares'[i]]
        /\ \A i \in Ids : /\ {"state", "name"} \subseteq DOMAIN shares'[i]
                          /\ shares'[i].state = shares[i].state
                          /\ shares'[i].name = shares[i].name
    <3>1. PICK k \in Ids, a \in AwsKeys :
            shares' = [shares EXCEPT ![k].tags[a] = CHOOSE v \in TagVals : TRUE]
      BY <1>21 DEF TaggedByAws
    <3>2. \A t : LET s == [shares[k] EXCEPT !.tags[a] = t]
                IN  /\ DOMAIN s = DOMAIN shares[k]
                    /\ {"state", "name"} \subseteq DOMAIN shares[k]
                         => s.state = shares[k].state /\ s.name = shares[k].name
      OBVIOUS
    <3>3. DOMAIN shares' = Ids /\ shares' = [i \in Ids |-> shares'[i]]
      <4> DEFINE t == [shares[k] EXCEPT !.tags[a] = CHOOSE v \in TagVals : TRUE]
      <4>1. shares' = [shares EXCEPT ![k] = t]
        BY <3>1
      <4> HIDE DEF t
      <4> QED
        BY <4>1 DEF Shaped
    <3>4. \A i \in Ids : i # k => shares'[i] = shares[i]
      BY <3>1 DEF Shaped
    <3>5. shares'[k] = [shares[k] EXCEPT !.tags[a] = CHOOSE v \in TagVals : TRUE]
      BY <3>1 DEF Shaped
    <3> QED
      BY <3>2, <3>3, <3>4, <3>5 DEF Shaped
  <2> QED
    BY <2>1, <2>2 DEF Shaped, Named, OwnerKnown, FinalizerOn, NoneActive, Active, AtMostOneShare,
       FoundPcs, NonePcs
<1> QED
  BY <1>21, <1>0, <1>1, <1>2, <1>3, <1>4, <1>5, <1>6, <1>7, <1>8, <1>9, <1>10, <1>11, <1>12,
     <1>13,
     <1>14, <1>15, <1>16, <1>17, <1>18, <1>19, <1>20 DEF Next, Worker, Environment

\* Whatever specs the user may write under one name, and whatever calls fail,
\* one custom resource never has two shares alive in RAM, provided that every
\* share created reaches the status: no answer of CreateResourceShare and no
\* status patch is lost, and the controller is not restarted (sdkFind, sdkCreate).
THEOREM OneShare == ASSUME OneName, NothingLost PROVE Spec => []AtMostOneShare
<1>1. Init => ShareInv
  BY InitShareInv
<1>2. ShareInv /\ [Next]_vars => ShareInv'
  BY StepShareInv
<1>3. ShareInv => AtMostOneShare
  BY DEF ShareInv
<1> QED
  BY <1>1, <1>2, <1>3, PTL DEF Spec

\* Under the same assumptions the finalizer stays on the custom resource until
\* its share is gone from RAM (sdkDelete, MarkManaged, MarkUnmanaged).
THEOREM ShareFinalizerHolds == ASSUME OneName, NothingLost PROVE Spec => []GoneMeansCleaned
<1>1. Init => ShareInv
  BY InitShareInv
<1>2. ShareInv /\ [Next]_vars => ShareInv'
  BY StepShareInv
<1>3. ShareInv => GoneMeansCleaned
  BY DEF ShareInv, FinalizerOn, NoneActive, GoneMeansCleaned
<1> QED
  BY <1>1, <1>2, <1>3, PTL DEF Spec

-----------------------------------------------------------------------------
(* Tags.                                                                   *)

\* Neither the user nor the controller's configuration has tags of AWS.
NoAwsTags == /\ \A s \in Specs, k \in AwsKeys : s.tags[k] = NoTag
             /\ \A k \in AwsKeys : DefaultTags[k] = NoTag

\* From the moment the share is found, the aws: tags in hand are those read.
TagsInHand ==
  /\ "spec" \in DOMAIN cr /\ cr.spec \in Specs
  /\ "spec" \in DOMAIN des /\ DOMAIN des.spec = SpecKeys
  /\ "tags" \in DOMAIN lat
  /\ pc \in FoundPcs => \A k \in AwsKeys : des.spec.tags[k] = lat.tags[k]
  /\ pc \in {"resolve", "find"} => \A k \in AwsKeys : des.spec.tags[k] = NoTag

\* Steps that leave the spec and the tags alone, and do not begin a reconcile.
LEMMA StepOtherwise ==
  ASSUME TagsInHand, UNCHANGED des, "tags" \in DOMAIN lat', lat'.tags = lat.tags,
         "spec" \in DOMAIN cr', cr'.spec = cr.spec,
         \/ pc' \notin FoundPcs \cup {"resolve", "find"}
         \/ pc' = pc \/ (pc \in FoundPcs /\ pc' \in FoundPcs)
  PROVE  TagsInHand'
BY DEF TagsInHand, FoundPcs

LEMMA StepForget ==
  ASSUME TagsInHand, Forget, pc' = "idle", "spec" \in DOMAIN cr', cr'.spec = cr.spec
  PROVE  TagsInHand'
BY BlankSpec DEF TagsInHand, Forget, NoLatest, FoundPcs

LEMMA StepTagsInHand ==
  ASSUME NoAwsTags, TagsInHand, [Next]_vars
  PROVE  TagsInHand'
<1> USE SubsetAssumption DEF rest, env, mem, NoFault
<1>1. CASE StartReconcile
  <2>1. "spec" \in DOMAIN des' /\ des'.spec = EnsureTags(cr.spec) /\ UNCHANGED <<cr, lat>>
        /\ pc' \in {"resolve", "find"}
    BY <1>1 DEF StartReconcile
  <2>2. DOMAIN cr.spec = SpecKeys
    BY BlankSpec DEF TagsInHand
  <2>3. DOMAIN des'.spec = SpecKeys
    BY <2>1, <2>2, SpecChanges
  <2>4. \A k \in AwsKeys : des'.spec.tags[k] = NoTag
    BY <2>1, <2>2 DEF EnsureTags, Ensured, NoAwsTags, TagsInHand, SpecKeys
  <2> QED
    BY <2>1, <2>3, <2>4 DEF TagsInHand, FoundPcs
<1>2. CASE ResolveReferences
  <2>1. CASE des' = [des EXCEPT !.spec = Resolved(@)] /\ UNCHANGED lat
    <3>1. /\ "spec" \in DOMAIN des' /\ des'.spec = Resolved(des.spec)
      BY <2>1 DEF TagsInHand
    <3>2. DOMAIN des'.spec = SpecKeys /\ des'.spec.tags = des.spec.tags
      BY <3>1 DEF Resolved, SpecKeys, TagsInHand
    <3>3. UNCHANGED cr /\ pc' \notin FoundPcs /\ (pc' = "find" => pc = "resolve")
          /\ pc' # "resolve"
      BY <1>2 DEF ResolveReferences, Unresolved, FailDesired, FailWith, Finish, FoundPcs
    <3> QED
      BY <2>1, <3>1, <3>2, <3>3 DEF TagsInHand
  <2>2. CASE UNCHANGED <<des, lat>> /\ pc' = "done"
    BY <1>2, <2>2, StepOtherwise DEF ResolveReferences, FoundPcs, TagsInHand
  <2> QED
    BY <1>2, <2>1, <2>2 DEF ResolveReferences, Unresolved, FailDesired, FailWith, Finish
<1>3. CASE SdkFind
  <2>1. CASE pc' = "findperms"
    <3>1. PICK i \in Ids :
            /\ des' = [des EXCEPT !.spec.tags = Mirrored(@, shares[i].tags, AwsKeys)]
            /\ "tags" \in DOMAIN lat' /\ lat'.tags = shares[i].tags
      BY <1>3, <2>1 DEF SdkFind, Listed, FailDesired, FailWith, Finish
    <3>2. /\ "spec" \in DOMAIN des'
          /\ des'.spec = [des.spec EXCEPT !.tags = Mirrored(@, shares[i].tags, AwsKeys)]
      BY <3>1 DEF TagsInHand
    <3>3. /\ DOMAIN des'.spec = SpecKeys
          /\ des'.spec.tags = Mirrored(des.spec.tags, shares[i].tags, AwsKeys)
      BY <3>2 DEF TagsInHand, SpecKeys
    <3>4. pc = "find" /\ UNCHANGED cr
      BY <1>3 DEF SdkFind
    <3>5. \A k \in AwsKeys : des'.spec.tags[k] = lat'.tags[k]
      BY <3>1, <3>3, <3>4 DEF Mirrored, TagsInHand
    <3> QED
      BY <2>1, <3>1, <3>2, <3>3, <3>4, <3>5 DEF TagsInHand
  <2>2. CASE pc' # "findperms"
    <3>1. UNCHANGED <<cr, des>> /\ pc' \in {"unmark", "mark", "create", "done"}
          /\ "tags" \in DOMAIN lat' /\ lat'.tags = lat.tags
      BY <1>3, <2>2 DEF SdkFind, FailDesired, FailWith, Finish, TagsInHand
    <3> QED
      BY <3>1, StepOtherwise DEF FoundPcs, TagsInHand
  <2> QED
    BY <2>1, <2>2
<1>4. CASE GetPermissionArns \/ GetPrincipals \/ GetResources
  <2>1. /\ UNCHANGED <<cr, des>> /\ pc \in FoundPcs /\ pc' \in FoundPcs \cup {"done"}
        /\ lat' = lat \/ lat' = [lat EXCEPT !.perms = shares[lat.id].perms]
             \/ \E k, l : lat' = [lat EXCEPT !.list[k] = l]
    BY <1>4 DEF GetPermissionArns, GetPrincipals, GetResources, FailLatest, FailDesired,
       FailWith, Finish, FoundPcs
  <2>2. "tags" \in DOMAIN lat' /\ lat'.tags = lat.tags
    BY <2>1 DEF TagsInHand
  <2> QED
    BY <2>1, <2>2, StepOtherwise DEF FoundPcs, TagsInHand
<1>5. CASE MarkManaged
  <2>1. UNCHANGED lat /\ pc' \in {"resolveagain", "create", "done"}
        /\ \/ cr' = [cr EXCEPT !.life = "managed"] /\ des' = [des EXCEPT !.spec = Cleared(@)]
           \/ UNCHANGED <<cr, des>>
    BY <1>5 DEF MarkManaged, FailDesired, FailWith, Finish
  <2>2. "spec" \in DOMAIN cr' /\ cr'.spec = cr.spec
    BY <2>1 DEF TagsInHand
  <2>3. "spec" \in DOMAIN des' /\ DOMAIN des'.spec = SpecKeys
    <3>1. CASE des' = [des EXCEPT !.spec = Cleared(@)]
      BY <3>1, SpecChanges DEF TagsInHand
    <3> QED
      BY <2>1, <3>1 DEF TagsInHand
  <2> QED
    BY <2>1, <2>2, <2>3 DEF TagsInHand, FoundPcs
<1>6. CASE SdkCreate
  <2>1. UNCHANGED <<cr, des, lat>> /\ pc' = "done"
    BY <1>6 DEF SdkCreate, FailDesired, FailWith, Finish
  <2> QED
    BY <2>1, StepOtherwise DEF FoundPcs, TagsInHand
<1>7. CASE Update
  <2>1. UNCHANGED <<des, lat>> /\ pc \in FoundPcs /\ pc' \in FoundPcs \cup {"done"}
    BY <1>7 DEF Update, PatchLatestStatus, Untag, Tag, DisassociatePermission,
       AssociatePermission, Disassociate, Associate, UpdateResourceShare, Call, NoCall, GoTo,
       AfterTags, AfterPermissions, AfterLists, FailLatest, FailWith, Finish, FoundPcs
  <2>2. cr' = cr \/ cr' = [cr EXCEPT !.arn = lat.id, !.owned = TRUE]
    BY <1>7 DEF Update, PatchLatestStatus, Untag, Tag, DisassociatePermission,
       AssociatePermission, Disassociate, Associate, UpdateResourceShare
  <2>3. "spec" \in DOMAIN cr' /\ cr'.spec = cr.spec
    BY <2>2 DEF TagsInHand
  <2> QED
    BY <2>1, <2>3, StepOtherwise DEF FoundPcs, TagsInHand
<1>8. CASE PatchStatus
  <2>1. "spec" \in DOMAIN cr' /\ cr'.spec = cr.spec /\ Forget /\ pc' = "idle"
    BY <1>8 DEF PatchStatus, TagsInHand
  <2> QED
    BY <2>1, StepForget
<1>9. CASE SdkDelete
  <2>1. UNCHANGED <<cr, des, lat>> /\ pc' \in {"unmark", "done"}
    BY <1>9 DEF SdkDelete, DeleteFailed, FailLatest, FailWith, Finish
  <2> QED
    BY <2>1, StepOtherwise DEF FoundPcs, TagsInHand
<1>10. CASE MarkUnmanaged
  <2>1. "spec" \in DOMAIN cr' /\ cr'.spec = cr.spec
    BY <1>10 DEF MarkUnmanaged, TagsInHand
  <2>2. (Forget /\ pc' = "idle") \/ (UNCHANGED <<des, lat>> /\ pc' = "done")
    BY <1>10 DEF MarkUnmanaged, FailDesired, FailWith, Finish
  <2> QED
    BY <2>1, <2>2, StepForget, StepOtherwise DEF FoundPcs, TagsInHand
<1>11. CASE EditSpec
  BY <1>11 DEF EditSpec, TagsInHand
<1>12. CASE DeleteResource
  <2>1. "spec" \in DOMAIN cr' /\ cr'.spec = cr.spec /\ UNCHANGED <<des, lat, pc>>
    BY <1>12 DEF DeleteResource, TagsInHand
  <2> QED
    BY <2>1, StepOtherwise DEF TagsInHand
<1>13. CASE CrashRestart
  <2>1. UNCHANGED cr /\ Forget /\ pc' = "idle"
    BY <1>13 DEF CrashRestart
  <2> QED
    BY <2>1, StepForget DEF TagsInHand
<1>14. CASE UNCHANGED <<cr, des, lat, pc>>
  BY <1>14 DEF TagsInHand
<1>15. Resync \/ TaggedByAws \/ DeletedElsewhere \/ Purge \/ Permission \/ UNCHANGED vars
         \/ (\E i \in Ids, k \in Kinds, e \in Entities : Progress(i, k, e))
         => UNCHANGED <<cr, des, lat, pc>>
  BY DEF Resync, TaggedByAws, DeletedElsewhere, Purge, Progress, Permission, PermissionWorker,
     CreatePermission, DeletePermission, ResyncPermission, EditPermission, vars
<1> QED
  BY <1>1, <1>2, <1>3, <1>4, <1>5, <1>6, <1>7, <1>8, <1>9, <1>10, <1>11, <1>12, <1>13, <1>14,
     <1>15 DEF Next, Worker, Environment

\* Whatever is lost, fails or is cut short, and whenever AWS sets its tags: no
\* call of syncTags removes or changes one, for specs and a configuration that
\* hold none (mirrorAWSTags, EnsureTags).
THEOREM AwsTagsKept == ASSUME NoAwsTags PROVE Spec => []AwsTagsLeftAlone
<1>1. Init => TagsInHand
  BY BlankSpec DEF Init, TagsInHand, NoLatest, FoundPcs
<1>2. TagsInHand /\ [Next]_vars => TagsInHand'
  BY StepTagsInHand
<1>3. TagsInHand => AwsTagsLeftAlone
  BY DEF TagsInHand, AwsTagsLeftAlone, FoundPcs, Removed, Added, TagsRemoved, TagsAdded
<1> QED
  BY <1>1, <1>2, <1>3, PTL DEF Spec

-----------------------------------------------------------------------------
(* Types.                                                                  *)

Cluster == [spec : Specs, arn : Ids \cup {NoShare}, owned : BOOLEAN, synced : Synced,
            life : {"unmanaged", "managed", "deleting", "gone"}]
Desired == [spec : SpecFields, arn : Ids \cup {NoShare}, owned : BOOLEAN, deleting : BOOLEAN]
Outcomes == [arn : Ids \cup {NoShare}, owned : BOOLEAN, synced : Synced]

\* The owner is known exactly when the share is.
Linked(r) == r.owned = (r.arn # NoShare)

TodoOK == DOMAIN todo = {"del", "add"} /\ \A s \in {"del", "add"} : todo[s] \in Seq(Permissions)
MemOK == /\ des \in Desired /\ Linked(des) /\ out \in Outcomes /\ Linked(out)
         /\ lat \in Latest /\ TodoOK
PcOK == pc \in Calls /\ (pc \in FoundPcs => lat.id \in Ids)
EnvOK == /\ queued \in BOOLEAN /\ edits \in 0..MaxEdits /\ faults \in 0..MaxFaults
         /\ permission \in Referred!Record
Typed == cr \in Cluster /\ Linked(cr) /\ shares \in [Ids -> Share] /\ MemOK /\ PcOK /\ EnvOK

LEMMA TypedIsTypeOK == Typed => TypeOK
BY DEF Typed, TypeOK, Cluster, Linked, MemOK, Desired, Outcomes, TodoOK, PcOK, EnvOK, ToSet

LEMMA BlankTyped ==
  /\ NoShareYet \in Share /\ NoLatest \in Latest
  /\ [spec |-> Blank, arn |-> NoShare, owned |-> FALSE, deleting |-> FALSE] \in Desired
  /\ ToSet(<<>>) = {}
<1>1. Blank \in SpecFields
  BY BlankSpec, SpecsAssumption
<1>2. NoShareYet \in Share
  BY <1>1 DEF NoShareYet, NoAssociation, Share, Status, SpecFields, Tagging, Untagged
<1>3. NoLatest \in Latest
  BY DEF NoLatest, Latest, Tagging, Untagged
<1>4. ToSet(<<>>) = {}
  BY DEF ToSet
<1> QED
  BY <1>1, <1>2, <1>3, <1>4 DEF Desired

LEMMA ForgetTyped == Forget => MemOK'
<1> SUFFICES ASSUME Forget PROVE MemOK'
  OBVIOUS
<1>1. des' \in Desired /\ Linked(des') /\ lat' \in Latest
  BY BlankTyped DEF Forget, Linked
<1>2. out' \in Outcomes /\ Linked(out')
  BY DEF Forget, Linked, Outcomes, Synced
<1>3. TodoOK'
  BY DEF Forget, NothingTodo, TodoOK
<1> QED
  BY <1>1, <1>2, <1>3 DEF MemOK

LEMMA InitTyped == Init => Typed
<1> SUFFICES ASSUME Init PROVE Typed
  OBVIOUS
<1>1. Linked(cr) /\ cr \in Cluster
  <2>1. PICK s \in Specs :
          cr = [spec |-> s, arn |-> NoShare, owned |-> FALSE, synced |-> "none",
                life |-> "unmanaged"]
    BY DEF Init
  <2>2. cr \in Cluster
    BY <2>1 DEF Cluster, Synced
  <2> QED
    BY <2>1, <2>2 DEF Linked
<1>2. shares \in [Ids -> Share]
  BY BlankTyped DEF Init
<1>3. MemOK
  <2>1. des \in Desired /\ Linked(des) /\ lat \in Latest
    BY BlankTyped DEF Init, Linked
  <2>2. out \in Outcomes /\ Linked(out)
    BY DEF Init, Linked, Outcomes, Synced
  <2>3. TodoOK
    BY DEF Init, NothingTodo, TodoOK
  <2> QED
    BY <2>1, <2>2, <2>3 DEF MemOK
<1>4. PcOK
  BY DEF Init, PcOK, Calls, FoundPcs
<1>5. EnvOK
  <2>1. permission \in Referred!Record
    BY DEF Init, SyncedPermission, NoPermission, Referred!Fresh, Referred!Record,
       Referred!Conditions
  <2> QED
    BY <2>1, BoundAssumption DEF Init, EnvOK
<1> QED
  BY <1>1, <1>2, <1>3, <1>4, <1>5 DEF Typed

\* What may become of one share.
LEMMA ShareTyped ==
  ASSUME shares \in [Ids -> Share], NEW i \in Ids
  PROVE  /\ \A s \in Share : [shares EXCEPT ![i] = s] \in [Ids -> Share]
         /\ Deleted(i) \in [Ids -> Share]
         /\ \A t \in Tagging : [shares EXCEPT ![i].tags = t] \in [Ids -> Share]
         /\ \A t \in SUBSET Permissions : [shares EXCEPT ![i].perms = t] \in [Ids -> Share]
         /\ \A t \in {"none", "active", "deleted", "purged"} :
              [shares EXCEPT ![i].state = t] \in [Ids -> Share]
         /\ \A t \in [Kinds -> [Entities -> Status]] :
              [shares EXCEPT ![i].assoc = t] \in [Ids -> Share]
         /\ \A x \in BOOLEAN, n \in Names :
              [shares EXCEPT ![i].ext = x, ![i].name = n] \in [Ids -> Share]
<1>1. shares[i] \in Share
  OBVIOUS
<1>2. NoAssociation \in [Kinds -> [Entities -> Status]]
  BY DEF NoAssociation, Status
<1>3. Deleted(i) \in [Ids -> Share]
  BY <1>1, <1>2 DEF Share, Deleted
<1>4. \A t \in Tagging : [shares EXCEPT ![i].tags = t] \in [Ids -> Share]
  BY <1>1 DEF Share
<1>5. \A t \in SUBSET Permissions : [shares EXCEPT ![i].perms = t] \in [Ids -> Share]
  BY <1>1 DEF Share
<1>6. \A t \in {"none", "active", "deleted", "purged"} :
         [shares EXCEPT ![i].state = t] \in [Ids -> Share]
  BY <1>1 DEF Share
<1>7. \A t \in [Kinds -> [Entities -> Status]] : [shares EXCEPT ![i].assoc = t] \in [Ids -> Share]
  BY <1>1 DEF Share
<1>8. \A x \in BOOLEAN, n \in Names :
         [shares EXCEPT ![i].ext = x, ![i].name = n] \in [Ids -> Share]
  BY <1>1 DEF Share
<1> QED
  BY <1>3, <1>4, <1>5, <1>6, <1>7, <1>8

\* What may become of the spec in hand.
LEMMA SpecTyped ==
  ASSUME NEW s \in SpecFields
  PROVE  /\ Resolved(s) \in SpecFields /\ Cleared(s) \in SpecFields
         /\ EnsureTags(s) \in SpecFields
         /\ \A t \in Tagging : [s EXCEPT !.tags = t] \in SpecFields
<1>1. Append(s.perms, RefPermission) \in Seq(Permissions) /\ <<>> \in Seq(Permissions)
  BY SubsetAssumption DEF SpecFields
<1>2. Ensured(s.tags, DefaultTags) \in Tagging
  BY SubsetAssumption DEF Ensured, Tagging, SpecFields
<1> QED
  BY <1>1, <1>2 DEF Resolved, Cleared, EnsureTags, SpecFields

LEMMA AssociationsTyped ==
  ASSUME NEW f \in [Kinds -> [Entities -> Status]], NEW sets, NEW s \in Status
  PROVE  Associations(f, sets, s) \in [Kinds -> [Entities -> Status]]
BY DEF Associations

LEMMA CreatedTyped ==
  ASSUME NEW s \in SpecFields
  PROVE  Created(s) \in Share
<1>1. ToSet(s.perms) \subseteq Permissions
  BY DEF SpecFields, ToSet
<1>2. NoAssociation \in [Kinds -> [Entities -> Status]] /\ "associating" \in Status
  BY DEF NoAssociation, Status
<1> QED
  BY <1>1, <1>2, AssociationsTyped, SubsetAssumption DEF Created, Share, SpecFields

\* The lists of calls that compareStringSlices makes.
LEMMA TodoTyped ==
  ASSUME des \in Desired, lat \in Latest
  PROVE  PermissionsTodo.del \in Seq(Permissions) /\ PermissionsTodo.add \in Seq(Permissions)
<1>1. IsFiniteSet(lat.perms) /\ lat.perms \subseteq Permissions
  BY FiniteAssumption, FS_Subset DEF Latest
<1>2. ListOf(lat.perms) \in Seq(Permissions)
  BY <1>1, ListOfSet DEF ListOf
<1>3. des.spec.perms \in Seq(Permissions)
  BY DEF Desired, SpecFields
<1> QED
  BY <1>2, <1>3, ToDeleteIs, ToAddIs DEF PermissionsTodo

\* Steps of the permission's worker and user keep its record, whoever takes them.
LEMMA PermissionTyped ==
  ASSUME permission \in Referred!Record
  PROVE  /\ PermissionStep \/ Referred!Report("error") \/ Referred!GiveUp \/ Referred!Delete
              \/ Referred!Resync \/ Referred!Edit => permission' \in Referred!Record
         /\ Referred!Fresh("policy") \in Referred!Record
<1> USE DEF Referred!Record, Referred!Busy, Referred!Exists, Referred!Idle, Referred!Conditions
<1>1. ASSUME NEW c \in {"True", "error", "terminal"}, Referred!Report(c)
      PROVE  permission' \in Referred!Record
  BY <1>1 DEF Referred!Report
<1>2. Referred!Take => permission' \in Referred!Record
  BY DEF Referred!Take
<1>3. Referred!Manage => permission' \in Referred!Record
  BY DEF Referred!Manage
<1>4. Referred!Publish => permission' \in Referred!Record
  BY DEF Referred!Publish
<1>5. Referred!Drop => permission' \in Referred!Record
  BY DEF Referred!Drop
<1>6. Referred!Remove => permission' \in Referred!Record
  BY DEF Referred!Remove
<1>7. Referred!Unpublish => permission' \in Referred!Record
  BY DEF Referred!Unpublish
<1>8. Referred!GiveUp => permission' \in Referred!Record
  BY DEF Referred!GiveUp
<1>9. Referred!Delete => permission' \in Referred!Record
  BY DEF Referred!Delete
<1>10. Referred!Resync => permission' \in Referred!Record
  BY DEF Referred!Resync
<1>11. Referred!Fresh("policy") \in Referred!Record
  BY DEF Referred!Fresh
<1>12. Referred!Edit => permission' \in Referred!Record
  BY DEF Referred!Edit
<1> QED
  BY <1>1, <1>2, <1>3, <1>4, <1>5, <1>6, <1>7, <1>8, <1>9, <1>10, <1>11, <1>12 DEF PermissionStep

LEMMA StepEnvTyped ==
  ASSUME EnvOK, [Next]_vars
  PROVE  EnvOK'
<1> USE DEF rest, env, mem, vars, Next, Worker, StartReconcile, ResolveReferences, SdkFind,
       GetPermissionArns, GetPrincipals, GetResources, MarkManaged, SdkCreate, Update,
       PatchLatestStatus, Untag, Tag, DisassociatePermission, AssociatePermission, Disassociate,
       Associate, UpdateResourceShare, PatchStatus, SdkDelete, MarkUnmanaged, Environment,
       EditSpec, DeleteResource, Resync, CrashRestart, TaggedByAws, DeletedElsewhere, Purge,
       Progress, Permission, PermissionWorker, CreatePermission, DeletePermission,
       ResyncPermission, EditPermission
<1>1. permission' \in Referred!Record
  <2>1. CASE Permission
    BY <2>1, PermissionTyped DEF EnvOK
  <2>2. CASE CrashRestart
    BY <2>2, PermissionTyped DEF EnvOK
  <2>3. Worker \/ (Environment /\ ~CrashRestart) \/ UNCHANGED vars => UNCHANGED permission
    OBVIOUS
  <2> QED
    BY <2>1, <2>2, <2>3 DEF EnvOK
<1>2. faults' \in 0..MaxFaults
  <2>1. Next => \/ NoFault \/ \E k \in FaultKinds : Fault(k)
    BY DEF NoFault, FaultKinds, Call, NoCall
  <2>2. CASE \E k \in FaultKinds : Fault(k)
    <3> HIDE DEF Next, vars
    <3> QED
      BY <2>2, BoundAssumption DEF EnvOK, Fault
  <2> QED
    BY <2>1, <2>2 DEF EnvOK, NoFault
<1>3. edits' \in 0..MaxEdits
  <2>1. Next => UNCHANGED edits \/ (edits < MaxEdits /\ edits' = edits + 1)
    OBVIOUS
  <2>2. UNCHANGED edits \/ (edits < MaxEdits /\ edits' = edits + 1)
    BY <2>1
  <2> HIDE DEF Next, vars
  <2> QED
    BY <2>2, BoundAssumption DEF EnvOK
<1>4. queued' \in BOOLEAN
  <2>1. Next => UNCHANGED queued \/ queued' = TRUE \/ queued' = FALSE
                \/ queued' = (queued \/ out.synced = "error")
    OBVIOUS
  <2> QED
    BY <2>1 DEF EnvOK
<1> QED
  BY <1>1, <1>2, <1>3, <1>4 DEF EnvOK

LEMMA TaggingKept ==
  ASSUME NEW t \in Tagging, NEW keys, NEW d \in Tagging
  PROVE  UntagKeys(t, keys) \in Tagging /\ TagKeysAs(t, keys, d) \in Tagging
         /\ Mirrored(d, t, keys) \in Tagging
BY DEF UntagKeys, TagKeysAs, Mirrored, Tagging

LEMMA StepSharesTyped ==
  ASSUME Typed, [Next]_vars
  PROVE  shares' \in [Ids -> Share]
<1> DEFINE New == shares' \in [Ids -> Share]
<1>0. UNCHANGED shares => New
  BY DEF Typed
<1>a. \A i \in Ids : /\ shares[i] \in Share /\ shares[i].tags \in Tagging
                     /\ shares[i].perms \in SUBSET Permissions
                     /\ shares[i].assoc \in [Kinds -> [Entities -> Status]]
  BY DEF Typed, Share
<1>b. pc \in FoundPcs => lat.id \in Ids
  BY DEF Typed, PcOK
<1>c. des.spec \in SpecFields /\ des.spec.tags \in Tagging
  BY DEF Typed, MemOK, Desired, SpecFields
<1>d. \A i \in Ids :
        /\ \A t \in Tagging : [shares EXCEPT ![i].tags = t] \in [Ids -> Share]
        /\ \A t \in SUBSET Permissions : [shares EXCEPT ![i].perms = t] \in [Ids -> Share]
        /\ \A t \in [Kinds -> [Entities -> Status]] :
             [shares EXCEPT ![i].assoc = t] \in [Ids -> Share]
        /\ [shares EXCEPT ![i].state = "purged"] \in [Ids -> Share]
        /\ Deleted(i) \in [Ids -> Share]
  BY ShareTyped DEF Typed
<1>1. CASE SdkCreate
  <2>1. Ids \subseteq Nat
    BY BoundAssumption DEF Ids
  <2>2. CASE shares' = [shares EXCEPT ![Min({i \in Ids : shares[i].state = "none"})]
                                        = Created(des.spec)]
             /\ {i \in Ids : shares[i].state = "none"} # {}
    <3>1. Min({i \in Ids : shares[i].state = "none"}) \in Ids
      BY <2>1, <2>2, MinIs
    <3> QED
      BY <1>c, <2>2, <3>1, CreatedTyped, ShareTyped DEF Typed
  <2> QED
    BY <1>0, <1>1, <2>2 DEF SdkCreate
<1>2. CASE Untag
  <2>1. pc \in FoundPcs
    BY <1>2 DEF Untag, FoundPcs
  <2>2. \/ UNCHANGED shares
        \/ shares' = [shares EXCEPT ![lat.id].tags = UntagKeys(shares[lat.id].tags, Removed)]
    BY <1>2 DEF Untag, Call, NoCall
  <2>3. UntagKeys(shares[lat.id].tags, Removed) \in Tagging
    BY <1>a, <1>b, <1>c, <2>1, TaggingKept
  <2> DEFINE s == [shares[lat.id] EXCEPT !.tags = UntagKeys(@, Removed)]
  <2>4. s \in Share
    BY <1>a, <1>b, <2>1, <2>3 DEF Share
  <2>5. UNCHANGED shares \/ shares' = [shares EXCEPT ![lat.id] = s]
    BY <2>2
  <2> HIDE DEF s
  <2> QED
    BY <1>0, <1>b, <2>1, <2>4, <2>5 DEF Typed
<1>3. CASE Tag
  <2>1. pc \in FoundPcs
    BY <1>3 DEF Tag, FoundPcs
  <2>2. \/ UNCHANGED shares
        \/ shares' = [shares EXCEPT ![lat.id].tags =
                         TagKeysAs(shares[lat.id].tags, Added, des.spec.tags)]
    BY <1>3 DEF Tag, Call, NoCall
  <2>3. TagKeysAs(shares[lat.id].tags, Added, des.spec.tags) \in Tagging
    BY <1>a, <1>b, <1>c, <2>1, TaggingKept
  <2> DEFINE s == [shares[lat.id] EXCEPT !.tags = TagKeysAs(@, Added, des.spec.tags)]
  <2>4. s \in Share
    BY <1>a, <1>b, <2>1, <2>3 DEF Share
  <2>5. UNCHANGED shares \/ shares' = [shares EXCEPT ![lat.id] = s]
    BY <2>2
  <2> HIDE DEF s
  <2> QED
    BY <1>0, <1>b, <2>1, <2>4, <2>5 DEF Typed
<1>4. CASE DisassociatePermission
  <2>1. pc \in FoundPcs
    BY <1>4 DEF DisassociatePermission, FoundPcs
  <2>2. UNCHANGED shares
        \/ shares' = [shares EXCEPT ![lat.id].perms = shares[lat.id].perms \ {Head(todo.del)}]
    BY <1>4 DEF DisassociatePermission, Call, NoCall
  <2>3. pc \in FoundPcs => shares[lat.id].perms \ {Head(todo.del)} \in SUBSET Permissions
    BY <1>a, <1>b
  <2> DEFINE s == [shares[lat.id] EXCEPT !.perms = @ \ {Head(todo.del)}]
  <2>4. s \in Share
    BY <1>a, <1>b, <2>1, <2>3 DEF Share
  <2>5. UNCHANGED shares \/ shares' = [shares EXCEPT ![lat.id] = s]
    BY <2>2
  <2> HIDE DEF s
  <2> QED
    BY <1>0, <1>b, <2>1, <2>4, <2>5 DEF Typed
<1>5. CASE AssociatePermission
  <2>1. pc \in FoundPcs
    BY <1>5 DEF AssociatePermission, FoundPcs
  <2>2. \/ UNCHANGED shares
        \/ /\ todo.add # <<>>
           /\ shares' = [shares EXCEPT ![lat.id].perms =
                           shares[lat.id].perms \cup {Head(todo.add)}]
    <3>1. CASE todo.add = <<>>
      BY <1>5, <3>1 DEF AssociatePermission, NoCall
    <3>2. CASE todo.add # <<>>
      BY <1>5, <3>2 DEF AssociatePermission, Call
    <3> QED
      BY <3>1, <3>2
  <2>3. todo.add # <<>> => Head(todo.add) \in Permissions
    BY DEF Typed, MemOK, TodoOK
  <2>4. todo.add # <<>> => shares[lat.id].perms \cup {Head(todo.add)} \in SUBSET Permissions
    BY <1>a, <1>b, <2>1, <2>3
  <2> DEFINE s == [shares[lat.id] EXCEPT !.perms = @ \cup {Head(todo.add)}]
  <2>5. todo.add # <<>> => s \in Share
    BY <1>a, <1>b, <2>1, <2>4 DEF Share
  <2>6. UNCHANGED shares \/ (todo.add # <<>> /\ shares' = [shares EXCEPT ![lat.id] = s])
    BY <2>2
  <2> HIDE DEF s
  <2> QED
    BY <1>0, <1>b, <2>1, <2>5, <2>6 DEF Typed
<1>6. CASE Disassociate
  <2>1. pc \in FoundPcs
    BY <1>6 DEF Disassociate, FoundPcs
  <2>2. UNCHANGED shares
        \/ shares' = [shares EXCEPT ![lat.id].assoc = Associations(shares[lat.id].assoc,
        Disassociated, "disassociating")]
    BY <1>6 DEF Disassociate, Call, NoCall
  <2>3. "disassociating" \in Status
    BY DEF Status
  <2>4. \A sets : Associations(shares[lat.id].assoc, sets, "disassociating")
                     \in [Kinds -> [Entities -> Status]]
    BY <1>a, <1>b, <2>1, <2>3, AssociationsTyped
  <2> DEFINE s == [shares[lat.id] EXCEPT !.assoc = Associations(@, Disassociated, "disassociating")]
  <2>5. s \in Share
    BY <1>a, <1>b, <2>1, <2>4 DEF Share
  <2>6. UNCHANGED shares \/ shares' = [shares EXCEPT ![lat.id] = s]
    BY <2>2
  <2> HIDE DEF s
  <2> QED
    BY <1>0, <1>b, <2>1, <2>5, <2>6 DEF Typed
<1>7. CASE Associate
  <2>1. pc \in FoundPcs
    BY <1>7 DEF Associate, FoundPcs
  <2>2. UNCHANGED shares
        \/ \E new : shares' = [shares EXCEPT ![lat.id].assoc = Associations(shares[lat.id].assoc,
        new, "associating")]
    BY <1>7 DEF Associate, Call, NoCall
  <2>3. "associating" \in Status
    BY DEF Status
  <2>4. \A sets : Associations(shares[lat.id].assoc, sets, "associating")
                     \in [Kinds -> [Entities -> Status]]
    BY <1>a, <1>b, <2>1, <2>3, AssociationsTyped
  <2>5. CASE UNCHANGED shares
    BY <1>0, <2>5
  <2>6. ASSUME NEW new, shares' = [shares EXCEPT ![lat.id].assoc =
                                    Associations(shares[lat.id].assoc, new, "associating")]
        PROVE  New
    <3> DEFINE s == [shares[lat.id] EXCEPT !.assoc = Associations(@, new, "associating")]
    <3>1. s \in Share
      BY <1>a, <1>b, <2>1, <2>4 DEF Share
    <3>2. shares' = [shares EXCEPT ![lat.id] = s]
      BY <2>6
    <3> HIDE DEF s
    <3> QED
      BY <1>b, <2>1, <3>1, <3>2 DEF Typed
  <2> QED
    BY <2>2, <2>5, <2>6
<1>8. CASE UpdateResourceShare
  <2>1. \/ UNCHANGED shares
        \/ /\ des.arn \in Ids
           /\ shares' = [shares EXCEPT ![des.arn].ext = des.spec.ext,
                                       ![des.arn].name = des.spec.name]
    <3>1. CASE des.arn \in Ids
      BY <1>8, <3>1 DEF UpdateResourceShare, Call
    <3>2. CASE des.arn \notin Ids
      BY <1>8, <3>2 DEF UpdateResourceShare, NoCall
    <3> QED
      BY <3>1, <3>2
  <2>2. des.spec.ext \in BOOLEAN /\ des.spec.name \in Names
    BY <1>c DEF SpecFields
  <2> QED
    <3>1. CASE UNCHANGED shares
      BY <1>0, <3>1
    <3>2. CASE /\ des.arn \in Ids
               /\ shares' = [shares EXCEPT ![des.arn].ext = des.spec.ext,
                                           ![des.arn].name = des.spec.name]
      <4> DEFINE s == [shares[des.arn] EXCEPT !.ext = des.spec.ext, !.name = des.spec.name]
      <4>1. s \in Share
        BY <1>a, <2>2, <3>2 DEF Share
      <4>2. shares' = [shares EXCEPT ![des.arn] = s]
        BY <3>2 DEF Typed
      <4> HIDE DEF s
      <4> QED
        BY <3>2, <4>1, <4>2 DEF Typed
    <3> QED
      BY <2>1, <3>1, <3>2
<1>9. CASE SdkDelete \/ DeletedElsewhere
  <2>1. UNCHANGED shares \/ \E i \in Ids : shares' = Deleted(i)
    BY <1>9, <1>b DEF SdkDelete, DeletedElsewhere, FoundPcs
  <2> QED
    BY <1>0, <1>d, <2>1
<1>10. CASE Purge
  BY <1>10, <1>d DEF Purge
<1>11. CASE TaggedByAws
  <2>1. PICK i \in Ids, k \in AwsKeys :
          shares' = [shares EXCEPT ![i].tags[k] = CHOOSE v \in TagVals : TRUE]
    BY <1>11 DEF TaggedByAws
  <2>2. (CHOOSE v \in TagVals : TRUE) \in TagVals
    BY FiniteAssumption
  <2>3. [shares[i].tags EXCEPT ![k] = CHOOSE v \in TagVals : TRUE] \in Tagging
    BY <1>a, <2>2 DEF Tagging
  <2>4. shares' = [shares EXCEPT ![i].tags =
                     [shares[i].tags EXCEPT ![k] = CHOOSE v \in TagVals : TRUE]]
    BY <2>1
  <2> QED
    BY <1>d, <2>3, <2>4
<1>12. ASSUME NEW i \in Ids, NEW k \in Kinds, NEW e \in Entities, Progress(i, k, e) PROVE New
  <2>1. PICK s \in Status : shares' = [shares EXCEPT ![i].assoc[k][e] = s]
    BY <1>12 DEF Progress, Status
  <2>2. [shares[i].assoc EXCEPT ![k][e] = s] \in [Kinds -> [Entities -> Status]]
    BY <1>a
  <2>3. shares' = [shares EXCEPT ![i].assoc = [shares[i].assoc EXCEPT ![k][e] = s]]
    BY <2>1
  <2> QED
    BY <1>d, <2>2, <2>3
<1>13. StartReconcile \/ ResolveReferences \/ SdkFind \/ GetPermissionArns \/ GetPrincipals
       \/ GetResources \/ MarkManaged \/ PatchLatestStatus \/ PatchStatus \/ MarkUnmanaged
       \/ EditSpec \/ DeleteResource \/ Resync \/ CrashRestart \/ Permission \/ UNCHANGED vars
       => UNCHANGED shares
  BY DEF StartReconcile, ResolveReferences, SdkFind, GetPermissionArns, GetPrincipals,
     GetResources, MarkManaged, PatchLatestStatus, PatchStatus, MarkUnmanaged, EditSpec,
     DeleteResource, Resync, CrashRestart, Permission, PermissionWorker, CreatePermission,
     DeletePermission, ResyncPermission, EditPermission, vars
<1> QED
  BY <1>0, <1>1, <1>2, <1>3, <1>4, <1>5, <1>6, <1>7, <1>8, <1>9, <1>10, <1>11, <1>12, <1>13
     DEF Next, Worker, Update, Environment

\* The outcomes that a step may end a reconcile with.
LEMMA FinishTyped ==
  ASSUME MemOK, PcOK, NEW c \in {"True", "error", "terminal"}
  PROVE  /\ FailDesired(c) => pc' = "done" /\ out' \in Outcomes /\ Linked(out')
         /\ FailLatest(c) /\ pc \in FoundPcs => pc' = "done" /\ out' \in Outcomes /\ Linked(out')
         /\ Finish(Updated) => pc' = "done" /\ out' \in Outcomes /\ Linked(out')
<1>1. c \in Synced /\ "True" \in Synced
  BY DEF Synced
<1>2. FailDesired(c) => pc' = "done" /\ out' \in Outcomes /\ Linked(out')
  BY <1>1 DEF FailDesired, FailWith, Finish, MemOK, Outcomes, Desired, Linked
<1>3. FailLatest(c) /\ pc \in FoundPcs => pc' = "done" /\ out' \in Outcomes /\ Linked(out')
  <2> SUFFICES ASSUME FailLatest(c), pc \in FoundPcs
               PROVE  pc' = "done" /\ out' \in Outcomes /\ Linked(out')
    OBVIOUS
  <2>1. lat.id \in Ids /\ lat.id # NoShare
    BY SubsetAssumption DEF PcOK
  <2>2. out' = [arn |-> lat.id, owned |-> TRUE, synced |-> c] /\ pc' = "done"
    BY DEF FailLatest, FailWith, Finish
  <2>3. out' \in Outcomes
    BY <1>1, <2>1, <2>2 DEF Outcomes
  <2>4. (lat.id # NoShare) = TRUE
    BY <2>1
  <2> QED
    BY <2>2, <2>3, <2>4 DEF Linked
<1>4. Finish(Updated) => pc' = "done" /\ out' \in Outcomes /\ Linked(out')
  BY <1>1 DEF Finish, Updated, MemOK, Outcomes, Desired, Linked
<1> QED
  BY <1>2, <1>3, <1>4

LEMMA StepClusterTyped ==
  ASSUME Typed, [Next]_vars
  PROVE  cr' \in Cluster /\ Linked(cr')
<1> USE DEF Typed, Linked
<1>1. CASE PatchLatestStatus
  <2>1. lat.id \in Ids /\ lat.id # NoShare
    BY <1>1, SubsetAssumption DEF PatchLatestStatus, PcOK, FoundPcs
  <2>2. UNCHANGED cr \/ cr' = [cr EXCEPT !.arn = lat.id, !.owned = TRUE]
    BY <1>1 DEF PatchLatestStatus
  <2>3. cr' \in Cluster
    BY <2>1, <2>2 DEF Cluster
  <2>4. UNCHANGED cr \/ (cr'.owned = TRUE /\ cr'.arn = lat.id)
    BY <2>2 DEF Cluster
  <2> QED
    BY <2>1, <2>3, <2>4
<1>2. CASE PatchStatus
  <2>1. \/ UNCHANGED cr
        \/ cr' = [cr EXCEPT !.arn = out.arn, !.owned = out.owned, !.synced = out.synced]
    BY <1>2 DEF PatchStatus
  <2>2. cr' \in Cluster
    BY <2>1 DEF Cluster, MemOK, Outcomes
  <2>3. UNCHANGED cr \/ (cr'.owned = out.owned /\ cr'.arn = out.arn)
    BY <2>1 DEF Cluster
  <2> QED
    BY <2>2, <2>3 DEF MemOK
<1>3. CASE EditSpec
  <2>1. PICK s \in Specs : cr' = [cr EXCEPT !.spec = s]
    BY <1>3 DEF EditSpec
  <2> QED
    BY <2>1 DEF Cluster
<1>4. CASE MarkManaged \/ MarkUnmanaged \/ DeleteResource
  <2>1. PICK l \in {"managed", "deleting", "gone"} : UNCHANGED cr \/ cr' = [cr EXCEPT !.life = l]
    BY <1>4 DEF MarkManaged, MarkUnmanaged, DeleteResource
  <2> QED
    BY <2>1 DEF Cluster
<1>5. StartReconcile \/ ResolveReferences \/ SdkFind \/ GetPermissionArns \/ GetPrincipals
      \/ GetResources \/ SdkCreate \/ (Update /\ ~PatchLatestStatus) \/ SdkDelete
      \/ Resync \/ CrashRestart \/ TaggedByAws \/ DeletedElsewhere \/ Purge
      \/ (\E i \in Ids, k \in Kinds, e \in Entities : Progress(i, k, e))
      \/ Permission \/ UNCHANGED vars => UNCHANGED cr
  BY DEF StartReconcile, ResolveReferences, SdkFind, GetPermissionArns, GetPrincipals,
     GetResources, SdkCreate, Update, Untag, Tag, DisassociatePermission, AssociatePermission,
     Disassociate, Associate, UpdateResourceShare, SdkDelete, Resync, CrashRestart, TaggedByAws,
     DeletedElsewhere, Purge, Progress, Permission, PermissionWorker, CreatePermission,
     DeletePermission, ResyncPermission, EditPermission, vars
<1>6. CASE UNCHANGED cr
  BY <1>6
<1> QED
  BY <1>1, <1>2, <1>3, <1>4, <1>5, <1>6 DEF Next, Worker, Update, Environment

\* Where a reconcile goes on, or what it ends with.
GoesOn == UNCHANGED <<des, lat, todo, out>> /\ pc' \in Calls
Ends == UNCHANGED <<des, lat, todo>> /\ pc' = "done" /\ out' \in Outcomes /\ Linked(out')

LEMMA GoOnTyped ==
  ASSUME MemOK, PcOK, GoesOn \/ Ends, pc' \in FoundPcs => pc \in FoundPcs
  PROVE  MemOK' /\ PcOK'
<1>1. MemOK'
  BY DEF MemOK, GoesOn, Ends, TodoOK
<1>2. PcOK'
  BY DEF GoesOn, Ends, PcOK, Calls
<1> QED
  BY <1>1, <1>2

LEMMA StepMemTyped ==
  ASSUME Typed, [Next]_vars
  PROVE  MemOK' /\ PcOK'
<1>0. MemOK /\ PcOK /\ shares \in [Ids -> Share] /\ cr \in Cluster /\ Linked(cr)
  BY DEF Typed
<1>a. pc \in FoundPcs => lat.id \in Ids
  BY <1>0 DEF PcOK
<1>b. des \in Desired /\ des.spec \in SpecFields
  BY <1>0 DEF MemOK, Desired
<1>c. Ids # {} /\ \A i \in Ids : i # NoShare
  BY BoundAssumption, SubsetAssumption DEF Ids
<1>1. CASE StartReconcile
  <2>1. cr.spec \in SpecFields
    BY <1>0, SpecsAssumption DEF Cluster
  <2>2. EnsureTags(cr.spec) \in SpecFields
    BY <2>1, SpecTyped
  <2>3. des' \in Desired /\ Linked(des')
    BY <1>0, <1>1, <2>2 DEF StartReconcile, Desired, Linked, Cluster
  <2>4. UNCHANGED <<lat, todo, out>> /\ pc' \in {"resolve", "find"}
    BY <1>1 DEF StartReconcile
  <2>5. MemOK'
    BY <1>0, <2>3, <2>4 DEF MemOK, TodoOK
  <2> QED
    BY <2>4, <2>5 DEF PcOK, Calls, FoundPcs
<1>2. CASE ResolveReferences
  <2>1. CASE Unresolved /\ UNCHANGED des
    <3>1. Ends
      BY <1>0, <1>2, <2>1, FinishTyped DEF ResolveReferences, Unresolved, Ends
    <3> QED
      BY <1>0, <3>1, GoOnTyped DEF Ends, FoundPcs
  <2>2. CASE /\ des' = [des EXCEPT !.spec = Resolved(@)] /\ UNCHANGED out
             /\ pc' = IF pc = "resolve" THEN "find" ELSE "create"
    <3>1. Resolved(des.spec) \in SpecFields
      BY <1>b, SpecTyped
    <3>2. des' \in Desired /\ Linked(des')
      BY <1>0, <1>b, <2>2, <3>1 DEF Desired, Linked, MemOK
    <3>3. UNCHANGED <<lat, todo, out>>
      BY <1>2, <2>2 DEF ResolveReferences
    <3>4. MemOK'
      BY <1>0, <3>2, <3>3 DEF MemOK, TodoOK
    <3> QED
      BY <2>2, <3>4 DEF PcOK, Calls, FoundPcs
  <2> QED
    BY <1>2, <2>1, <2>2 DEF ResolveReferences
<1>3. CASE SdkFind
  <2>0. UNCHANGED todo /\ pc = "find"
    BY <1>3 DEF SdkFind
  <2>1. CASE UNCHANGED <<des, lat, out>> /\ pc' \in {"unmark", "mark", "create"}
    BY <1>0, <2>0, <2>1, GoOnTyped DEF GoesOn, Calls, FoundPcs
  <2>2. CASE FailDesired("error") /\ UNCHANGED <<des, lat>>
    <3>1. Ends
      BY <1>0, <2>0, <2>2, FinishTyped DEF Ends
    <3> QED
      BY <1>0, <3>1, GoOnTyped DEF Ends, FoundPcs
  <2>3. ASSUME NEW i \in Ids, pc' = "findperms", UNCHANGED out,
               des' = [des EXCEPT !.spec.tags = Mirrored(@, shares[i].tags, AwsKeys)],
               lat' = [id |-> i, ext |-> shares[i].ext, perms |-> ToSet(des.spec.perms),
                       list |-> [k \in Kinds |-> ToSet(des.spec.list[k])],
                       tags |-> shares[i].tags]
        PROVE  MemOK' /\ PcOK'
    <3>1. shares[i].ext \in BOOLEAN /\ shares[i].tags \in Tagging /\ des.spec.tags \in Tagging
      BY <1>0, <1>b DEF Share, SpecFields
    <3>2. ToSet(des.spec.perms) \subseteq Permissions
          /\ [k \in Kinds |-> ToSet(des.spec.list[k])] \in [Kinds -> SUBSET Entities]
      BY <1>b DEF SpecFields, ToSet
    <3>3. lat' \in Latest /\ lat'.id = i
      BY <2>3, <3>1, <3>2 DEF Latest
    <3> DEFINE m == Mirrored(des.spec.tags, shares[i].tags, AwsKeys)
    <3>4. m \in Tagging
      BY <3>1 DEF Mirrored, Tagging
    <3>5. [des.spec EXCEPT !.tags = m] \in SpecFields
      BY <1>b, <3>4, SpecTyped
    <3>6. des' = [des EXCEPT !.spec = [des.spec EXCEPT !.tags = m]]
      BY <2>3
    <3> HIDE DEF m
    <3>7. des' \in Desired /\ Linked(des')
      BY <1>0, <1>b, <3>5, <3>6 DEF Desired, Linked, MemOK
    <3>8. MemOK'
      BY <1>0, <2>0, <2>3, <3>3, <3>7 DEF MemOK, TodoOK
    <3> QED
      BY <2>3, <3>3, <3>8 DEF PcOK, Calls
  <2> QED
    BY <1>3, <2>1, <2>2, <2>3 DEF SdkFind, Listed
<1>4. CASE GetPermissionArns
  <2>0. UNCHANGED <<des, todo>> /\ pc \in FoundPcs
    BY <1>4 DEF GetPermissionArns, FoundPcs
  <2>1. CASE FailDesired("error") /\ UNCHANGED lat
    <3>1. Ends
      BY <1>0, <2>0, <2>1, FinishTyped DEF Ends
    <3> QED
      BY <1>0, <2>0, <3>1, GoOnTyped
  <2>2. CASE lat' = [lat EXCEPT !.perms = shares[lat.id].perms] /\ pc' = "findprincipals"
             /\ UNCHANGED out
    <3>1. lat' \in Latest /\ lat'.id = lat.id
      BY <1>0, <1>a, <2>0, <2>2 DEF Latest, Share, MemOK
    <3>2. MemOK'
      BY <1>0, <2>0, <2>2, <3>1 DEF MemOK, TodoOK
    <3> QED
      BY <1>a, <2>0, <2>2, <3>1, <3>2 DEF PcOK, Calls
  <2> QED
    BY <1>4, <2>1, <2>2 DEF GetPermissionArns
<1>5. CASE GetPrincipals
  <2>0. UNCHANGED <<des, todo>> /\ pc \in FoundPcs
    BY <1>5 DEF GetPrincipals, FoundPcs
  <2>1. CASE FailDesired("error") /\ UNCHANGED lat
    <3>1. Ends
      BY <1>0, <2>0, <2>1, FinishTyped DEF Ends
    <3> QED
      BY <1>0, <2>0, <3>1, GoOnTyped
  <2>2. CASE lat' = [lat EXCEPT !.list["principal"] = Read("principal")]
             /\ pc' = "findresources" /\ UNCHANGED out
    <3>1. lat' \in Latest /\ lat'.id = lat.id
      BY <1>0, <2>2 DEF Latest, MemOK, Read, InState, Kinds
    <3>2. MemOK'
      BY <1>0, <2>0, <2>2, <3>1 DEF MemOK, TodoOK
    <3> QED
      BY <1>a, <2>0, <2>2, <3>1, <3>2 DEF PcOK, Calls
  <2> QED
    BY <1>5, <2>1, <2>2 DEF GetPrincipals
<1>6. CASE GetResources
  <2>0. UNCHANGED <<des, todo>> /\ pc \in FoundPcs
    BY <1>6 DEF GetResources, FoundPcs
  <2>1. CASE FailDesired("error") /\ UNCHANGED lat
    <3>1. Ends
      BY <1>0, <2>0, <2>1, FinishTyped DEF Ends
    <3> QED
      BY <1>0, <2>0, <3>1, GoOnTyped
  <2>2. CASE /\ lat' = [lat EXCEPT !.list["resource"] = Read("resource")]
             /\ (pc' \in {"delete", "status"} /\ UNCHANGED out) \/ FailLatest("True")
    <3>1. lat' \in Latest /\ lat'.id = lat.id
      BY <1>0, <2>2 DEF Latest, MemOK, Read, InState, Kinds
    <3>2. \/ UNCHANGED out /\ pc' \in {"delete", "status"}
          \/ pc' = "done" /\ out' \in Outcomes /\ Linked(out')
      BY <1>0, <2>0, <2>2, FinishTyped
    <3>3. MemOK'
      BY <1>0, <2>0, <3>1, <3>2 DEF MemOK, TodoOK
    <3> QED
      BY <1>a, <2>0, <3>1, <3>2, <3>3 DEF PcOK, Calls
  <2> QED
    BY <1>6, <2>1, <2>2 DEF GetResources
<1>7. CASE MarkManaged
  <2>0. UNCHANGED <<lat, todo>>
    BY <1>7 DEF MarkManaged
  <2>1. CASE FailDesired("error") /\ UNCHANGED des
    <3>1. Ends
      BY <1>0, <2>0, <2>1, FinishTyped DEF Ends
    <3> QED
      BY <1>0, <3>1, GoOnTyped DEF Ends, FoundPcs
  <2>2. CASE des' = [des EXCEPT !.spec = Cleared(@)] /\ pc' \in {"resolveagain", "create"}
             /\ UNCHANGED out
    <3>1. Cleared(des.spec) \in SpecFields
      BY <1>b, SpecTyped
    <3>2. des' \in Desired /\ Linked(des')
      BY <1>0, <1>b, <2>2, <3>1 DEF Desired, Linked, MemOK
    <3>3. MemOK'
      BY <1>0, <2>0, <2>2, <3>2 DEF MemOK, TodoOK
    <3> QED
      BY <2>2, <3>3 DEF PcOK, Calls, FoundPcs
  <2> QED
    BY <1>7, <2>1, <2>2 DEF MarkManaged
<1>8. CASE SdkCreate
  <2> DEFINE id == Min({i \in Ids : shares[i].state = "none"})
             wanted == UNION {ToSet(des.spec.list[k]) : k \in Kinds}
  <2>0. UNCHANGED <<des, lat, todo>>
    BY <1>8 DEF SdkCreate
  <2>1. \/ FailDesired("error") \/ FailDesired(ErrorFor(wanted))
        \/ {i \in Ids : shares[i].state = "none"} # {} /\ FailWith(id, TRUE, "True")
    BY <1>8 DEF SdkCreate
  <2>2. ErrorFor(wanted) \in {"error", "terminal"}
    BY DEF ErrorFor
  <2> HIDE DEF wanted
  <2>3. FailDesired("error") \/ FailDesired(ErrorFor(wanted)) => Ends
    BY <1>0, <2>0, <2>2, FinishTyped DEF Ends
  <2>4. ASSUME {i \in Ids : shares[i].state = "none"} # {}, FailWith(id, TRUE, "True")
        PROVE  Ends
    <3>1. id \in Ids
      <4>1. Ids \subseteq Nat
        BY BoundAssumption DEF Ids
      <4> QED
        BY <2>4, <4>1, MinIs
    <3> HIDE DEF id
    <3>2. out' = [arn |-> id, owned |-> TRUE, synced |-> "True"] /\ pc' = "done"
      BY <2>4 DEF FailWith, Finish
    <3>3. (id # NoShare) = TRUE
      BY <1>c, <3>1
    <3>4. out' \in Outcomes /\ Linked(out')
      BY <3>1, <3>2, <3>3 DEF Outcomes, Synced, Linked
    <3> QED
      BY <2>0, <3>2, <3>4 DEF Ends
  <2>5. Ends
    BY <2>1, <2>3, <2>4
  <2> QED
    BY <1>0, <2>5, GoOnTyped DEF Ends, FoundPcs
<1>9. CASE Update
  <2>0. UNCHANGED <<des, lat>> /\ pc \in FoundPcs
    BY <1>9 DEF Update, PatchLatestStatus, Untag, Tag, DisassociatePermission,
       AssociatePermission, Disassociate, Associate, UpdateResourceShare, FoundPcs
  <2>1. \A c : c \in {"True", "error", "terminal"} /\ FailLatest(c)
          => pc' = "done" /\ out' \in Outcomes /\ Linked(out')
    BY <1>0, <2>0, FinishTyped
  <2>2. Finish(Updated) => pc' = "done" /\ out' \in Outcomes /\ Linked(out')
    BY <1>0, FinishTyped
  <2> DEFINE Pc == \/ UNCHANGED out /\ pc' \in Calls
                   \/ pc' = "done" /\ out' \in Outcomes /\ Linked(out')
  <2>3. AfterTags \/ AfterPermissions \/ AfterLists => Pc
    <3>1. AfterTags \/ AfterPermissions \/ AfterLists
          => (UNCHANGED out /\ pc' \in {"disperm", "dis", "update"}) \/ Finish(Updated)
      BY DEF AfterTags, AfterPermissions, AfterLists
    <3> QED
      BY <2>2, <3>1 DEF Calls
  <2>4. Pc
    <3> USE <2>1, <2>2, <2>3 DEF Call, NoCall, GoTo
    <3>1. \A e : ErrorFor(e) \in {"error", "terminal"}
      BY DEF ErrorFor
    <3>2. pc \in Calls
      BY <1>0 DEF PcOK
    <3> HIDE DEF Pc
    <3>3. \A c : c \in {"True", "error", "terminal"} /\ FailLatest(c) => Pc
      BY <2>1 DEF Pc
    <3>4. UNCHANGED out /\ pc' \in Calls => Pc
      BY DEF Pc
    <3>5. Finish(Updated) => Pc
      BY DEF Pc
    <3>6. {"untag", "tag", "asperm", "as"} \subseteq Calls
      BY DEF Calls
    <3>7. PatchLatestStatus => Pc
      BY <3>3, <3>4, <3>6 DEF PatchLatestStatus
    <3>8. Untag => Pc
      BY <3>3, <3>4, <3>6 DEF Untag
    <3>9. Tag => Pc
      BY <3>3 DEF Tag
    <3>10. DisassociatePermission => Pc
      BY <3>2, <3>3, <3>4, <3>6 DEF DisassociatePermission
    <3>11. AssociatePermission => Pc
      BY <3>2, <3>3, <3>4 DEF AssociatePermission
    <3>12. Disassociate => Pc
      BY <3>3, <3>4, <3>6 DEF Disassociate
    <3>13. Associate => Pc
      BY <3>1, <3>3 DEF Associate
    <3>14. UpdateResourceShare => Pc
      BY <3>3, <3>5 DEF UpdateResourceShare
    <3> QED
      BY <1>9, <3>7, <3>8, <3>9, <3>10, <3>11, <3>12, <3>13, <3>14 DEF Update
  <2>5. TodoOK'
    <3>0. TodoOK /\ lat \in Latest
      BY <1>0 DEF MemOK
    <3>1. UNCHANGED todo => TodoOK'
      BY <3>0 DEF TodoOK
    <3>2. PatchLatestStatus => TodoOK'
      <4>1. PatchLatestStatus => UNCHANGED todo \/ todo' = PermissionsTodo
        BY DEF PatchLatestStatus
      <4>2. DOMAIN PermissionsTodo = {"del", "add"}
        BY DEF PermissionsTodo
      <4>3. \A s \in {"del", "add"} : PermissionsTodo[s] \in Seq(Permissions)
        BY <1>b, <3>0, TodoTyped
      <4> QED
        BY <3>1, <4>1, <4>2, <4>3 DEF TodoOK
    <3>3. \A s \in Seq(Permissions) : s # <<>> => Tail(s) \in Seq(Permissions)
      OBVIOUS
    <3>4. DisassociatePermission => TodoOK'
      <4>1. DisassociatePermission =>
              \/ UNCHANGED todo
              \/ todo.del # <<>> /\ todo' = [todo EXCEPT !.del = Tail(@)]
        BY DEF DisassociatePermission, Call, NoCall, GoTo
      <4> QED
        BY <3>0, <3>1, <3>3, <4>1 DEF TodoOK
    <3>5. AssociatePermission => TodoOK'
      <4>1. AssociatePermission =>
              \/ UNCHANGED todo
              \/ todo.add # <<>> /\ todo' = [todo EXCEPT !.add = Tail(@)]
        BY DEF AssociatePermission, Call, NoCall
      <4> QED
        BY <3>0, <3>1, <3>3, <4>1 DEF TodoOK
    <3>6. Untag \/ Tag \/ Disassociate \/ Associate \/ UpdateResourceShare => UNCHANGED todo
      BY DEF Untag, Tag, Disassociate, Associate, UpdateResourceShare, Call, NoCall, GoTo
    <3> QED
      BY <1>9, <3>1, <3>2, <3>4, <3>5, <3>6 DEF Update
  <2>6. MemOK'
    BY <1>0, <2>0, <2>4, <2>5 DEF MemOK
  <2> QED
    BY <1>a, <2>0, <2>4, <2>6 DEF PcOK, Calls
<1>10. CASE PatchStatus \/ CrashRestart
  <2>1. Forget /\ pc' = "idle"
    BY <1>10 DEF PatchStatus, CrashRestart
  <2> QED
    BY <2>1, ForgetTyped DEF PcOK, Calls, FoundPcs
<1>11. CASE SdkDelete
  <2>1. pc \in FoundPcs /\ UNCHANGED <<des, lat, todo>>
        /\ (FailLatest("error") \/ (pc' = "unmark" /\ UNCHANGED out))
    BY <1>11 DEF SdkDelete, DeleteFailed, FoundPcs
  <2>2. Ends \/ GoesOn
    BY <1>0, <2>1, FinishTyped DEF Ends, GoesOn, Calls
  <2> QED
    BY <1>0, <2>1, <2>2, GoOnTyped
<1>12. CASE MarkUnmanaged
  <2>1. CASE Forget /\ pc' = "idle"
    BY <2>1, ForgetTyped DEF PcOK, Calls, FoundPcs
  <2>2. CASE FailDesired("error") /\ UNCHANGED <<des, lat, todo>>
    <3>1. Ends
      BY <1>0, <2>2, FinishTyped DEF Ends
    <3> QED
      BY <1>0, <3>1, GoOnTyped DEF Ends, FoundPcs
  <2> QED
    BY <1>12, <2>1, <2>2 DEF MarkUnmanaged
<1>13. EditSpec \/ DeleteResource \/ Resync \/ TaggedByAws \/ DeletedElsewhere \/ Purge
       \/ (\E i \in Ids, k \in Kinds, e \in Entities : Progress(i, k, e))
       \/ Permission \/ UNCHANGED vars => UNCHANGED <<pc, mem>>
  BY DEF EditSpec, DeleteResource, Resync, TaggedByAws, DeletedElsewhere, Purge, Progress,
     Permission, PermissionWorker, CreatePermission, DeletePermission, ResyncPermission,
     EditPermission, vars
<1>14. CASE UNCHANGED <<pc, mem>>
  BY <1>0, <1>14 DEF mem, MemOK, PcOK, TodoOK
<1> QED
  BY <1>1, <1>2, <1>3, <1>4, <1>5, <1>6, <1>7, <1>8, <1>9, <1>10, <1>11, <1>12, <1>13, <1>14
     DEF Next, Worker, Environment

\* Types, for any specs, entities, permissions, tags, edits and faults.
THEOREM ShareTypes == Spec => []TypeOK
<1>1. Typed /\ [Next]_vars => Typed'
  <2>1. Typed /\ [Next]_vars => EnvOK'
    BY StepEnvTyped DEF Typed
  <2> QED
    BY <2>1, StepClusterTyped, StepSharesTyped, StepMemTyped DEF Typed
<1> QED
  BY <1>1, InitTyped, TypedIsTypeOK, PTL DEF Spec
=============================================================================
