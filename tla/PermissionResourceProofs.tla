---------------------- MODULE PermissionResourceProofs ----------------------
(***************************************************************************)
(* What follows from the promises of a Permission resource, for any        *)
(* policies.                                                               *)
(***************************************************************************)
EXTENDS PermissionResource, TLAPS

\* The copy the worker has in hand is what the user wants, or the resource is
\* pending again; removing is something done to a resource being deleted; and
\* nothing is in force before the finalizer is on.
InHand ==
  /\ res.doing = "apply" /\ ~res.pending => res.copy = res.wanted
  /\ res.doing = "remove" => res.life = "deleting"
  /\ res.life = "unmanaged" => res.inForce = NoTemplate

ResourceInv == res \in Record /\ InHand /\ SyncedMeansInForce /\ GoneMeansOutOfForce

LEMMA InitResourceInv == Init => ResourceInv
BY DEF Init, Fresh, ResourceInv, Record, Conditions, InHand, SyncedMeansInForce,
       GoneMeansOutOfForce, Busy, Exists

LEMMA StepRecord ==
  ASSUME res \in Record, [Next]_res
  PROVE  res' \in Record
<1> USE DEF Record, Busy, Exists, Idle
<1>1. CASE Edit
  BY <1>1 DEF Edit
<1>2. CASE Delete
  BY <1>2 DEF Delete
<1>3. CASE Resync
  BY <1>3 DEF Resync
<1>4. CASE Take
  BY <1>4 DEF Take
<1>5. CASE Manage
  BY <1>5 DEF Manage
<1>6. CASE Publish
  BY <1>6 DEF Publish
<1>7. ASSUME NEW c \in Conditions, Report(c) PROVE res' \in Record
  BY <1>7 DEF Report
<1>8. CASE GiveUp
  BY <1>8 DEF GiveUp
<1>9. CASE Drop
  BY <1>9 DEF Drop
<1>10. CASE Unpublish
  BY <1>10 DEF Unpublish
<1>11. CASE Remove
  BY <1>11 DEF Remove
<1>12. CASE UNCHANGED res
  BY <1>12
<1> QED
  BY <1>1, <1>2, <1>3, <1>4, <1>5, <1>6, <1>7, <1>8, <1>9, <1>10, <1>11, <1>12 DEF Next, Worker

LEMMA StepInHand ==
  ASSUME res \in Record, InHand, [Next]_res
  PROVE  InHand'
<1> USE DEF Record, InHand, Busy, Exists, Idle
<1>1. CASE Edit
  BY <1>1 DEF Edit
<1>2. CASE Delete
  BY <1>2 DEF Delete
<1>3. CASE Resync
  BY <1>3 DEF Resync
<1>4. CASE Take
  BY <1>4 DEF Take
<1>5. CASE Manage
  BY <1>5 DEF Manage
<1>6. CASE Publish
  BY <1>6 DEF Publish
<1>7. ASSUME NEW c \in Conditions, Report(c) PROVE InHand'
  BY <1>7 DEF Report
<1>8. CASE GiveUp
  BY <1>8 DEF GiveUp
<1>9. CASE Drop
  BY <1>9 DEF Drop
<1>10. CASE Unpublish
  BY <1>10 DEF Unpublish
<1>11. CASE Remove
  BY <1>11 DEF Remove
<1>12. CASE UNCHANGED res
  BY <1>12
<1> QED
  BY <1>1, <1>2, <1>3, <1>4, <1>5, <1>6, <1>7, <1>8, <1>9, <1>10, <1>11, <1>12 DEF Next, Worker

LEMMA StepSynced ==
  ASSUME res \in Record, InHand, SyncedMeansInForce, [Next]_res
  PROVE  SyncedMeansInForce'
<1> USE DEF Record, InHand, SyncedMeansInForce, Busy, Exists, Idle
<1>1. CASE Edit
  BY <1>1 DEF Edit
<1>2. CASE Delete
  BY <1>2 DEF Delete
<1>3. CASE Resync
  BY <1>3 DEF Resync
<1>4. CASE Take
  BY <1>4 DEF Take
<1>5. CASE Manage
  BY <1>5 DEF Manage
<1>6. CASE Publish
  BY <1>6 DEF Publish
<1>7. ASSUME NEW c \in Conditions, Report(c) PROVE SyncedMeansInForce'
  BY <1>7 DEF Report
<1>8. CASE GiveUp
  BY <1>8 DEF GiveUp
<1>9. CASE Drop
  BY <1>9 DEF Drop
<1>10. CASE Unpublish
  BY <1>10 DEF Unpublish
<1>11. CASE Remove
  BY <1>11 DEF Remove
<1>12. CASE UNCHANGED res
  BY <1>12
<1> QED
  BY <1>1, <1>2, <1>3, <1>4, <1>5, <1>6, <1>7, <1>8, <1>9, <1>10, <1>11, <1>12 DEF Next, Worker

LEMMA StepGone ==
  ASSUME res \in Record, InHand, GoneMeansOutOfForce, [Next]_res
  PROVE  GoneMeansOutOfForce'
<1> USE DEF Record, InHand, GoneMeansOutOfForce, Busy, Exists, Idle
<1>1. CASE Edit
  BY <1>1 DEF Edit
<1>2. CASE Delete
  BY <1>2 DEF Delete
<1>3. CASE Resync
  BY <1>3 DEF Resync
<1>4. CASE Take
  BY <1>4 DEF Take
<1>5. CASE Manage
  BY <1>5 DEF Manage
<1>6. CASE Publish
  BY <1>6 DEF Publish
<1>7. ASSUME NEW c \in Conditions, Report(c) PROVE GoneMeansOutOfForce'
  BY <1>7 DEF Report
<1>8. CASE GiveUp
  BY <1>8 DEF GiveUp
<1>9. CASE Drop
  BY <1>9 DEF Drop
<1>10. CASE Unpublish
  BY <1>10 DEF Unpublish
<1>11. CASE Remove
  BY <1>11 DEF Remove
<1>12. CASE UNCHANGED res
  BY <1>12
<1> QED
  BY <1>1, <1>2, <1>3, <1>4, <1>5, <1>6, <1>7, <1>8, <1>9, <1>10, <1>11, <1>12 DEF Next, Worker

LEMMA StepResourceInv == ResourceInv /\ [Next]_res => ResourceInv'
BY StepRecord, StepInHand, StepSynced, StepGone DEF ResourceInv

\* Whoever keeps the promises says Synced, with nothing pending, only when RAM
\* enforces the policy the user wants.
THEOREM PromiseOfSynced == Spec => []SyncedMeansInForce
<1>1. ResourceInv => SyncedMeansInForce
  BY DEF ResourceInv
<1> QED
  BY <1>1, InitResourceInv, StepResourceInv, PTL DEF Spec

\* Whoever keeps the promises leaves the cluster only after the policy its
\* status knows of is out of force.
THEOREM PromiseOfFinalizer == Spec => []GoneMeansOutOfForce
<1>1. ResourceInv => GoneMeansOutOfForce
  BY DEF ResourceInv
<1> QED
  BY <1>1, InitResourceInv, StepResourceInv, PTL DEF Spec
=============================================================================
