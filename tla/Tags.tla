-------------------------------- MODULE Tags --------------------------------
(***************************************************************************)
(* The tags of a resource, and the two calls with which syncTags brings    *)
(* them from what RAM holds (latest) to what is wanted (desired): the tags *)
(* of the spec and the controller's own, and not the aws: tags, which are  *)
(* none of its affair.                                                     *)
(***************************************************************************)
CONSTANTS TagKeys, TagVals, NoTag  \* NoTag: the value of a key with no tag

ASSUME NoTagAssumption == NoTag \notin TagVals

Tagging == [TagKeys -> TagVals \cup {NoTag}]
Untagged == [k \in TagKeys |-> NoTag]

\* EnsureTags: what the user wrote goes before the controller's own tags.
Mutant_DefaultsFirst(tags, defaults) ==
  [k \in TagKeys |-> IF defaults[k] # NoTag THEN defaults[k] ELSE tags[k]]
Ensured(tags, defaults) ==
  [k \in TagKeys |-> IF tags[k] # NoTag THEN tags[k] ELSE defaults[k]]

\* mirrorAWSTags: desired takes over the aws: tags of latest.
Mutant_NotMirrored(desired, latest, aws) == desired
Mirrored(desired, latest, aws) ==
  [k \in TagKeys |-> IF k \in aws /\ latest[k] # NoTag THEN latest[k] ELSE desired[k]]

\* ackcompare.GetTagsDifference(latest, desired): a key whose value changed is
\* both removed and added.
TagsRemoved(latest, desired) ==
  {k \in TagKeys : latest[k] # NoTag /\ latest[k] # desired[k]}
Mutant_AddedNewKeysOnly(latest, desired) ==
  {k \in TagKeys : desired[k] # NoTag /\ latest[k] = NoTag}
TagsAdded(latest, desired) ==
  {k \in TagKeys : desired[k] # NoTag /\ latest[k] # desired[k]}

\* UntagResource and TagResource
UntagKeys(tags, keys) == [k \in TagKeys |-> IF k \in keys THEN NoTag ELSE tags[k]]
TagKeysAs(tags, keys, desired) ==
  [k \in TagKeys |-> IF k \in keys THEN desired[k] ELSE tags[k]]
=============================================================================
