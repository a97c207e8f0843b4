---------------------------- MODULE StringSlices ----------------------------
(***************************************************************************)
(* compareStringSlices of pkg/resource/resource_share/hooks.go: what to    *)
(* associate with and what to disassociate from a resource share, given    *)
(* the desired list a and the list b that RAM reports.                     *)
(***************************************************************************)
EXTENDS Integers, Sequences, SequencesExt

\* The entries of s that are not in S, in the order of s.
Without(s, S) ==
  LET kept[i \in 0..Len(s)] ==
        IF i = 0 THEN <<>>
        ELSE IF s[i] \in S THEN kept[i - 1] ELSE Append(kept[i - 1], s[i])
  IN  kept[Len(s)]

\* b without a: the first two loops
Mutant_KeepFirst(a, b) == Without(b, ToSet(a) \cup {Head(b)})
ToDelete(a, b) == Without(b, ToSet(a))

\* a without b: what the last two loops visit
Missing(a, b) == Without(a, ToSet(b))

\* Every visit overwrites toAdd with append(toDelete, v), so the last one
\* decides: everything to delete, and the last missing element.
Mutant_NothingToAdd(a, b) == <<>>
Mutant_DeletedAddedBack(a, b) ==
  IF Missing(a, b) = <<>> THEN ToDelete(a, b) ELSE Append(ToDelete(a, b), Last(Missing(a, b)))
ToAdd(a, b) ==
  IF Missing(a, b) = <<>> THEN <<>> ELSE Append(ToDelete(a, b), Last(Missing(a, b)))

\* The elements RAM holds once both calls have been answered: the deletions
\* come first.
Reconciled(a, b) == (ToSet(b) \ ToSet(ToDelete(a, b))) \cup ToSet(ToAdd(a, b))

=============================================================================
