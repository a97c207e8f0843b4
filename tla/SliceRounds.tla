----------------------------- MODULE SliceRounds -----------------------------
(***************************************************************************)
(* The comparison of StringSlices, round after round, with every call      *)
(* answered at once: the list the user wants, which may change between     *)
(* rounds, and the set of elements RAM holds.                              *)
(***************************************************************************)
EXTENDS StringSlices

CONSTANTS Elements, MaxLen, MaxChanges
ASSUME LenAssumption == MaxLen \in Nat /\ MaxChanges \in Nat /\ IsFiniteSet(Elements)

VARIABLES want, have, changes
roundVars == <<want, have, changes>>

Lists == BoundedSeq(Elements, MaxLen)

RoundsInit == want \in Lists /\ have \in SUBSET Elements /\ changes = 0

\* RAM lists what it holds in an order of its own.
Round ==
  /\ \E b \in SetToSeqs(have) : have' = Reconciled(want, b)
  /\ UNCHANGED <<want, changes>>

Change ==
  /\ changes < MaxChanges /\ changes' = changes + 1
  /\ want' \in Lists \ {want}
  /\ UNCHANGED have

RoundsSpec == RoundsInit /\ [][Round \/ Change]_roundVars /\ WF_roundVars(Round)

\* The result does not depend on the order in which RAM lists what it holds,
\* and the lists of calls are free of what need not change: nothing that is
\* wanted is ever disassociated.
WantedIsKept ==
  \A b \in SetToSeqs(have) :
    /\ ToSet(want) \cap have \subseteq Reconciled(want, b)
    /\ ToSet(ToDelete(want, b)) = have \ ToSet(want)

\* A round leaves nothing behind that is neither wanted nor was there before,
\* and while something is missing every round supplies exactly one more: the
\* progress that the resync of the controller lives on.
OneMorePerRound ==
  [][want' = want /\ ToSet(want) \ have # {} =>
       /\ have' \subseteq have \cup ToSet(want)
       /\ \E v \in ToSet(want) \ have : have' \cap ToSet(want) = (have \cap ToSet(want)) \cup {v}
    ]_roundVars

\* Once the user stops, the rounds end with exactly the wanted elements.
RoundsConverge == <>[](have = ToSet(want))
=============================================================================
