-------------------------- MODULE SliceRoundsProofs --------------------------
(***************************************************************************)
(* The rounds of compareStringSlices, for any finite set of elements, any  *)
(* lists over it, and whatever the order in which RAM lists what it holds. *)
(***************************************************************************)
EXTENDS SliceRounds, OperatorProofs

RoundsInv == want \in Seq(Elements) /\ have \subseteq Elements

LEMMA ListsAreSequences == Lists \subseteq Seq(Elements)
BY LenAssumption DEF Lists, BoundedSeq, SeqOf

\* What RAM answers with, in whatever order, is what it holds.
LEMMA AnswerIs ==
  ASSUME RoundsInv, NEW b \in SetToSeqs(have)
  PROVE  b \in Seq(Elements) /\ ToSet(b) = have
<1>1. IsFiniteSet(have)
  BY LenAssumption, FS_Subset DEF RoundsInv
<1>2. b \in Seq(have) /\ ToSet(b) = have
  BY <1>1, ListsOfSet
<1> QED
  BY <1>2 DEF RoundsInv

\* What one round makes of what RAM holds.
LEMMA RoundIs ==
  ASSUME RoundsInv, Round
  PROVE  /\ UNCHANGED want
         /\ ToSet(want) \subseteq have => have' = ToSet(want)
         /\ ~(ToSet(want) \subseteq have) =>
              \E v \in ToSet(want) \ have : have' = have \cup {v}
<1>1. PICK b \in SetToSeqs(have) : have' = Reconciled(want, b)
  BY DEF Round
<1>2. b \in Seq(Elements) /\ ToSet(b) = have
  BY AnswerIs
<1> QED
  BY <1>1, <1>2, ReconciledIs DEF RoundsInv, Round

LEMMA WantedIsInElements == ASSUME RoundsInv PROVE ToSet(want) \subseteq Elements
BY DEF RoundsInv, ToSet

LEMMA StepRoundsInv == RoundsInv /\ [Round \/ Change]_roundVars => RoundsInv'
<1> SUFFICES ASSUME RoundsInv, [Round \/ Change]_roundVars PROVE RoundsInv'
  OBVIOUS
<1>1. CASE Round
  BY <1>1, RoundIs, WantedIsInElements DEF RoundsInv
<1>2. CASE Change
  BY <1>2, ListsAreSequences DEF RoundsInv, Change
<1>3. CASE UNCHANGED roundVars
  BY <1>3 DEF RoundsInv, roundVars
<1> QED
  BY <1>1, <1>2, <1>3

LEMMA RoundsTyped == RoundsSpec => []RoundsInv
<1>1. RoundsInit => RoundsInv
  BY ListsAreSequences DEF RoundsInit, RoundsInv
<1> QED
  BY <1>1, StepRoundsInv, PTL DEF RoundsSpec

\* Nothing that is wanted is ever disassociated, everything else is.
THEOREM WantedKept == RoundsSpec => []WantedIsKept
<1>1. RoundsInv => WantedIsKept
  <2> SUFFICES ASSUME RoundsInv, NEW b \in SetToSeqs(have)
               PROVE  /\ ToSet(want) \cap have \subseteq Reconciled(want, b)
                      /\ ToSet(ToDelete(want, b)) = have \ ToSet(want)
    BY DEF WantedIsKept
  <2>1. b \in Seq(Elements) /\ ToSet(b) = have /\ want \in Seq(Elements)
    BY AnswerIs DEF RoundsInv
  <2> QED
    BY <2>1, ReconciledIs, ToDeleteIs
<1> QED
  BY <1>1, RoundsTyped, PTL

\* While something is missing a round supplies exactly one more, and never
\* anything that was neither wanted nor there.
THEOREM RoundSuppliesOne == RoundsSpec => OneMorePerRound
<1>1. ASSUME RoundsInv, [Round \/ Change]_roundVars
      PROVE  [want' = want /\ ToSet(want) \ have # {} =>
                /\ have' \subseteq have \cup ToSet(want)
                /\ \E v \in ToSet(want) \ have :
                     have' \cap ToSet(want) = (have \cap ToSet(want)) \cup {v}]_roundVars
  <2>1. CASE Round
    BY <1>1, <2>1, RoundIs
  <2>2. CASE Change
    BY <2>2 DEF Change
  <2> QED
    BY <1>1, <2>1, <2>2
<1> QED
  BY <1>1, RoundsTyped, PTL DEF RoundsSpec, OneMorePerRound

\* Once nothing is missing, the next round is the last: RAM holds what is wanted.
\* So a list of n entries is there after n + 1 rounds at most.
LastRound == [][Round /\ ToSet(want) \subseteq have => have' = ToSet(want)]_roundVars

\* compareStringSlices ends as soon as nothing is missing.
THEOREM RoundsEnd == RoundsSpec => LastRound
<1>1. RoundsInv => [Round /\ ToSet(want) \subseteq have => have' = ToSet(want)]_roundVars
  BY RoundIs
<1> QED
  BY <1>1, RoundsTyped, PTL DEF RoundsSpec, LastRound
=============================================================================
