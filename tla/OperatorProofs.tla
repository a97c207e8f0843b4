--------------------------- MODULE OperatorProofs ---------------------------
(***************************************************************************)
(* What the operators on tags and on lists compute, for any keys, values   *)
(* and lists: the two calls of syncTags, made one after the other, leave   *)
(* exactly the wanted tags; and what compareStringSlices makes of two      *)
(* lists, which takes induction on their lengths.                          *)
(***************************************************************************)
EXTENDS Tags, StringSlices, FiniteSetTheorems, TLAPS

\* UntagResource and then TagResource bring RAM from the tags it was read with
\* to the tags of the spec (syncTags of both resources).
THEOREM TagsSynced ==
  ASSUME NEW latest \in Tagging, NEW desired \in Tagging
  PROVE  TagKeysAs(UntagKeys(latest, TagsRemoved(latest, desired)),
                   TagsAdded(latest, desired), desired) = desired
  BY DEF Tagging, TagKeysAs, UntagKeys, TagsRemoved, TagsAdded

\* Making the second call alone, the error of the first dropped as the Permission
\* does, leaves a tag too many for each removed key that is not also added.
THEOREM UntagDropped ==
  ASSUME NEW latest \in Tagging, NEW desired \in Tagging
  PROVE  \A k \in TagKeys :
           TagKeysAs(latest, TagsAdded(latest, desired), desired)[k] # desired[k]
             <=> k \in TagsRemoved(latest, desired) \ TagsAdded(latest, desired)
  BY DEF Tagging, TagKeysAs, TagsRemoved, TagsAdded

\* With the aws: tags of latest mirrored into desired, syncTags asks for what it
\* would ask for if there were none, and for nothing of theirs (mirrorAWSTags).
THEOREM AwsTagsCancel ==
  ASSUME NEW latest \in Tagging, NEW desired \in Tagging, NEW aws \in SUBSET TagKeys,
         \A k \in aws : desired[k] = NoTag
  PROVE  LET mirrored == Mirrored(desired, latest, aws)
         IN  /\ TagsRemoved(latest, mirrored) = TagsRemoved(latest, desired) \ aws
             /\ TagsAdded(latest, mirrored) = TagsAdded(latest, desired)
  BY DEF Tagging, TagsRemoved, TagsAdded, Mirrored

\* Induction up to n, over a set: otherwise the numbers that are not followed by
\* a member would be mapped one to one to some of themselves.
LEMMA UpTo ==
  ASSUME NEW n \in Nat, NEW S, 0 \in S, \A i \in 0..(n - 1) : i \in S => i + 1 \in S
  PROVE  \A k \in 0..n : k \in S
<1> SUFFICES ASSUME NEW k \in 0..n, k \notin S PROVE FALSE
  OBVIOUS
<1> DEFINE T == {i \in 0..k : \A m \in i..k : m \notin S}
<1>1. IsFiniteSet(T)
  <2>1. IsFiniteSet(0..k)
    BY FS_Interval
  <2> QED
    BY <2>1, FS_Subset
<1>2. \A i \in T : i - 1 \in T
  OBVIOUS
<1>3. k \in T
  OBVIOUS
<1> DEFINE f == [i \in T |-> i - 1]
<1>4. f \in Injection(T, T)
  BY <1>2 DEF Injection, IsInjective
<1> HIDE DEF T
<1>5. f \in Surjection(T, T)
  BY <1>1, <1>4, FS_Injection
<1>6. PICK i \in T : f[i] = k
  BY <1>3, <1>5 DEF Surjection
<1> QED
  BY <1>6 DEF T

LEMMA MinIs ==
  ASSUME NEW S \in SUBSET Nat, S # {}
  PROVE  Min(S) \in S /\ \A x \in S : Min(S) <= x
<1> SUFFICES \E x \in S : \A y \in S : x <= y
  BY DEF Min
<1> SUFFICES ASSUME \A x \in S : \E y \in S : y < x PROVE FALSE
  OBVIOUS
<1>1. PICK n \in S : TRUE
  OBVIOUS
<1> DEFINE N == {k \in 0..n : \A j \in 0..k : j \notin S}
<1>2. 0 \in N
  OBVIOUS
<1>3. \A k \in 0..(n - 1) : k \in N => k + 1 \in N
  OBVIOUS
<1> HIDE DEF N
<1>4. \A k \in 0..n : k \in N
  BY <1>2, <1>3, UpTo
<1> QED
  BY <1>4 DEF N

\* Without, as the function its definition speaks of.
Keeps(s, S, f) ==
  f = [i \in 0..Len(s) |-> IF i = 0 THEN <<>>
                           ELSE IF s[i] \in S THEN f[i - 1] ELSE Append(f[i - 1], s[i])]

LEMMA KeepsExists ==
  ASSUME NEW A, NEW s \in Seq(A), NEW S
  PROVE  \E f : Keeps(s, S, f)
<1> DEFINE G(f, i) == IF i = 0 THEN <<>>
                      ELSE IF s[i] \in S THEN f[i - 1] ELSE Append(f[i - 1], s[i])
           K(n, f) == f = [i \in 0..n |-> G(f, i)]
           N == {n \in 0..Len(s) : \E f : K(n, f)}
<1>1. 0 \in N
  <2> DEFINE z == [i \in 0..0 |-> <<>>]
  <2>1. K(0, z)
    OBVIOUS
  <2> HIDE DEF K, z
  <2> QED
    BY <2>1
<1>2. ASSUME NEW n \in 0..(Len(s) - 1), n \in N PROVE n + 1 \in N
  <2>1. PICK f : K(n, f)
    BY <1>2
  <2> DEFINE g == [i \in 0..(n + 1) |-> IF i = n + 1 THEN G(f, i) ELSE f[i]]
  <2>2. \A i \in 0..n : g[i] = f[i] /\ f[i] = G(f, i)
    <3>1. \A i \in 0..n : f[i] = G(f, i)
      <4> HIDE DEF G
      <4> QED
        BY <2>1
    <3> HIDE DEF G
    <3> QED
      BY <3>1
  <2>3. \A i \in 0..(n + 1) : G(g, i) = G(f, i)
    <3> SUFFICES ASSUME NEW i \in 0..(n + 1) PROVE G(g, i) = G(f, i)
      OBVIOUS
    <3>1. i # 0 => g[i - 1] = f[i - 1]
      BY <2>2
    <3> HIDE DEF g
    <3> QED
      BY <3>1
  <2>4. \A i \in 0..(n + 1) : g[i] = G(g, i)
    <3>1. g[n + 1] = G(f, n + 1)
      OBVIOUS
    <3> HIDE DEF g, G
    <3> QED
      BY <2>2, <2>3, <3>1
  <2>5. K(n + 1, g)
    <3>1. g = [i \in 0..(n + 1) |-> g[i]]
      OBVIOUS
    <3> HIDE DEF g, G
    <3> QED
      BY <2>4, <3>1
  <2> HIDE DEF g, K
  <2> QED
    BY <2>5
<1> HIDE DEF N
<1>3. Len(s) \in N
  <2>1. \A n \in 0..(Len(s) - 1) : n \in N => n + 1 \in N
    BY <1>2
  <2>2. Len(s) \in Nat
    OBVIOUS
  <2>3. \A n \in 0..Len(s) : n \in N
    BY <1>1, <2>1, <2>2, UpTo
  <2> QED
    BY <2>2, <2>3
<1> QED
  BY <1>3 DEF Keeps, N

\* The entries of the result are those of the list that are not in the set.
THEOREM WithoutRemoves ==
  ASSUME NEW A, NEW s \in Seq(A), NEW S
  PROVE  Without(s, S) \in Seq(A) /\ ToSet(Without(s, S)) = ToSet(s) \ S
<1> DEFINE f == CHOOSE f : Keeps(s, S, f)
<1>1. Keeps(s, S, f)
  BY KeepsExists
<1>2. Without(s, S) = f[Len(s)]
  BY DEF Without, Keeps
<1> DEFINE Upto(k) == {s[j] : j \in 1..k}
           G(i) == IF i = 0 THEN <<>>
                   ELSE IF s[i] \in S THEN f[i - 1] ELSE Append(f[i - 1], s[i])
           N == {k \in 0..Len(s) : f[k] \in Seq(A) /\ ToSet(f[k]) = Upto(k) \ S}
<1> HIDE DEF f
<1>3. \A i \in 0..Len(s) : f[i] = G(i)
  <2>1. f = [i \in 0..Len(s) |-> G(i)]
    BY <1>1 DEF Keeps
  <2> HIDE DEF G
  <2> QED
    BY <2>1
<1> HIDE DEF G
<1>4. 0 \in N
  <2>1. f[0] = <<>>
    BY <1>3 DEF G
  <2>2. Upto(0) = {} /\ ToSet(<<>>) = {}
    BY DEF ToSet
  <2>3. 0 \in 0..Len(s) /\ <<>> \in Seq(A)
    OBVIOUS
  <2> HIDE DEF Upto
  <2> QED
    BY <2>1, <2>2, <2>3
<1>5. ASSUME NEW n \in 0..(Len(s) - 1), n \in N PROVE n + 1 \in N
  <2>1. f[n + 1] = IF s[n + 1] \in S THEN f[n] ELSE Append(f[n], s[n + 1])
    BY <1>3 DEF G
  <2>2. f[n] \in Seq(A) /\ ToSet(f[n]) = Upto(n) \ S /\ s[n + 1] \in A
    BY <1>5
  <2>3. Upto(n + 1) = Upto(n) \cup {s[n + 1]}
    OBVIOUS
  <2>4. \A t \in Seq(A), x \in A : ToSet(Append(t, x)) = ToSet(t) \cup {x}
    BY DEF ToSet
  <2> HIDE DEF Upto
  <2>5. f[n + 1] \in Seq(A) /\ ToSet(f[n + 1]) = Upto(n + 1) \ S
    BY <2>1, <2>2, <2>3, <2>4
  <2> QED
    BY <2>5
<1> HIDE DEF N
<1>6. Len(s) \in N
  <2>1. \A n \in 0..(Len(s) - 1) : n \in N => n + 1 \in N
    BY <1>5
  <2>2. Len(s) \in Nat
    OBVIOUS
  <2>3. \A n \in 0..Len(s) : n \in N
    BY <1>4, <2>1, <2>2, UpTo
  <2> QED
    BY <2>2, <2>3
<1> QED
  BY <1>2, <1>6 DEF N, ToSet

\* A set, listed without repetition, has the members of the set.
LEMMA ListsOfSet ==
  ASSUME NEW S, IsFiniteSet(S), NEW b \in SetToSeqs(S)
  PROVE  b \in Seq(S) /\ ToSet(b) = S
<1> DEFINE n == Cardinality(S)
<1>1. n \in Nat
  BY FS_CardinalityType
<1>2. b \in Injection(1..n, S)
  BY DEF SetToSeqs, Injection, IsInjective
<1>3. IsFiniteSet(1..n) /\ Cardinality(1..n) = n
  BY <1>1, FS_Interval
<1>4. b \in Surjection(1..n, S)
  BY <1>2, <1>3, FS_Injection
<1> QED
  BY <1>1, <1>4 DEF Surjection, ToSet

LEMMA ListOfSet ==
  ASSUME NEW S, IsFiniteSet(S)
  PROVE  SetToSeq(S) \in Seq(S) /\ ToSet(SetToSeq(S)) = S
<1>1. \E f \in [1..Cardinality(S) -> S] : IsInjective(f)
  BY FS_CardinalityType DEF ExistsBijection, Bijection, Injection
<1>2. SetToSeq(S) \in SetToSeqs(S)
  BY <1>1 DEF SetToSeq, SetToSeqs, IsInjective
<1> QED
  BY <1>2, ListsOfSet

\* What compareStringSlices asks to disassociate is what is there and not wanted.
THEOREM ToDeleteIs ==
  ASSUME NEW A, NEW a \in Seq(A), NEW b \in Seq(A)
  PROVE  ToDelete(a, b) \in Seq(A) /\ ToSet(ToDelete(a, b)) = ToSet(b) \ ToSet(a)
BY WithoutRemoves DEF ToDelete

LEMMA MissingIs ==
  ASSUME NEW A, NEW a \in Seq(A), NEW b \in Seq(A)
  PROVE  Missing(a, b) \in Seq(A) /\ ToSet(Missing(a, b)) = ToSet(a) \ ToSet(b)
BY WithoutRemoves DEF Missing

LEMMA LastIsThere ==
  ASSUME NEW A, NEW s \in Seq(A), s # <<>>
  PROVE  Last(s) \in ToSet(s)
BY DEF Last, ToSet

LEMMA EmptyHasNone ==
  ASSUME NEW A, NEW s \in Seq(A)
  PROVE  s = <<>> <=> ToSet(s) = {}
<1>1. DOMAIN s = 1..Len(s) /\ Len(s) \in Nat
  OBVIOUS
<1>2. s # <<>> => s[1] \in ToSet(s)
  BY DEF ToSet
<1>3. ToSet(<<>>) = {}
  BY DEF ToSet
<1> QED
  BY <1>2, <1>3

LEMMA AppendAdds ==
  ASSUME NEW A, NEW s \in Seq(A), NEW x \in A
  PROVE  Append(s, x) \in Seq(A) /\ ToSet(Append(s, x)) = ToSet(s) \cup {x}
<1>1. Append(s, x) \in Seq(A)
  OBVIOUS
<1> DEFINE t == Append(s, x)
<1>2. /\ Len(s) \in Nat /\ DOMAIN s = 1..Len(s) /\ DOMAIN t = 1..(Len(s) + 1)
      /\ t[Len(s) + 1] = x /\ \A i \in 1..Len(s) : t[i] = s[i]
  OBVIOUS
<1> HIDE DEF t
<1>3. ToSet(t) = ToSet(s) \cup {x}
  BY <1>2 DEF ToSet
<1> QED
  BY <1>1, <1>3 DEF t

\* ... and what it asks to associate, nothing when nothing is missing, and else
\* one missing entry together with all that it asks to disassociate.
THEOREM ToAddIs ==
  ASSUME NEW A, NEW a \in Seq(A), NEW b \in Seq(A)
  PROVE  /\ ToAdd(a, b) \in Seq(A)
         /\ ToSet(a) \subseteq ToSet(b) => ToAdd(a, b) = <<>>
         /\ ~(ToSet(a) \subseteq ToSet(b)) =>
              \E v \in ToSet(a) \ ToSet(b) :
                ToSet(ToAdd(a, b)) = (ToSet(b) \ ToSet(a)) \cup {v}
<1> DEFINE missing == Missing(a, b)
           delete == ToDelete(a, b)
<1>1. missing \in Seq(A) /\ ToSet(missing) = ToSet(a) \ ToSet(b)
  BY MissingIs
<1>2. delete \in Seq(A) /\ ToSet(delete) = ToSet(b) \ ToSet(a)
  BY ToDeleteIs
<1>3. ToAdd(a, b) = IF missing = <<>> THEN <<>> ELSE Append(delete, Last(missing))
  BY DEF ToAdd
<1> HIDE DEF missing, delete
<1>4. missing = <<>> <=> ToSet(a) \subseteq ToSet(b)
  BY <1>1, EmptyHasNone
<1>5. missing # <<>> => Last(missing) \in ToSet(a) \ ToSet(b) /\ Last(missing) \in A
  <2>1. missing # <<>> => Last(missing) \in A
    BY <1>1 DEF Last
  <2> QED
    BY <1>1, <2>1, LastIsThere
<1>6. missing # <<>> => /\ Append(delete, Last(missing)) \in Seq(A)
                        /\ ToSet(Append(delete, Last(missing))) = ToSet(delete) \cup {Last(missing)}
  BY <1>2, <1>5, AppendAdds
<1> QED
  BY <1>2, <1>3, <1>4, <1>5, <1>6

\* Once RAM has answered both calls it holds what is wanted of what it held, when
\* nothing was missing; else all that it held, and one entry more.
THEOREM ReconciledIs ==
  ASSUME NEW A, NEW a \in Seq(A), NEW b \in Seq(A)
  PROVE  /\ ToSet(a) \subseteq ToSet(b) => Reconciled(a, b) = ToSet(a)
         /\ ~(ToSet(a) \subseteq ToSet(b)) =>
              \E v \in ToSet(a) \ ToSet(b) : Reconciled(a, b) = ToSet(b) \cup {v}
<1>1. ToSet(<<>>) = {}
  BY DEF ToSet
<1> QED
  BY <1>1, ToDeleteIs, ToAddIs DEF Reconciled
=============================================================================
