-------------------------- MODULE MCResourceShare --------------------------
(* Small instances of ResourceShare: the specs a user writes in each run.   *)
EXTENDS ResourceShare

CONSTANTS p, q, r, \* entities
          a, b, c, \* permissions: a and b are for the same resource type
          n, m,    \* names
          x, y, w  \* two values of a tag and the key of an aws: tag

NoEntities == [k \in Kinds |-> <<>>]
NoTags == [k \in TagKeys |-> NoTag]
MCDefaultTags == [o \in TagKeys |-> IF o \in AwsKeys THEN NoTag ELSE x]
MCTypeOf == [o \in Permissions |-> IF o = c THEN "other" ELSE "one"]

Base == [name |-> n, ext |-> FALSE, refs |-> FALSE, perms |-> <<>>,
         list |-> NoEntities, tags |-> NoTags]
With(kind, s) == [Base EXCEPT !.list[kind] = s]

\* Principals and resources that come and go together, and one RAM rejects.
ListSpecs ==
  {[Base EXCEPT !.list["principal"] = s, !.list["resource"] = t]
    : s \in {<<>>, <<p>>, <<q, p>>}, t \in {<<>>, <<p>>}} \cup {With("principal", <<p, r>>)}

\* Permissions of two types, AllowExternalPrincipals, and tags that override the
\* controller's or not.
ConfigSpecs ==
  {[With("principal", <<p>>) EXCEPT !.perms = s, !.ext = e, !.tags = t]
    : s \in {<<a>>, <<a, c>>}, e \in BOOLEAN,
      t \in {o \in [TagKeys -> {y, NoTag}] : \A i \in AwsKeys : o[i] = NoTag}}

\* With and without a reference, and with both a reference and an ARN, which is
\* not supported.
RefSpecs ==
  LET Referring == [With("principal", <<p>>) EXCEPT !.name = m, !.refs = TRUE]
  IN {Referring, [Referring EXCEPT !.refs = FALSE], [Referring EXCEPT !.perms = <<c>>]}

SettledSpecs == ListSpecs \cup ConfigSpecs \cup RefSpecs

\* All of a principal list exchanged at once, and permissions of different types
\* added and removed, or left to RAM, whose own they take the place of.
ConvergingSpecs ==
  {With("principal", s) : s \in {<<p, q>>, <<r>>}}
    \cup {[Base EXCEPT !.perms = s] : s \in {<<c>>, <<c, a>>}}

\* One principal exchanged for another.
RevokingSpecs == {With("principal", <<p>>), With("principal", <<q>>)}

OneSpec == {With("principal", <<p>>)}
SourceSpecs == {With("source", <<p>>), With("source", <<q>>)}
=============================================================================
