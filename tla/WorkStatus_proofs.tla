------------------------- MODULE WorkStatus_proofs -------------------------
(***************************************************************************)
(* The status of a Work, the record in its AppliedWork and the objects on  *)
(* the spoke, for any lists of manifests and any number of reconciles.     *)
(***************************************************************************)
EXTENDS WorkStatus, WellFoundedInduction, SequenceTheorems, TLAPS

USE UnparsedAssumption, WorkloadsAssumption, MaxTimeAssumption

-----------------------------------------------------------------------------
(* Numbers. Induction, for what can be said as membership in a set.         *)

LEMMA LeastNumber ==
    ASSUME NEW T, T \subseteq Nat, T # {}
    PROVE  \E x \in T : \A y \in T : x <= y
<1>1. IsWellFoundedOn(OpToRel(<, Nat), Nat)
  BY NatLessThanWellFounded
<1>2. PICK x \in T : \A y \in T : ~(<<y, x>> \in OpToRel(<, Nat))
  BY <1>1, WFMin
<1>3. \A y \in T : ~(y < x)
  BY <1>2 DEF OpToRel
<1>4. x \in T
  BY <1>2, Zenon
<1> QED
  BY <1>3, <1>4

LEMMA MinIsIn ==
    ASSUME NEW T, T \subseteq Nat, T # {}
    PROVE  Min(T) \in T
<1>1. \E x \in T : \A y \in T : x <= y
  BY LeastNumber
<1> QED
  BY <1>1 DEF Min

LEMMA UpTo ==
    ASSUME NEW T, NEW n \in Nat, 0 \in T,
           \A i \in 0..n : i \in T /\ i < n => i + 1 \in T
    PROVE  0..n \subseteq T
<1> DEFINE others == (0..n) \ T
<1>1. SUFFICES ASSUME others # {} PROVE FALSE
  OBVIOUS
<1>2. PICK x \in others : \A y \in others : x <= y
  <2>1. others \subseteq Nat
    OBVIOUS
  <2> HIDE DEF others
  <2> QED
    BY <1>1, <2>1, LeastNumber
<1>3. x # 0 /\ x \in 0..n
  OBVIOUS
<1>4. x - 1 \in T
  BY <1>2, <1>3
<1> QED
  BY <1>3, <1>4

-----------------------------------------------------------------------------
(* Finding the old condition of a manifest.                                 *)

Exact(identifier, conditions) ==
    {i \in 1..Len(conditions) : conditions[i].identifier = identifier}
Same(a, b) == a.manifest = b.manifest /\ a.mapped = b.mapped
Moved(identifier, conditions) ==
    {i \in 1..Len(conditions) : Same(conditions[i].identifier, identifier)}

LEMMA SameButOrdinal ==
    ASSUME NEW a \in Identifier, NEW b \in Identifier
    PROVE  /\ [a EXCEPT !.ordinal = b.ordinal] = b <=> Same(a, b)
           /\ Same(a, b) /\ a.ordinal = b.ordinal => a = b
BY DEF Identifier, Same

LEMMA FindIs ==
    ASSUME NEW id \in Identifier, NEW conditions \in Seq(ManifestCondition)
    PROVE  Find(id, conditions) =
              IF Exact(id, conditions) # {} THEN Min(Exact(id, conditions))
              ELSE IF id.manifest = Unparsed \/ Moved(id, conditions) = {} THEN 0
              ELSE Min(Moved(id, conditions))
<1>1. Exact(id, conditions) # {} => Min(Exact(id, conditions)) # 0
  <2>1. Exact(id, conditions) \subseteq Nat \ {0}
    BY DEF Exact
  <2> QED
    BY <2>1, MinIsIn
<1>2. \A i \in 1..Len(conditions) : conditions[i].identifier \in Identifier
  <2>1. \A i \in 1..Len(conditions) : conditions[i] \in ManifestCondition
    BY ElementOfSeq
  <2> QED
    BY <2>1 DEF ManifestCondition
<1>3. \A i \in 1..Len(conditions) :
         [conditions[i].identifier EXCEPT !.ordinal = id.ordinal] = id
         <=> Same(conditions[i].identifier, id)
  BY <1>2, SameButOrdinal
<1>4. {i \in 1..Len(conditions) :
         [conditions[i].identifier EXCEPT !.ordinal = id.ordinal] = id} = Moved(id, conditions)
  BY <1>3, Zenon DEF Moved
<1>5. {i \in 1..Len(conditions) : conditions[i].identifier = id} = Exact(id, conditions)
  BY DEF Exact
<1> DEFINE I == {i \in 1..Len(conditions) : conditions[i].identifier = id}
           J == {i \in 1..Len(conditions) :
                   [conditions[i].identifier EXCEPT !.ordinal = id.ordinal] = id}
           exact == IF I # {} THEN Min(I) ELSE 0
           moved == IF J # {} THEN Min(J) ELSE 0
<1>6. Find(id, conditions) = IF exact # 0 THEN exact
                             ELSE IF id.manifest = Unparsed THEN 0 ELSE moved
  BY Zenon DEF Find, SelectInSeq
<1>7. I = Exact(id, conditions) /\ J = Moved(id, conditions)
  BY <1>4, <1>5
<1> HIDE DEF I, J
<1> QED
  BY <1>1, <1>6, <1>7

\* What is found describes the same manifest, and if that cannot be decoded, in
\* the same place; and it is found if it is there.
LEMMA Found ==
    ASSUME NEW id \in Identifier, NEW conditions \in Seq(ManifestCondition)
    PROVE  /\ \/ Find(id, conditions) = 0
              \/ /\ Find(id, conditions) \in 1..Len(conditions)
                 /\ Same(conditions[Find(id, conditions)].identifier, id)
                 /\ id.manifest = Unparsed
                        => conditions[Find(id, conditions)].identifier = id
           /\ id.manifest # Unparsed /\ Moved(id, conditions) # {} => Find(id, conditions) # 0
<1> DEFINE k == Find(id, conditions)
<1>1. Exact(id, conditions) \subseteq Nat \ {0} /\ Moved(id, conditions) \subseteq Nat \ {0}
  BY DEF Exact, Moved
<1>2. CASE Exact(id, conditions) # {}
  <2>1. k \in Exact(id, conditions)
    BY <1>1, <1>2, FindIs, MinIsIn
  <2> QED
    BY <2>1 DEF Exact, Same
<1>3. CASE /\ Exact(id, conditions) = {}
           /\ id.manifest # Unparsed /\ Moved(id, conditions) # {}
  <2>1. k \in Moved(id, conditions)
    BY <1>1, <1>3, FindIs, MinIsIn
  <2> QED
    BY <1>3, <2>1 DEF Moved
<1>4. CASE /\ Exact(id, conditions) = {}
           /\ id.manifest = Unparsed \/ Moved(id, conditions) = {}
  BY <1>4, FindIs
<1> QED
  BY <1>2, <1>3, <1>4

-----------------------------------------------------------------------------
(* The loop of generateWorkCondition.                                       *)

First(old) == [k \in DOMAIN old |-> old[k].condition]

\* One turn: the old conditions c after one more result.
Changed(c, result, old) ==
    LET k == Find(result.identifier, old)
    IN IF k = 0 THEN c
       ELSE [c EXCEPT ![k] = SetStatusCondition(@, BuildManifestAppliedCondition(result))]

IsLoop(f, new, old, n) ==
    f = [i \in 0..n |-> IF i = 0 THEN First(old) ELSE Changed(f[i - 1], new[i], old)]

LEMMA LoopExists ==
    ASSUME NEW new, NEW old, NEW n \in Nat
    PROVE  \E f : IsLoop(f, new, old, n)
<1> DEFINE T == {m \in 0..n : \E f : IsLoop(f, new, old, m)}
<1>1. 0 \in T
  <2> DEFINE g == [i \in 0..0 |-> First(old)]
  <2>1. g = [i \in 0..0 |-> IF i = 0 THEN First(old) ELSE Changed(g[i - 1], new[i], old)]
    OBVIOUS
  <2> HIDE DEF g
  <2>2. IsLoop(g, new, old, 0)
    BY <2>1 DEF IsLoop
  <2> QED
    BY <2>2
<1>2. ASSUME NEW m \in 0..n, m \in T, m < n
      PROVE  m + 1 \in T
  <2>1. PICK f : IsLoop(f, new, old, m)
    BY <1>2
  <2> DEFINE g == [i \in 0..(m + 1) |-> IF i = 0 THEN First(old)
                                        ELSE Changed(f[i - 1], new[i], old)]
  <2>2. \A i \in 0..m : g[i] = f[i]
    BY <2>1 DEF IsLoop
  <2>3. \A i \in 0..(m + 1) : i # 0 => i - 1 \in 0..m
    OBVIOUS
  <2>4. g = [i \in 0..(m + 1) |-> IF i = 0 THEN First(old)
                                  ELSE Changed(g[i - 1], new[i], old)]
    BY <2>2, <2>3
  <2>5. IsLoop(g, new, old, m + 1)
    BY <2>4 DEF IsLoop
  <2> QED
    BY <1>2, <2>5
<1> HIDE DEF T
<1>3. 0..n \subseteq T
  BY <1>1, <1>2, UpTo
<1> QED
  BY <1>3 DEF T

LEMMA LoopIs ==
    ASSUME NEW new, NEW old, Len(new) \in Nat
    PROVE  \E f : IsLoop(f, new, old, Len(new)) /\ OldConditionsAfter(new, old) = f[Len(new)]
<1> DEFINE f == CHOOSE g : g = [i \in 0..Len(new) |->
                    IF i = 0 THEN First(old) ELSE Changed(g[i - 1], new[i], old)]
<1>1. OldConditionsAfter(new, old) = f[Len(new)]
  BY Zenon DEF OldConditionsAfter, First, Changed
<1>2. \E g : IsLoop(g, new, old, Len(new))
  BY LoopExists
<1>3. IsLoop(f, new, old, Len(new))
  BY <1>2, Zenon DEF IsLoop
<1> QED
  BY <1>1, <1>3

\* The loop leaves conditions, none of which changed later than now'.
Until(t) == [true : BOOLEAN, since : 0..t]

LEMMA LoopType ==
    ASSUME NEW new \in Seq(ApplyResult), NEW old \in Seq(ManifestCondition), now' \in Nat,
           \A k \in 1..Len(old) : old[k].condition \in Until(now')
    PROVE  \A k \in 1..Len(old) : OldConditionsAfter(new, old)[k] \in Until(now')
<1> DEFINE n == Len(new)
           Type == [1..Len(old) -> Until(now')]
<1>1. n \in Nat /\ DOMAIN old = 1..Len(old)
  OBVIOUS
<1>2. PICK f : IsLoop(f, new, old, n) /\ OldConditionsAfter(new, old) = f[n]
  BY <1>1, LoopIs
<1> DEFINE T == {i \in 0..n : f[i] \in Type}
<1>3. 0 \in T
  BY <1>1, <1>2 DEF IsLoop, First
<1>4. ASSUME NEW i \in 0..n, i \in T, i < n
      PROVE  i + 1 \in T
  <2>1. f[i + 1] = Changed(f[i], new[i + 1], old)
    BY <1>1, <1>2, <1>4 DEF IsLoop
  <2>2. new[i + 1] \in ApplyResult
    BY <1>4, ElementOfSeq
  <2>3. BuildManifestAppliedCondition(new[i + 1]) \in Until(now')
    BY <2>2 DEF BuildManifestAppliedCondition, Until, ApplyResult
  <2>4. \A c \in Until(now') :
           SetStatusCondition(c, BuildManifestAppliedCondition(new[i + 1])) \in Until(now')
    BY <2>3 DEF SetStatusCondition
  <2>5. f[i] \in Type
    BY <1>4
  <2>6. Changed(f[i], new[i + 1], old) \in Type
    BY <2>4, <2>5 DEF Changed
  <2> QED
    BY <1>1, <1>4, <2>1, <2>6
<1>5. 0..n \subseteq T
  <2> HIDE DEF T
  <2> QED
    BY <1>1, <1>3, <1>4, UpTo
<1>6. f[n] \in Type
  BY <1>1, <1>5
<1> QED
  BY <1>2, <1>6

\* If no two results find the same old condition, each finds it as it was before
\* the loop.
EachFindsItsOwn(new, old) ==
    \A i, j \in 1..Len(new) :
        /\ Find(new[i].identifier, old) = Find(new[j].identifier, old)
        /\ Find(new[i].identifier, old) # 0
        => i = j

LEMMA LoopValue ==
    ASSUME NEW new \in Seq(ApplyResult), NEW old \in Seq(ManifestCondition),
           EachFindsItsOwn(new, old)
    PROVE  \A i \in 1..Len(new), k \in 1..Len(old) :
               Find(new[i].identifier, old) = k
                   => OldConditionsAfter(new, old)[k]
                        = SetStatusCondition(old[k].condition,
                                             BuildManifestAppliedCondition(new[i]))
<1> DEFINE n == Len(new)
           Finds(i) == Find(new[i].identifier, old)
           Value(i, k) == SetStatusCondition(old[k].condition,
                                             BuildManifestAppliedCondition(new[i]))
<1>1. n \in Nat /\ DOMAIN old = 1..Len(old)
  OBVIOUS
<1>2. PICK f : IsLoop(f, new, old, n) /\ OldConditionsAfter(new, old) = f[n]
  BY <1>1, LoopIs
<1>3. \A i, j \in 1..n : Finds(i) = Finds(j) /\ Finds(i) # 0 => i = j
  BY DEF EachFindsItsOwn
<1> DEFINE Reached(m) ==
               /\ DOMAIN f[m] = 1..Len(old)
               /\ \A k \in 1..Len(old) :
                      /\ \A i \in 1..m : Finds(i) = k => f[m][k] = Value(i, k)
                      /\ (\A i \in 1..m : Finds(i) # k) => f[m][k] = old[k].condition
           T == {m \in 0..n : Reached(m)}
<1>4. 0 \in T
  BY <1>1, <1>2 DEF IsLoop, First
<1>5. ASSUME NEW m \in 0..n, m \in T, m < n
      PROVE  m + 1 \in T
  <2>1. f[m + 1] = Changed(f[m], new[m + 1], old)
    BY <1>1, <1>2, <1>5 DEF IsLoop
  <2>2. Reached(m)
    BY <1>5
  <2>3. m + 1 \in 1..n /\ 1..(m + 1) = (1..m) \cup {m + 1}
    BY <1>1, <1>5
  <2>4. CASE Finds(m + 1) = 0
    <3>1. f[m + 1] = f[m]
      BY <2>1, <2>4 DEF Changed
    <3> HIDE DEF Value
    <3>2. Reached(m + 1)
      BY <2>2, <2>3, <2>4, <3>1
    <3> QED
      BY <2>3, <3>2
  <2>5. CASE Finds(m + 1) # 0
    <3>1. \A i \in 1..m : Finds(i) # Finds(m + 1)
      BY <1>1, <1>3, <2>3, <2>5
    <3>2. f[m + 1] = [f[m] EXCEPT ![Finds(m + 1)] =
                         SetStatusCondition(@, BuildManifestAppliedCondition(new[m + 1]))]
      BY <2>1, <2>5 DEF Changed
    <3>3. DOMAIN f[m + 1] = 1..Len(old)
      BY <2>2, <3>2
    <3>4. \A k \in 1..Len(old) :
             f[m + 1][k] = IF k = Finds(m + 1) THEN Value(m + 1, k) ELSE f[m][k]
      <4>1. \A k \in 1..Len(old) : k = Finds(m + 1) => f[m][k] = old[k].condition
        BY <2>2, <3>1
      <4> QED
        BY <2>2, <3>2, <4>1
    <3> HIDE DEF Value
    <3>5. Reached(m + 1)
      BY <2>2, <2>3, <3>1, <3>3, <3>4
    <3> QED
      BY <2>3, <3>5
  <2> QED
    BY <2>4, <2>5
<1>6. 0..n \subseteq T
  <2> HIDE DEF T
  <2> QED
    BY <1>1, <1>4, <1>5, UpTo
<1>7. Reached(n)
  BY <1>1, <1>6
<1> QED
  BY <1>1, <1>2, <1>7

\* However many find it, an old condition that is found ends up with the status of
\* one of these.
LEMMA LoopStatus ==
    ASSUME NEW new \in Seq(ApplyResult), NEW old \in Seq(ManifestCondition)
    PROVE  \A i \in 1..Len(new), k \in 1..Len(old) :
               Find(new[i].identifier, old) = k
                   => \E j \in 1..Len(new) :
                          /\ Find(new[j].identifier, old) = k
                          /\ OldConditionsAfter(new, old)[k].true = new[j].ok
<1> DEFINE n == Len(new)
           Finds(i) == Find(new[i].identifier, old)
<1>1. n \in Nat /\ DOMAIN old = 1..Len(old)
  OBVIOUS
<1>2. PICK f : IsLoop(f, new, old, n) /\ OldConditionsAfter(new, old) = f[n]
  BY <1>1, LoopIs
<1> DEFINE Reached(m) ==
               /\ DOMAIN f[m] = 1..Len(old)
               /\ \A k \in 1..Len(old), i \in 1..m :
                      Finds(i) = k => \E j \in 1..m : Finds(j) = k /\ f[m][k].true = new[j].ok
           T == {m \in 0..n : Reached(m)}
<1>3. 0 \in T
  BY <1>1, <1>2 DEF IsLoop, First
<1>4. ASSUME NEW m \in 0..n, m \in T, m < n
      PROVE  m + 1 \in T
  <2>1. f[m + 1] = Changed(f[m], new[m + 1], old)
    BY <1>1, <1>2, <1>4 DEF IsLoop
  <2>2. Reached(m)
    BY <1>4
  <2>3. m + 1 \in 1..n /\ 1..(m + 1) = (1..m) \cup {m + 1}
    BY <1>1, <1>4
  <2>4. CASE Finds(m + 1) = 0
    <3>1. f[m + 1] = f[m]
      BY <2>1, <2>4 DEF Changed
    <3>2. Reached(m + 1)
      BY <2>2, <2>3, <2>4, <3>1
    <3> QED
      BY <2>3, <3>2
  <2>5. CASE Finds(m + 1) # 0
    <3>1. f[m + 1] = [f[m] EXCEPT ![Finds(m + 1)] =
                         SetStatusCondition(@, BuildManifestAppliedCondition(new[m + 1]))]
      BY <2>1, <2>5 DEF Changed
    <3>2. DOMAIN f[m + 1] = 1..Len(old)
      BY <2>2, <3>1
    <3>3. \A k \in 1..Len(old) :
             IF k = Finds(m + 1) THEN f[m + 1][k].true = new[m + 1].ok
                                 ELSE f[m + 1][k] = f[m][k]
      <4>1. \A c : SetStatusCondition(c, BuildManifestAppliedCondition(new[m + 1])).true
                      = new[m + 1].ok
        BY DEF SetStatusCondition, BuildManifestAppliedCondition
      <4> QED
        BY <2>2, <3>1, <4>1
    <3>4. Reached(m + 1)
      BY <2>2, <2>3, <3>2, <3>3
    <3> QED
      BY <2>3, <3>4
  <2> QED
    BY <2>4, <2>5
<1>5. 0..n \subseteq T
  <2> HIDE DEF T
  <2> QED
    BY <1>1, <1>3, <1>4, UpTo
<1>6. Reached(n)
  BY <1>1, <1>5
<1> QED
  BY <1>1, <1>2, <1>6

-----------------------------------------------------------------------------
(* What a reconcile makes of its manifests.                                 *)

\* Results and conditions are at the places of their manifests. Told: they are
\* about the same manifests. DescribesOnce: none of these comes twice.
Placed(s) == \A i \in 1..Len(s) : s[i].identifier.ordinal = i
Told(conditions, new) ==
    /\ Len(conditions) = Len(new)
    /\ \A i \in 1..Len(new) : conditions[i].identifier = new[i].identifier
DescribesOnce(s) ==
    \A i, j \in 1..Len(s) :
        /\ s[i].identifier.manifest = s[j].identifier.manifest
        /\ s[i].identifier.manifest # Unparsed
        => i = j

LEMMA ResultsType ==
    ASSUME NEW manifests \in Workloads, NEW outcomes \in [DOMAIN manifests -> Outcome],
           NEW new, new = ApplyManifests(manifests, outcomes)
    PROVE  /\ new \in Seq(ApplyResult)
           /\ Len(new) = Len(manifests)
           /\ Placed(new)
           /\ \A i \in 1..Len(manifests) :
                  /\ new[i].identifier.manifest = manifests[i]
                  /\ new[i].ok => manifests[i] # Unparsed
<1>1. manifests \in Seq(Manifest \cup {Unparsed})
  OBVIOUS
<1>2. Len(manifests) \in Nat /\ DOMAIN manifests = 1..Len(manifests)
  BY <1>1
<1>3. \A i \in 1..Len(manifests) : manifests[i] \in Manifest \cup {Unparsed}
  BY <1>1, ElementOfSeq
<1>4. \A i \in 1..Len(manifests) : IdentifierOf(i, manifests[i], outcomes[i]) \in Identifier
  BY <1>2, <1>3 DEF IdentifierOf, Identifier
<1>5. new = [i \in 1..Len(manifests) |->
                [identifier |-> IdentifierOf(i, manifests[i], outcomes[i]),
                 ok |-> manifests[i] # Unparsed /\ outcomes[i] = "applied"]]
  BY <1>2 DEF ApplyManifests
<1>6. new \in [1..Len(manifests) -> ApplyResult]
  BY <1>4, <1>5 DEF ApplyResult
<1>7. new \in Seq(ApplyResult) /\ Len(new) = Len(manifests)
  BY <1>2, <1>6, SeqDef, LenProperties
<1>8. \A i \in 1..Len(manifests) : new[i].identifier.ordinal = i
  BY <1>5 DEF IdentifierOf
<1>9. \A i \in 1..Len(manifests) : new[i].identifier.manifest = manifests[i]
  BY <1>5 DEF IdentifierOf
<1>10. ASSUME NEW i \in 1..Len(manifests), new[i].ok
       PROVE  manifests[i] # Unparsed
  <2>1. new[i].ok = (manifests[i] # Unparsed /\ outcomes[i] = "applied")
    <3>1. new[i] = [identifier |-> IdentifierOf(i, manifests[i], outcomes[i]),
                    ok |-> manifests[i] # Unparsed /\ outcomes[i] = "applied"]
      BY <1>5, <1>10, Zenon
    <3> QED
      BY <3>1
  <2> QED
    BY <1>10, <2>1, Zenon
<1>11. Placed(new)
  <2>1. Len(new) = Len(manifests)
    BY <1>7
  <2> QED
    BY <1>8, <2>1 DEF Placed
<1>12. \A i \in 1..Len(manifests) :
           /\ new[i].identifier.manifest = manifests[i]
           /\ new[i].ok => manifests[i] # Unparsed
  BY <1>9, <1>10, Zenon
<1> QED
  BY <1>7, <1>11, <1>12

LEMMA ConditionsType ==
    ASSUME NEW new \in Seq(ApplyResult), NEW old \in Seq(ManifestCondition), now' \in Nat,
           \A k \in 1..Len(old) : old[k].condition \in Until(now')
    PROVE  /\ GenerateManifestConditions(new, old) \in Seq(ManifestCondition)
           /\ Told(GenerateManifestConditions(new, old), new)
           /\ \A i \in 1..Len(new) :
                  GenerateManifestConditions(new, old)[i].condition \in Until(now')
<1> DEFINE g == GenerateManifestConditions(new, old)
           n == Len(new)
           value(i) == LET k == Find(new[i].identifier, old)
                       IN IF k = 0 THEN BuildManifestAppliedCondition(new[i])
                                   ELSE OldConditionsAfter(new, old)[k]
<1>1. n \in Nat /\ DOMAIN new = 1..n
  OBVIOUS
<1>2. \A i \in 1..n : new[i] \in ApplyResult
  BY ElementOfSeq
<1>3. \A i \in 1..n : value(i) \in Until(now')
  <2> SUFFICES ASSUME NEW i \in 1..n PROVE value(i) \in Until(now')
    OBVIOUS
  <2>1. new[i].identifier \in Identifier /\ new[i].ok \in BOOLEAN
    BY <1>2 DEF ApplyResult
  <2>2. CASE Find(new[i].identifier, old) = 0
    BY <2>1, <2>2 DEF BuildManifestAppliedCondition, Until
  <2>3. CASE Find(new[i].identifier, old) # 0
    <3>1. Find(new[i].identifier, old) \in 1..Len(old)
      BY <2>1, <2>3, Found
    <3> QED
      BY <2>3, <3>1, LoopType
  <2> QED
    BY <2>2, <2>3
<1>4. g = [i \in 1..n |-> [identifier |-> new[i].identifier, condition |-> value(i)]]
  BY <1>1 DEF GenerateManifestConditions
<1> HIDE DEF g, value
<1>5. \A i \in 1..n : value(i) \in Condition
  BY <1>3 DEF Until, Condition
<1>6. g \in [1..n -> ManifestCondition]
  BY <1>2, <1>4, <1>5 DEF ManifestCondition, ApplyResult
<1>7. g \in Seq(ManifestCondition) /\ Len(g) = n
  BY <1>1, <1>6, SeqDef, LenProperties
<1>8. \A i \in 1..n : g[i].identifier = new[i].identifier /\ g[i].condition = value(i)
  BY <1>4
<1> QED
  BY <1>3, <1>7, <1>8 DEF g, Told

LEMMA FindsOwn ==
    ASSUME NEW new \in Seq(ApplyResult), NEW old \in Seq(ManifestCondition),
           Placed(new), DescribesOnce(new)
    PROVE  EachFindsItsOwn(new, old)
<1> SUFFICES ASSUME NEW i \in 1..Len(new), NEW j \in 1..Len(new),
                    Find(new[i].identifier, old) = Find(new[j].identifier, old),
                    Find(new[i].identifier, old) # 0
             PROVE  i = j
  BY DEF EachFindsItsOwn
<1>1. new[i].identifier \in Identifier /\ new[j].identifier \in Identifier
  <2>1. new[i] \in ApplyResult /\ new[j] \in ApplyResult
    BY ElementOfSeq
  <2> QED
    BY <2>1 DEF ApplyResult
<1>2. new[i].identifier.manifest = new[j].identifier.manifest
  BY <1>1, Found DEF Same
<1>3. new[i].identifier.manifest = Unparsed => new[i].identifier = new[j].identifier
  BY <1>1, <1>2, Found
<1> QED
  BY <1>2, <1>3 DEF Placed, DescribesOnce

\* The condition of a manifest has the status of its result.
LEMMA ConditionsTell ==
    ASSUME NEW new \in Seq(ApplyResult), NEW old \in Seq(ManifestCondition),
           EachFindsItsOwn(new, old)
    PROVE  \A i \in 1..Len(new) :
               GenerateManifestConditions(new, old)[i].condition.true = new[i].ok
<1> SUFFICES ASSUME NEW i \in 1..Len(new)
             PROVE  GenerateManifestConditions(new, old)[i].condition.true = new[i].ok
  OBVIOUS
<1> DEFINE k == Find(new[i].identifier, old)
           build == BuildManifestAppliedCondition(new[i])
<1>1. new[i].identifier \in Identifier
  <2>1. new[i] \in ApplyResult
    BY ElementOfSeq
  <2> QED
    BY <2>1 DEF ApplyResult
<1>2. build.true = new[i].ok
  BY DEF BuildManifestAppliedCondition
<1>3. GenerateManifestConditions(new, old)[i].condition
         = IF k = 0 THEN build ELSE OldConditionsAfter(new, old)[k]
  BY DEF GenerateManifestConditions
<1>4. CASE k = 0
  BY <1>2, <1>3, <1>4
<1>5. CASE k # 0
  <2>1. k \in 1..Len(old)
    BY <1>1, <1>5, Found
  <2>2. OldConditionsAfter(new, old)[k] = SetStatusCondition(old[k].condition, build)
    BY <2>1, LoopValue
  <2> QED
    BY <1>2, <1>3, <1>5, <2>2 DEF SetStatusCondition
<1> QED
  BY <1>4, <1>5

\* A condition that is True is that of a manifest that was applied, if not at this
\* place of the list then at another.
LEMMA ConditionsMean ==
    ASSUME NEW new \in Seq(ApplyResult), NEW old \in Seq(ManifestCondition),
           NEW i \in 1..Len(new),
           GenerateManifestConditions(new, old)[i].condition.true
    PROVE  \E j \in 1..Len(new) :
               new[j].ok /\ new[j].identifier.manifest = new[i].identifier.manifest
<1> DEFINE k == Find(new[i].identifier, old)
           build == BuildManifestAppliedCondition(new[i])
<1>1. \A j \in 1..Len(new) : new[j].identifier \in Identifier
  <2>1. \A j \in 1..Len(new) : new[j] \in ApplyResult
    BY ElementOfSeq
  <2> QED
    BY <2>1 DEF ApplyResult
<1>2. GenerateManifestConditions(new, old)[i].condition
         = IF k = 0 THEN build ELSE OldConditionsAfter(new, old)[k]
  BY DEF GenerateManifestConditions
<1>3. CASE k = 0
  <2>1. new[i].ok
    BY <1>2, <1>3 DEF BuildManifestAppliedCondition
  <2> QED
    BY <2>1
<1>4. CASE k # 0
  <2>1. k \in 1..Len(old)
    BY <1>1, <1>4, Found
  <2>2. PICK j \in 1..Len(new) :
           /\ Find(new[j].identifier, old) = k
           /\ OldConditionsAfter(new, old)[k].true = new[j].ok
    BY <2>1, LoopStatus
  <2>3. new[j].ok
    BY <1>2, <1>4, <2>2, Zenon
  <2>4. new[j].identifier.manifest = new[i].identifier.manifest
    BY <1>1, <1>4, <2>2, Found DEF Same
  <2> QED
    BY <2>3, <2>4, Zenon
<1> QED
  BY <1>3, <1>4

-----------------------------------------------------------------------------
(* Types.                                                                   *)

\* The conditions of the state a reconcile starts from.
LEMMA OldConditions ==
    ASSUME TypeOK
    PROVE  /\ manifestConditions \in Seq(ManifestCondition)
           /\ \A k \in 1..Len(manifestConditions) :
                  /\ manifestConditions[k] \in ManifestCondition
                  /\ manifestConditions[k].condition \in Until(now)
<1>1. \A k \in 1..Len(manifestConditions) : manifestConditions[k] \in ManifestCondition
  BY ElementOfSeq DEF TypeOK
<1>2. DOMAIN manifestConditions = 1..Len(manifestConditions)
  BY DEF TypeOK
<1> QED
  BY <1>1, <1>2 DEF TypeOK, ManifestCondition, Condition, Until

\* What a reconcile makes of its manifests, in the words of the lemmas above.
LEMMA StepFacts ==
    ASSUME TypeOK, NEW manifests \in Workloads,
           NEW outcomes \in [DOMAIN manifests -> Outcome],
           Reconcile(manifests, outcomes)
    PROVE  /\ results' \in Seq(ApplyResult)
           /\ Len(results') = Len(manifests)
           /\ Placed(results')
           /\ \A i \in 1..Len(manifests) :
                  /\ results'[i].identifier.manifest = manifests[i]
                  /\ results'[i].ok => manifests[i] # Unparsed
           /\ manifestConditions' \in Seq(ManifestCondition)
           /\ Told(manifestConditions', results')
           /\ \A i \in 1..Len(results') : manifestConditions'[i].condition \in Until(now')
<1>1. results' = ApplyManifests(manifests, outcomes)
  BY DEF Reconcile
<1>2. manifestConditions' = GenerateManifestConditions(results', manifestConditions)
  BY DEF Reconcile
<1>3. now' \in Nat /\ now \in Nat /\ now <= now'
  BY DEF Reconcile, TypeOK
<1>4. \A k \in 1..Len(manifestConditions) : manifestConditions[k].condition \in Until(now')
  BY <1>3, OldConditions DEF Until
<1>5. /\ results' \in Seq(ApplyResult)
      /\ Len(results') = Len(manifests)
      /\ Placed(results')
      /\ \A i \in 1..Len(manifests) :
             /\ results'[i].identifier.manifest = manifests[i]
             /\ results'[i].ok => manifests[i] # Unparsed
  BY <1>1, ResultsType
<1>6. manifestConditions \in Seq(ManifestCondition)
  BY OldConditions
<1>7. /\ manifestConditions' \in Seq(ManifestCondition)
      /\ Told(manifestConditions', results')
      /\ \A i \in 1..Len(results') : manifestConditions'[i].condition \in Until(now')
  BY <1>2, <1>3, <1>4, <1>5, <1>6, ConditionsType
<1> QED
  BY <1>5, <1>7

LEMMA StepTypes ==
    ASSUME TypeOK, NEW manifests \in Workloads,
           NEW outcomes \in [DOMAIN manifests -> Outcome],
           Reconcile(manifests, outcomes)
    PROVE  TypeOK'
<1> DEFINE present == spoke \cup AppliedObjects(results')
           stale == StaleResources(appliedResources, manifestConditions')
           n == Len(manifests)
<1>1. n \in Nat /\ \A i \in 1..n : manifests[i] \in Manifest \cup {Unparsed}
  <2>1. manifests \in Seq(Manifest \cup {Unparsed})
    OBVIOUS
  <2> QED
    BY <2>1, ElementOfSeq
<1>2. DOMAIN results' = 1..n /\ DOMAIN manifestConditions' = 1..n
  BY StepFacts DEF Told
<1>3. \A i \in 1..n : /\ manifestConditions'[i] \in ManifestCondition
                      /\ manifestConditions'[i].identifier.ordinal = i
                      /\ manifestConditions'[i].condition \in Until(now')
  BY <1>2, StepFacts, ElementOfSeq DEF Told, Placed
<1>4. AppliedObjects(results') \subseteq Object
  <2>1. \A i \in 1..n : results'[i].ok => results'[i].identifier.manifest.object \in Object
    BY <1>1, StepFacts DEF Manifest
  <2> QED
    BY <1>2, <2>1 DEF AppliedObjects
<1>5. spoke' \subseteq Object
  BY <1>4 DEF Reconcile, TypeOK
<1>6. appliedResources' \subseteq Identifier
  <2>1. appliedResources' = NewResources(appliedResources, manifestConditions', present)
    BY DEF Reconcile
  <2> QED
    BY <1>2, <1>3, <2>1 DEF NewResources, ManifestCondition
<1>7. now' \in 0..MaxTime
  BY DEF Reconcile, TypeOK
<1>8. workCondition' \in BOOLEAN
  BY DEF Reconcile, GenerateWorkAppliedCondition
<1>9. \A i \in DOMAIN manifestConditions' :
         /\ manifestConditions'[i].identifier.ordinal = i
         /\ manifestConditions'[i].condition.since <= now'
  BY <1>2, <1>3, <1>7 DEF Until
<1> QED
  BY <1>5, <1>6, <1>7, <1>8, <1>9, StepFacts DEF TypeOK

LEMMA InitTypes == Init => TypeOK
<1> SUFFICES ASSUME Init PROVE TypeOK
  OBVIOUS
<1>1. DOMAIN manifestConditions = {} /\ manifestConditions \in Seq(ManifestCondition)
  BY DEF Init
<1>2. results \in Seq(ApplyResult)
  BY DEF Init
<1> QED
  <2>1. now \in 0..MaxTime
    BY DEF Init
  <2>2. workCondition \in BOOLEAN
    BY DEF Init
  <2>3. appliedResources \subseteq Identifier /\ spoke \subseteq Object
    BY DEF Init
  <2> QED
    BY <1>1, <1>2, <2>1, <2>2, <2>3, Zenon DEF TypeOK

LEMMA NextTypes == TypeOK /\ [Next]_vars => TypeOK'
<1> SUFFICES ASSUME TypeOK, [Next]_vars PROVE TypeOK'
  OBVIOUS
<1>1. CASE Next
  BY <1>1, StepTypes DEF Next
<1>2. CASE UNCHANGED vars
  BY <1>2 DEF vars, TypeOK
<1> QED
  BY <1>1, <1>2

\* The status always has a condition for each place, no condition claims to have
\* changed in the future, and what is recorded can be identified
\* (generateWorkCondition, apply_controller.go:402-427; generateDiff,
\* applied_work_syncer.go:37-102), whatever the lists of manifests are.
THEOREM StatusTypes == Spec => []TypeOK
BY InitTypes, NextTypes, PTL DEF Spec

-----------------------------------------------------------------------------
(* The record.                                                              *)

\* What is applied is recorded, and what is recorded was listed by a Work.
Listed(manifest) ==
    /\ manifest # Unparsed
    /\ \E manifests \in Workloads : \E i \in DOMAIN manifests : manifests[i] = manifest
AppliedIsRecorded ==
    \A i \in DOMAIN manifestConditions :
        manifestConditions[i].condition.true
            => \E resource \in appliedResources :
                   resource.manifest = manifestConditions[i].identifier.manifest
RecordIsListed == \A resource \in appliedResources : Listed(resource.manifest)
RecordInv == TypeOK /\ AppliedIsRecorded /\ RecordIsListed

\* What the status says is applied is on the spoke before anything is deleted, so
\* it is recorded.
LEMMA StepPresent ==
    ASSUME TypeOK, NEW manifests \in Workloads,
           NEW outcomes \in [DOMAIN manifests -> Outcome],
           Reconcile(manifests, outcomes),
           NEW i \in DOMAIN manifestConditions', manifestConditions'[i].condition.true
    PROVE  LET id == manifestConditions'[i].identifier
           IN /\ id.manifest.object \in spoke \cup AppliedObjects(results')
              /\ id \in appliedResources'
              /\ Listed(id.manifest)
<1> DEFINE present == spoke \cup AppliedObjects(results')
           id == manifestConditions'[i].identifier
<1>1. /\ DOMAIN manifestConditions' = 1..Len(results')
      /\ DOMAIN results' = 1..Len(results')
      /\ Len(results') = Len(manifests)
      /\ id = results'[i].identifier
  BY StepFacts DEF Told
<1>2. PICK j \in 1..Len(results') :
         results'[j].ok /\ results'[j].identifier.manifest = id.manifest
  <2>1. results' \in Seq(ApplyResult)
    BY StepFacts
  <2>2. manifestConditions \in Seq(ManifestCondition)
    BY OldConditions
  <2>3. GenerateManifestConditions(results', manifestConditions)[i].condition.true
    BY Zenon DEF Reconcile
  <2> QED
    BY <1>1, <2>1, <2>2, <2>3, ConditionsMean
<1>3. id.manifest.object \in present
  BY <1>1, <1>2, Zenon DEF AppliedObjects
<1>4. id \in NewResources(appliedResources, manifestConditions', present)
  BY <1>3, Zenon DEF NewResources
<1>5. id \in appliedResources'
  BY <1>4, Zenon DEF Reconcile
<1>6. Listed(id.manifest)
  <2>1. results'[j].identifier.manifest = manifests[j] /\ manifests[j] # Unparsed
    BY <1>1, <1>2, StepFacts
  <2>2. j \in DOMAIN manifests
    <3>1. manifests \in Seq(Manifest \cup {Unparsed})
      OBVIOUS
    <3> QED
      BY <1>1, <3>1
  <2> QED
    BY <1>2, <2>1, <2>2 DEF Listed
<1> QED
  BY <1>3, <1>5, <1>6

LEMMA StepRecord ==
    ASSUME TypeOK, NEW manifests \in Workloads,
           NEW outcomes \in [DOMAIN manifests -> Outcome],
           Reconcile(manifests, outcomes)
    PROVE  AppliedIsRecorded' /\ RecordIsListed'
<1>1. AppliedIsRecorded'
  BY StepPresent, Zenon DEF AppliedIsRecorded
<1>2. RecordIsListed'
  <2> SUFFICES ASSUME NEW resource \in appliedResources'
               PROVE  Listed(resource.manifest)
    BY DEF RecordIsListed, Listed
  <2>1. resource \in NewResources(appliedResources, manifestConditions',
                                  spoke \cup AppliedObjects(results'))
    BY Zenon DEF Reconcile
  <2>2. PICK i \in DOMAIN manifestConditions' :
           /\ manifestConditions'[i].condition.true
           /\ resource = manifestConditions'[i].identifier
    BY <2>1, Zenon DEF NewResources
  <2> QED
    BY <2>2, StepPresent
<1> QED
  BY <1>1, <1>2

LEMMA InitRecord == Init => RecordInv
<1>1. Init => AppliedIsRecorded /\ RecordIsListed
  BY DEF Init, AppliedIsRecorded, RecordIsListed
<1> QED
  BY <1>1, InitTypes DEF RecordInv

LEMMA NextRecord == RecordInv /\ [Next]_vars => RecordInv'
<1> SUFFICES ASSUME RecordInv, [Next]_vars PROVE RecordInv'
  OBVIOUS
<1>1. TypeOK'
  BY NextTypes DEF RecordInv
<1>2. CASE Next
  BY <1>1, <1>2, StepRecord DEF Next, RecordInv
<1>3. CASE UNCHANGED vars
  BY <1>1, <1>3 DEF vars, RecordInv, AppliedIsRecorded, RecordIsListed, Listed
<1> QED
  BY <1>2, <1>3

LEMMA NextDrops ==
    ASSUME RecordInv, NEW manifests \in Workloads,
           NEW outcomes \in [DOMAIN manifests -> Outcome],
           Reconcile(manifests, outcomes),
           NEW o \in Object, NEW i \in Describes(manifestConditions, o),
           manifestConditions[i].condition.true,
           Describes(manifestConditions', o) = {}
    PROVE  o \notin spoke'
<1> DEFINE stale == StaleResources(appliedResources, manifestConditions')
<1>1. PICK resource \in appliedResources :
         resource.manifest = manifestConditions[i].identifier.manifest
  BY DEF RecordInv, AppliedIsRecorded, Describes
<1>2. resource.manifest # Unparsed /\ resource.manifest.object = o
  BY <1>1 DEF Describes
<1>3. resource \in stale
  BY <1>2 DEF StaleResources, SameResourceIdentifier, Describes
<1>4. o \in DeletedObjects(stale)
  BY <1>2, <1>3 DEF DeletedObjects
<1> QED
  BY <1>4 DEF Reconcile

\* An object whose manifest was applied and that the Work then describes no more is
\* gone after the next reconcile, whatever the lists were and wherever in them its
\* manifest was when it was recorded: what was applied always is in the record
\* (generateDiff, applied_work_syncer.go:37-102).
THEOREM DroppedIsGone == Spec => DroppedIsDeleted
<1> DEFINE Gone ==
      \A o \in Object :
          /\ \E i \in Describes(manifestConditions, o) : manifestConditions[i].condition.true
          /\ Describes(manifestConditions', o) = {}
          => o \notin spoke'
<1>1. RecordInv /\ Next => Gone
  BY NextDrops DEF Next
<1>2. RecordInv /\ [Next]_vars => [Gone]_vars
  BY <1>1
<1>3. Spec => []RecordInv
  BY InitRecord, NextRecord, PTL DEF Spec
<1> QED
  BY <1>2, <1>3, PTL DEF Spec, DroppedIsDeleted

-----------------------------------------------------------------------------
(* Works that do not change the version of a manifest.                      *)

Stable ==
    \A one, other \in Workloads : \A i \in DOMAIN one, j \in DOMAIN other :
        /\ one[i] # Unparsed /\ other[j] # Unparsed
        /\ one[i].object = other[j].object
        => one[i] = other[j]

LEMMA StepKept ==
    ASSUME Stable, RecordInv, NEW manifests \in Workloads,
           NEW outcomes \in [DOMAIN manifests -> Outcome],
           Reconcile(manifests, outcomes)
    PROVE  AppliedIsKept'
<1> SUFFICES ASSUME NEW i \in DOMAIN manifestConditions',
                    manifestConditions'[i].condition.true
             PROVE  manifestConditions'[i].identifier.manifest.object \in spoke'
  BY DEF AppliedIsKept
<1> DEFINE id == manifestConditions'[i].identifier
           stale == StaleResources(appliedResources, manifestConditions')
<1>1. id.manifest.object \in spoke \cup AppliedObjects(results') /\ Listed(id.manifest)
  BY StepPresent DEF RecordInv
<1>2. ASSUME NEW resource \in stale, resource.manifest.object = id.manifest.object
      PROVE  FALSE
  <2>1. resource \in appliedResources /\ ~SameResourceIdentifier(resource, id)
    BY Zenon DEF StaleResources
  <2>2. Listed(resource.manifest)
    BY <2>1 DEF RecordInv, RecordIsListed
  <2>3. resource.manifest = id.manifest
    BY <1>1, <1>2, <2>2 DEF Listed, Stable
  <2> QED
    BY <2>1, <2>3 DEF SameResourceIdentifier
<1>3. id.manifest.object \notin DeletedObjects(stale)
  BY <1>2 DEF DeletedObjects
<1> QED
  BY <1>1, <1>3 DEF Reconcile

LEMMA NextKept ==
    ASSUME Stable
    PROVE  RecordInv /\ AppliedIsKept /\ [Next]_vars => AppliedIsKept'
<1> SUFFICES ASSUME RecordInv, AppliedIsKept, [Next]_vars PROVE AppliedIsKept'
  OBVIOUS
<1>1. CASE Next
  BY <1>1, StepKept DEF Next
<1>2. CASE UNCHANGED vars
  BY <1>2 DEF vars, AppliedIsKept
<1> QED
  BY <1>1, <1>2

\* If the Work never changes the version of a manifest, what the status says is
\* applied is on the spoke: what is deleted as stale is never the object of a
\* manifest (isSameResourceIdentifier and deleteStaleManifest,
\* applied_work_syncer.go:105-165). The hypothesis is needed: after a change of
\* version the object is found, and deleted, under the old one.
THEOREM WhatIsAppliedStays ==
    ASSUME Stable
    PROVE  Spec => []AppliedIsKept
<1>1. Init => AppliedIsKept
  BY DEF Init, AppliedIsKept
<1>2. Spec => []RecordInv
  BY InitRecord, NextRecord, PTL DEF Spec
<1> QED
  BY <1>1, <1>2, NextKept, PTL DEF Spec

-----------------------------------------------------------------------------
(* Works that list a manifest once.                                         *)

\* A Work that lists one manifest twice has two results for one old condition.
EachOnce ==
    \A manifests \in Workloads : \A i, j \in DOMAIN manifests :
        manifests[i] # Unparsed /\ manifests[i] = manifests[j] => i = j

\* The status says of the results what is the case.
ResultsAreTold ==
    /\ results \in Seq(ApplyResult)
    /\ Told(manifestConditions, results)
    /\ \A i \in 1..Len(results) : manifestConditions[i].condition.true = results[i].ok
    /\ now > 0 => (workCondition <=> \A i \in 1..Len(results) : results[i].ok)
StatusInv ==
    /\ TypeOK
    /\ ResultsAreTold
    /\ DescribesOnce(manifestConditions)

\* The results of a reconcile, and that each finds a condition of its own.
LEMMA StepTells ==
    ASSUME EachOnce, TypeOK, NEW manifests \in Workloads,
           NEW outcomes \in [DOMAIN manifests -> Outcome],
           Reconcile(manifests, outcomes)
    PROVE  /\ EachFindsItsOwn(results', manifestConditions)
           /\ DescribesOnce(manifestConditions)'
           /\ ResultsAreTold'
<1> DEFINE n == Len(manifests)
<1>1. n \in Nat /\ DOMAIN manifests = 1..n
  <2>1. manifests \in Seq(Manifest \cup {Unparsed})
    OBVIOUS
  <2> QED
    BY <2>1
<1>2. \A i \in 1..n : results'[i].identifier.manifest = manifests[i]
  BY StepFacts
<1>3. \A i, j \in 1..n : manifests[i] # Unparsed /\ manifests[i] = manifests[j] => i = j
  BY <1>1 DEF EachOnce
<1>4. DescribesOnce(results')
  <2>1. Len(results') = n
    BY StepFacts
  <2> QED
    BY <1>2, <1>3, <2>1 DEF DescribesOnce
<1>5. EachFindsItsOwn(results', manifestConditions)
  <2>1. results' \in Seq(ApplyResult) /\ Placed(results')
    BY StepFacts
  <2>2. manifestConditions \in Seq(ManifestCondition)
    BY OldConditions
  <2> QED
    BY <1>4, <2>1, <2>2, FindsOwn
<1>6. DescribesOnce(manifestConditions)'
  <2>1. Told(manifestConditions', results')
    BY StepFacts
  <2> QED
    BY <1>4, <2>1 DEF Told, DescribesOnce
<1>7. \A i \in 1..Len(results') : manifestConditions'[i].condition.true = results'[i].ok
  <2>1. results' \in Seq(ApplyResult)
    BY StepFacts
  <2>2. manifestConditions \in Seq(ManifestCondition)
    BY OldConditions
  <2>3. manifestConditions' = GenerateManifestConditions(results', manifestConditions)
    BY DEF Reconcile
  <2> QED
    BY <1>5, <2>1, <2>2, <2>3, ConditionsTell
<1>8. workCondition' <=> \A i \in 1..Len(results') : results'[i].ok
  <2>1. workCondition' = \A i \in DOMAIN manifestConditions' :
                             manifestConditions'[i].condition.true
    BY DEF Reconcile, GenerateWorkAppliedCondition
  <2>2. DOMAIN manifestConditions' = 1..Len(results')
    BY StepFacts DEF Told
  <2> QED
    BY <1>7, <2>1, <2>2, Zenon
<1>9. results' \in Seq(ApplyResult) /\ Told(manifestConditions', results')
  BY StepFacts
<1>10. ResultsAreTold'
  BY <1>7, <1>8, <1>9, Zenon DEF ResultsAreTold, Told
<1> QED
  BY <1>5, <1>6, <1>10

LEMMA InitStatus == Init => StatusInv
<1> SUFFICES ASSUME Init PROVE StatusInv
  OBVIOUS
<1>1. Len(results) = 0 /\ Len(manifestConditions) = 0 /\ results \in Seq(ApplyResult)
  BY DEF Init
<1>2. ResultsAreTold
  BY <1>1 DEF Init, ResultsAreTold, Told
<1>3. DescribesOnce(manifestConditions)
  BY <1>1 DEF DescribesOnce
<1> QED
  BY <1>2, <1>3, InitTypes DEF StatusInv

LEMMA NextStatus ==
    ASSUME EachOnce
    PROVE  StatusInv /\ [Next]_vars => StatusInv'
<1> SUFFICES ASSUME StatusInv, [Next]_vars PROVE StatusInv'
  OBVIOUS
<1>1. CASE Next
  <2>1. PICK manifests \in Workloads :
           \E outcomes \in [DOMAIN manifests -> Outcome] : Reconcile(manifests, outcomes)
    BY <1>1 DEF Next
  <2>2. PICK outcomes \in [DOMAIN manifests -> Outcome] : Reconcile(manifests, outcomes)
    BY <2>1
  <2>3. ResultsAreTold' /\ DescribesOnce(manifestConditions)'
    BY <2>2, StepTells DEF StatusInv
  <2> QED
    BY <1>1, <2>3, NextTypes DEF StatusInv
<1>2. CASE UNCHANGED vars
  BY <1>2 DEF vars, StatusInv, TypeOK, ResultsAreTold, Told, DescribesOnce
<1> QED
  BY <1>1, <1>2

LEMMA StatusTells == StatusInv => StatusTellsOutcome
<1> SUFFICES ASSUME StatusInv PROVE StatusTellsOutcome
  OBVIOUS
<1>1. DOMAIN results = 1..Len(results)
  BY DEF StatusInv, ResultsAreTold
<1> QED
  BY <1>1, Zenon DEF StatusInv, ResultsAreTold, Told, StatusTellsOutcome

\* If no Work lists a manifest twice, its status has one condition for each of its
\* manifests, in their order, that tells what came of it in the last reconcile,
\* and the Work is Applied exactly if they all are: no condition is taken for that
\* of another manifest, and no change of one is lost because another one shares
\* its array (generateWorkCondition, findManifestConditionByIdentifier,
\* apply_controller.go:402-427, 527-547).
THEOREM TheStatusIsTrue ==
    ASSUME EachOnce
    PROVE  Spec => []StatusTellsOutcome
<1>1. Spec => []StatusInv
  BY InitStatus, NextStatus, PTL DEF Spec
<1> QED
  BY <1>1, StatusTells, PTL

-----------------------------------------------------------------------------
(* Times.                                                                   *)

LEMMA NextKeepsTime ==
    ASSUME EachOnce, StatusInv, NEW manifests \in Workloads,
           NEW outcomes \in [DOMAIN manifests -> Outcome],
           Reconcile(manifests, outcomes),
           NEW i \in DOMAIN manifestConditions, NEW j \in DOMAIN manifestConditions',
           manifestConditions[i].identifier.manifest # Unparsed,
           manifestConditions'[j].identifier
               = [manifestConditions[i].identifier EXCEPT !.ordinal = j]
    PROVE  manifestConditions'[j].condition.since =
               IF manifestConditions'[j].condition.true = manifestConditions[i].condition.true
               THEN manifestConditions[i].condition.since ELSE now'
<1> DEFINE old == manifestConditions[i]
           new == manifestConditions'[j]
           k == Find(results'[j].identifier, manifestConditions)
           build == BuildManifestAppliedCondition(results'[j])
<1>1. /\ DOMAIN manifestConditions' = 1..Len(results')
      /\ DOMAIN manifestConditions = 1..Len(manifestConditions)
      /\ DOMAIN results' = 1..Len(results')
  BY StepFacts, OldConditions DEF StatusInv, Told
<1>2. results'[j].identifier = new.identifier
  BY <1>1, StepFacts DEF StatusInv, Told
<1>3. old.identifier \in Identifier /\ results'[j].identifier \in Identifier
  <2>1. manifestConditions[i] \in ManifestCondition
    BY <1>1, OldConditions DEF StatusInv
  <2>2. results'[j] \in ApplyResult
    BY <1>1, StepFacts, ElementOfSeq DEF StatusInv
  <2> QED
    BY <2>1, <2>2 DEF ManifestCondition, ApplyResult
<1>4. Same(old.identifier, results'[j].identifier)
  BY <1>2, <1>3 DEF Same, Identifier
<1>5. k # 0
  <2>1. i \in Moved(results'[j].identifier, manifestConditions)
    BY <1>1, <1>4 DEF Moved
  <2>2. results'[j].identifier.manifest # Unparsed
    BY <1>4 DEF Same
  <2>3. manifestConditions \in Seq(ManifestCondition)
    BY OldConditions DEF StatusInv
  <2> QED
    BY <1>3, <2>1, <2>2, <2>3, Found
<1>6. k = i
  <2>1. k \in 1..Len(manifestConditions)
        /\ Same(manifestConditions[k].identifier, results'[j].identifier)
    BY <1>3, <1>5, Found, OldConditions DEF StatusInv
  <2>2. manifestConditions[k].identifier.manifest = old.identifier.manifest
    BY <1>4, <2>1 DEF Same
  <2> QED
    BY <1>1, <2>1, <2>2 DEF StatusInv, DescribesOnce
<1>7. new.condition = SetStatusCondition(old.condition, build)
  <2>1. EachFindsItsOwn(results', manifestConditions)
    BY StepTells DEF StatusInv
  <2>2. OldConditionsAfter(results', manifestConditions)[k]
           = SetStatusCondition(manifestConditions[k].condition, build)
    <3>1. results' \in Seq(ApplyResult) /\ manifestConditions \in Seq(ManifestCondition)
      BY StepFacts, OldConditions DEF StatusInv
    <3>2. j \in 1..Len(results') /\ k \in 1..Len(manifestConditions)
      BY <1>1, <1>6
    <3>3. \A a \in 1..Len(results'), b \in 1..Len(manifestConditions) :
             Find(results'[a].identifier, manifestConditions) = b
                 => OldConditionsAfter(results', manifestConditions)[b]
                      = SetStatusCondition(manifestConditions[b].condition,
                                           BuildManifestAppliedCondition(results'[a]))
      BY <2>1, <3>1, LoopValue
    <3> QED
      BY <3>2, <3>3
  <2>3. new.condition = OldConditionsAfter(results', manifestConditions)[k]
    BY <1>1, <1>5 DEF Reconcile, GenerateManifestConditions
  <2> QED
    BY <1>6, <2>2, <2>3
<1> QED
  BY <1>7 DEF SetStatusCondition, BuildManifestAppliedCondition

\* If no Work lists a manifest twice, one that moves in the list keeps the time of
\* its last change, and the time of a manifest changes exactly when its status
\* does (findManifestConditionByIdentifier, apply_controller.go:527-547, and
\* meta.SetStatusCondition on what it finds).
THEOREM TimesAreKept ==
    ASSUME EachOnce
    PROVE  Spec => TransitionTimeKept
<1> DEFINE Kept ==
      \A i \in DOMAIN manifestConditions, j \in DOMAIN manifestConditions' :
          LET old == manifestConditions[i]
              new == manifestConditions'[j]
          IN /\ old.identifier.manifest # Unparsed
             /\ new.identifier = [old.identifier EXCEPT !.ordinal = j]
             => new.condition.since =
                    IF new.condition.true = old.condition.true
                    THEN old.condition.since ELSE now'
<1>1. StatusInv /\ Next => Kept
  BY NextKeepsTime DEF Next
<1>2. StatusInv /\ [Next]_vars => [Kept]_vars
  BY <1>1
<1>3. Spec => []StatusInv
  BY InitStatus, NextStatus, PTL DEF Spec
<1> QED
  BY <1>2, <1>3, PTL DEF Spec, TransitionTimeKept
=============================================================================
