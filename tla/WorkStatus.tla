----------------------------- MODULE WorkStatus -----------------------------
(***************************************************************************)
(* What a reconcile makes of the results of applying the manifests of a    *)
(* Work: the status of the Work (generateWorkCondition), and from that the *)
(* record in the AppliedWork and what is deleted from the spoke            *)
(* (generateDiff, deleteStaleManifest).                                    *)
(*                                                                         *)
(* ApplyWork has manifests that are told apart by their resource. Here     *)
(* they have the identifiers of the code, which change when a manifest     *)
(* moves in the list, cannot be mapped any more, or is written in another  *)
(* version. A Work is reconciled over and over, with any manifests in any  *)
(* order and any results. A reconcile is one step here: calls that fail    *)
(* half way, other Works and third parties are the business of ApplyWork.  *)
(*                                                                         *)
(* Left out: reasons, messages and generations of conditions, and the UIDs *)
(* in the record, which nothing reads.                                     *)
(***************************************************************************)
EXTENDS Integers, Sequences, SequencesExt

CONSTANTS
    Object,         \* what group, kind, namespace and name identify
    Version,        \* the versions that the spoke serves of each of them
    Unparsed,       \* a manifest that cannot be decoded
    Workloads,      \* the lists of manifests that a Work may have
    MaxTime         \* bound on the number of reconciles

Manifest == [object : Object, version : Version]

ASSUME UnparsedAssumption == Unparsed \notin Manifest
ASSUME WorkloadsAssumption == Workloads \subseteq Seq(Manifest \cup {Unparsed})
ASSUME MaxTimeAssumption == MaxTime \in Nat

VARIABLES
    manifestConditions,     \* work.Status.ManifestConditions
    workCondition,          \* the status of the Applied condition of the Work
    appliedResources,       \* appliedWork.Status.AppliedResources
    spoke,                  \* the objects on the spoke that the Work owns
    results,                \* the results that all this was made from
    now                     \* the time: one reconcile happens at each

vars == <<manifestConditions, workCondition, appliedResources, spoke, results, now>>

\* ResourceIdentifier. mapped: whether it has the resource of a REST mapping.
Identifier == [ordinal : Nat, manifest : Manifest \cup {Unparsed}, mapped : BOOLEAN]

\* The Applied condition: its status and its LastTransitionTime.
Condition == [true : BOOLEAN, since : Nat]
ManifestCondition == [identifier : Identifier, condition : Condition]
ApplyResult == [identifier : Identifier, ok : BOOLEAN]

\* How applying a manifest ends: without a mapping for its kind, with another
\* error, or well.
Outcome == {"unmapped", "failed", "applied"}

-----------------------------------------------------------------------------
(* applyManifests, as far as the results go.                               *)

\* buildResourceIdentifier, and what applyManifests does in place of it.
IdentifierOf(i, manifest, outcome) ==
    [ordinal |-> i, manifest |-> manifest,
     mapped |-> manifest # Unparsed /\ outcome # "unmapped"]

ApplyManifests(manifests, outcomes) ==
    [i \in DOMAIN manifests |->
        [identifier |-> IdentifierOf(i, manifests[i], outcomes[i]),
         ok |-> manifests[i] # Unparsed /\ outcomes[i] = "applied"]]

\* The objects that are there after a manifest of theirs was applied.
AppliedObjects(new) ==
    {new[i].identifier.manifest.object : i \in {k \in DOMAIN new : new[k].ok}}

-----------------------------------------------------------------------------
(* generateWorkCondition.                                                  *)

BugSetStatusCondition(old, new) == old

\* meta.SetStatusCondition, for an old condition of the same type.
SetStatusCondition(old, new) == IF old.true = new.true THEN old ELSE new

BuildManifestAppliedCondition(result) == [true |-> result.ok, since |-> now']

BugFind(identifier, conditions) ==
    SelectInSeq(conditions, LAMBDA c : c.identifier = identifier)

\* findManifestConditionByIdentifier: the index of what it finds, or 0.
Find(identifier, conditions) ==
    LET exact == SelectInSeq(conditions, LAMBDA c : c.identifier = identifier)
        moved == SelectInSeq(conditions,
                             LAMBDA c : [c.identifier EXCEPT !.ordinal = identifier.ordinal]
                                        = identifier)
    IN IF exact # 0 THEN exact
       ELSE IF identifier.manifest = Unparsed THEN 0 ELSE moved

\* The old conditions after i steps of the loop: what is found is changed in
\* place, since the slice of the new ManifestCondition shares its array.
OldConditionsAfter(new, old) ==
    LET after[i \in 0..Len(new)] ==
            IF i = 0 THEN [k \in DOMAIN old |-> old[k].condition]
            ELSE LET k == Find(new[i].identifier, old)
                 IN IF k = 0 THEN after[i - 1]
                    ELSE [after[i - 1] EXCEPT ![k] =
                             SetStatusCondition(@, BuildManifestAppliedCondition(new[i]))]
    IN after[Len(new)]

BugGenerateManifestConditions(new, old) ==
    [i \in DOMAIN new |->
        LET k == Find(new[i].identifier, old)
        IN IF k = 0 THEN [identifier |-> new[i].identifier,
                          condition  |-> BuildManifestAppliedCondition(new[i])]
           ELSE [old[k] EXCEPT !.condition = OldConditionsAfter(new, old)[k]]]

\* What the new conditions say when the loop is over.
GenerateManifestConditions(new, old) ==
    [i \in DOMAIN new |->
        LET k == Find(new[i].identifier, old)
        IN [identifier |-> new[i].identifier,
            condition  |-> IF k = 0 THEN BuildManifestAppliedCondition(new[i])
                                    ELSE OldConditionsAfter(new, old)[k]]]

\* generateWorkAppliedCondition.
GenerateWorkAppliedCondition(conditions) ==
    \A i \in DOMAIN conditions : conditions[i].condition.true

-----------------------------------------------------------------------------
(* generateDiff and deleteStaleManifest.                                   *)

BugSameResourceIdentifier(a, b) == a = b

\* isSameResourceIdentifier: ordinal and resource do not count.
SameResourceIdentifier(a, b) == a.manifest = b.manifest

StaleResources(recorded, conditions) ==
    {resource \in recorded :
        \A i \in DOMAIN conditions :
            ~SameResourceIdentifier(resource, conditions[i].identifier)}

BugNewResources(recorded, conditions, present) ==
    {conditions[i].identifier : i \in {k \in DOMAIN conditions :
        /\ conditions[k].condition.true
        /\ \A resource \in recorded :
               ~SameResourceIdentifier(resource, conditions[k].identifier)
        /\ conditions[k].identifier.manifest.object \in present}}

\* What is applied and was recorded before, or is found on the spoke.
NewResources(recorded, conditions, present) ==
    {conditions[i].identifier : i \in {k \in DOMAIN conditions :
        /\ conditions[k].condition.true
        /\ \/ \E resource \in recorded :
                  SameResourceIdentifier(resource, conditions[k].identifier)
           \/ conditions[k].identifier.manifest.object \in present}}

\* deleteStaleManifest finds an object under each of its versions. This Work
\* is its only owner.
DeletedObjects(stale) == {resource.manifest.object : resource \in stale}

-----------------------------------------------------------------------------
Init ==
    /\ manifestConditions = <<>>
    /\ workCondition = FALSE
    /\ appliedResources = {}
    /\ spoke = {}
    /\ results = <<>>
    /\ now = 0

Reconcile(manifests, outcomes) ==
    /\ now < MaxTime
    /\ now' = now + 1
    /\ results' = ApplyManifests(manifests, outcomes)
    /\ manifestConditions' = GenerateManifestConditions(results', manifestConditions)
    /\ workCondition' = GenerateWorkAppliedCondition(manifestConditions')
    /\ LET present == spoke \cup AppliedObjects(results')
           stale == StaleResources(appliedResources, manifestConditions')
       IN /\ spoke' = present \ DeletedObjects(stale)
          /\ appliedResources' = NewResources(appliedResources, manifestConditions', present)

Next ==
    \E manifests \in Workloads :
        \E outcomes \in [DOMAIN manifests -> Outcome] : Reconcile(manifests, outcomes)

Spec == Init /\ [][Next]_vars

-----------------------------------------------------------------------------
(* Properties.                                                             *)

\* The type invariant. A condition is at the place of its manifest, and none
\* claims to have changed in the future.
TypeOK ==
    /\ manifestConditions \in Seq(ManifestCondition)
    /\ workCondition \in BOOLEAN
    /\ appliedResources \subseteq Identifier
    /\ spoke \subseteq Object
    /\ results \in Seq(ApplyResult)
    /\ now \in 0..MaxTime
    /\ \A i \in DOMAIN manifestConditions :
           /\ manifestConditions[i].identifier.ordinal = i
           /\ manifestConditions[i].condition.since <= now

\* The status is about the manifests as they are in the Work now, whatever was
\* there before: it has one condition for each, in their order, that says what
\* came of it, and the Work is Applied if all of them are
\* (generateWorkCondition, apply_controller.go:401-427).
StatusTellsOutcome ==
    /\ Len(manifestConditions) = Len(results)
    /\ \A i \in DOMAIN results :
           /\ manifestConditions[i].identifier = results[i].identifier
           /\ manifestConditions[i].condition.true = results[i].ok
    /\ now > 0 => (workCondition <=> \A i \in DOMAIN results : results[i].ok)

\* A manifest that moves in the list takes the time of its last change along
\* ("Try to find properties, other than the ordinal, within the identifier",
\* apply_controller.go:526): its transition time is new exactly if its status is.
TransitionTimeKept ==
    [][\A i \in DOMAIN manifestConditions, j \in DOMAIN manifestConditions' :
           LET old == manifestConditions[i]
               new == manifestConditions'[j]
           IN /\ old.identifier.manifest # Unparsed
              /\ new.identifier = [old.identifier EXCEPT !.ordinal = j]
              => new.condition.since =
                     IF new.condition.true = old.condition.true
                     THEN old.condition.since ELSE now']_vars

\* A manifest of which the status says that it is applied is on the spoke when
\* the reconcile is over: the deletion of what is stale does not take it away
\* again ("isSameResourceIdentifier returns true if a and b identifies the same
\* object", applied_work_syncer.go:161).
AppliedIsKept ==
    \A i \in DOMAIN manifestConditions :
        manifestConditions[i].condition.true
            => manifestConditions[i].identifier.manifest.object \in spoke

\* An object whose manifest was applied, and that the Work then describes no
\* more, is gone after the next reconcile, however often its manifest moved
\* before ("What is in the appliedWork but not in the work should be deleted from
\* the member cluster", applied_work_syncer.go:35).
Describes(conditions, o) ==
    {i \in DOMAIN conditions : /\ conditions[i].identifier.manifest # Unparsed
                               /\ conditions[i].identifier.manifest.object = o}
DroppedIsDeleted ==
    [][\A o \in Object :
           /\ \E i \in Describes(manifestConditions, o) : manifestConditions[i].condition.true
           /\ Describes(manifestConditions', o) = {}
           => o \notin spoke']_vars
=============================================================================
