# A TLA+ model of the Work API controller

This directory holds a specification of the controller in `pkg/controllers`, the
TLC configurations that check it on small instances, and theorems about it that
the TLA+ proof system (TLAPS) checks for every value of the constants. File and
line references are to the sources of this repository: AC is
`pkg/controllers/apply_controller.go`, SY is `applied_work_syncer.go`, OR is
`owner_reference_util.go`, PU is `patch_util.go`, MG is `manager.go`.

## 1. The system

A *hub* cluster holds `Work` objects: lists of manifests to be deployed. The
controller runs against the hub and one member (*spoke*) cluster. For each Work
it keeps an `AppliedWork` on the spoke, which records the deployed objects and
owns them, so that the spoke's garbage collector removes them with it.

| Component | State | Operations | Talks to |
|---|---|---|---|
| Reconcile loop (AC) | work queue, locals of up to 5 concurrent reconciles, `joined` | `Reconcile`, `ensureAppliedWork`, `applyManifests`, `garbageCollectAppliedWork` | hub (through an informer cache for reads), spoke |
| Applied-work syncer (SY) | none of its own: `newRes`, `staleRes` | `generateDiff`, `deleteStaleManifest` | spoke |
| Owner references (OR) | none | `addOwnerRef`, `mergeOwnerReference`, `isReferSameObject` | called by AC and SY |
| Patches (PU) | two annotations on each deployed object | `threeWayMergePatch`, `setModifiedConfigurationAnnotation` | called by AC |
| Conditions (AC 401-427, 523-546, 578-634) | `Work.Status` | building and merging conditions | called by AC, read by SY |
| Membership (AC 429-468) | `joined`, the finalizers of all Works | `Join`, `Leave` | hub |
| Manager (MG) | - | building clients, number of workers | all |
| API types | `Work`, `AppliedWork` | - | all |
| Command, charts, scripts, tests | - | flags and deployment | - |

What is hard here:

* every reconcile is a series of calls to two API servers, any of which may fail,
  or succeed with its reply lost, and the process may restart between any two;
* the Work is read from a cache that may be old, and users edit, delete and
  recreate it in the middle of a reconcile; optimistic locking is the only guard;
* Works share objects: several workers read an owner list, compute a new one, and
  patch, update or delete by name, with a precondition in one case of the three;
* an equal spec hash stands for an equal object, and the record in the
  AppliedWork stands for what is on the spoke; both can be out of date;
* AppliedWorks with the name of an earlier one (another UID) coexist with objects
  of the earlier one until the garbage collector has been there;
* nothing happens unless the key is requeued, so every exit of `Reconcile` counts.

What makes it correct: a finalizer never outlives its AppliedWork, and nothing on
the spoke is owned on behalf of a Work that can vanish; *Applied* is never a lie;
no Work is forgotten; objects of others and other Works' references are left
alone; the spoke converges, and a deleted Work is cleaned up. `PROJECT.json`
lists the hazards line by line with the property aimed at each.

## 2. Modules

| Module | Contents |
|---|---|
| `ApplyWork` | the controller, the two API servers, users, third parties; properties |
| `WorkLifecycle` | abstract: the protocol of a Work, its finalizer, its AppliedWork and what that owns; `ApplyWork` implements it (`FollowsLifecycle`) |
| `Membership` | `Join` and `Leave`, composed with `ApplyWork`: extends it and lets its reconciles start only while joined |
| `WorkStatus` | what the results of a reconcile make of the status, the record and the spoke, with the identifiers of the code |
| `MCApplyWork`, `MCMembership`, `MCWorkStatus` and their `*.cfg` | instances for TLC |
| `ApplyWork_proofs` | type correctness |
| `ApplyWorkFinalizer_proofs` | finalizers, AppliedWorks and owners |
| `ApplyWorkQueue_proofs` | the work queue |
| `ApplyWorkShared_proofs` | objects that several Works share: their release, and that what the controller wrote keeps an owner |
| `ApplyWorkLifecycle_proofs` | the refinement of `WorkLifecycle` |
| `ApplyWorkObjects_proofs` | objects that nothing of this controller owns, and those that a Work says it has applied |
| `Membership_proofs` | the composition with `Join` and `Leave` |
| `WorkStatus_proofs` | finding conditions, the status, the record |

### State

| Variable | In the code |
|---|---|
| `hub`, `status` | the Work of each name on the hub: absent, live or deleting, with or without the finalizer, its manifests; its Applied condition, whether that is of the current generation, and which manifest conditions are True |
| `cache`, `watch` | what `r.client.Get` returns (MG 75 passes the manager's caching client), and whether the watch has something to deliver: nothing, a change that `GenerationChangedPredicate` drops (`behind`), or one it lets through (`event`) |
| `queue`, `pc`, `job` | the work queue; the next call of the reconcile of each key and its locals (`work`, `appliedWork`, `newRes`, `staleRes`, `curObj`, ...). One reconcile per key is the guarantee of the queue |
| `aw`, `lastUid` | AppliedWorks: UID (0: there is none) and recorded resources |
| `res` | the object behind each resource identifier: content, owners, and the two annotations |
| `budget` | how many disturbances of each kind are still allowed |

### Actions

Each call to an API server is one action, named after the function it is in, and
takes the controller from one `pc` label to the next. The parameter `reply` says
what it learns: the answer, an error with nothing done, or an error although the
server did it (`lost`).

| Action | Code | Guard and effect worth knowing |
|---|---|---|
| `Reconcile` | AC 85-115 | takes a queued key, at most `MaxConcurrent` at a time; reads the cache |
| `GetAppliedWork`, `CreateAppliedWork`, `AddFinalizer` | AC 202-241 | AlreadyExists is no error and leaves an empty UID and record |
| `GetManifest`, `CreateManifest`, `PatchManifest` | AC 243-399 | not found: create; not managed: skip; equal hash: done; else a patch computed from the object *as read* and applied to it *as it is* |
| `UpdateWorkStatus` | AC 128-146 | optimistic locking; then the comparison that starts `generateDiff` |
| `GetNewManifest` | SY 79-99 | an error ends the reconcile without a requeue (AC 145) |
| `GetStaleManifest`, `DeleteStaleManifest`, `ReleaseStaleManifest` | SY 105-156 | delete has no precondition, the update has the resourceVersion |
| `AbandonSync`, `UpdateAppliedWork` | AC 147-173 | errors of the deletion leave the record as it is |
| `DeleteAppliedWork`, `RemoveFinalizer` | AC 176-199 | the Work leaves the hub with its finalizer |
| `Restart` | MG 46-95 | locals and queue are lost; the informer lists the hub |
| `CacheSync`, `CreateWork`, `EditWork`, `DeleteWork`, `GarbageCollect`, `Tamper...` | external | informer, users, the spoke's garbage collector, third parties |

### The abstract protocol

`WorkLifecycle` has four variables and seven actions, and says in which order the
hub and the spoke may change: the AppliedWork is created (`Anchor`) before the
finalizer is added (`Hold`), objects are owned on behalf of a Work only while both
are there (`Deploy`), a deleting Work loses the AppliedWork (`Collect`) and then the
finalizer (`LetGo`). The refinement mapping `Lifecycle` in `ApplyWork` reads
`phase` and `held` off the hub, `anchored` off `aw`, and `owners` off the references
in `res` to AppliedWorks that exist. Everything else that `ApplyWork` does, such as
reads, failing calls, cache, queue, restarts and edits, is a stutter. What makes
the refinement hard is that each action of the protocol has its guard on the
hub *now*, while the controller decides on a copy it read some calls ago.

### Membership

`joined` is the field of the reconciler; `later` holds the keys that wait for
`RequeueAfter` (AC 89); `leaving` is how far a call of `Leave` has come.

| Action | Code | Guard and effect worth knowing |
|---|---|---|
| `JoinedReconcile`, `Postpone`, `Requeue` | AC 86-95 | the only place that looks at `joined`; otherwise the key comes back after five seconds |
| `Proceed` | AC 91-199 | a reconcile on its way goes on whatever happens to `joined`; its writes outdate what Leave has listed |
| `Join` | AC 430-436 | |
| `Leave`, `ListWorks`, `LeaveWork`, `LeaveReturns` | AC 439-468 | clears `joined` first; the list comes from the cache (which never answers with the NotFound that AC 451 ignores: no Works, empty list); one update with optimistic locking per Work with the finalizer, and the first that fails ends the call |
| `RestartJoined` | MG 84-94 | a new process joins |

The flag is read and written by several goroutines without synchronisation, which
Go leaves undefined in principle. It is one byte, loaded once in a reconcile and
stored once in a call, so in the linux/amd64 build of the Dockerfile a read returns
some value that was stored: the interleavings of the model. `quiet` in `leaving` is
the one variable that is not of the code: it remembers whether a reconcile was
running or a cached copy was old when the Works were listed.

### Status and record

In `WorkStatus` a Work is reconciled again and again with any list of manifests and
any results, each reconcile in one step. What is in question is the bookkeeping:
three functions compare identifiers of different reconciles, each in its own way.

| Definition | Code | What it compares |
|---|---|---|
| `Find` | AC 523-546 | the whole identifier, then the identifier without its ordinal |
| `SameResourceIdentifier` | SY 161-165 | neither the ordinal nor the resource |
| `DeletedObjects` | SY 108-147 | nothing: the server finds an object under any version it serves |

`OldConditionsAfter` is the loop of `generateWorkCondition` as a recursive function:
what is found is changed in place, and `GenerateManifestConditions` reads it when the
loop is over, as the slices are shared. A condition is its status and its transition
time; the time is the number of the reconcile. `StaleResources` and `NewResources` are
the two results of `generateDiff`. A manifest that is not mapped has an identifier
without the resource; one that cannot be decoded has only its ordinal.

`ApplyWork` keeps of all this only the set of manifests whose condition is True,
which is what `StatusTellsOutcome` allows it to do, and tells manifests apart by
their resource, which is what `AppliedIsKept` and `DroppedIsDeleted` allow as long as
no manifest changes its version.

### Abstractions

* A manifest is a member of `Content`; the parts of an object that manifests do
  not set are not modelled, so the three-way merge is that of one field, the owner
  list and the annotations. The strategic merge works by UID on the owners, the
  JSON merge replaces the list (PU 43-75), hence `BuiltIn`.
* The manifests of a Work and its stale resources are visited in any order: more
  behaviours than the code has, none fewer. Manifests that cannot be decoded or
  mapped behave as ones whose Get fails.
* A hash is the hashed manifest itself (no collisions), with the owner that
  `addOwnerRef` put into it before hashing (AC 266, 312).
* A resourceVersion of a Work is the flag `fresh`: whether the copy at hand is of
  the latest write. That of a spoke object is equality with what was read: a
  change and its reversal in between goes unnoticed, where the server would
  refuse the update, so the model allows more.
* A delayed requeue (five minutes, back-off) is a requeue. A key that is queued
  while it is being reconciled stays queued, as in the code.
* The informer goes to the latest version in one step; it may be late by any
  number of versions, but does not deliver the versions in between one by one.
* Owner lists are sets. The spoke's garbage collector handles an object in one step.
* Works are in one namespace; manifests have names, and those of a Work describe
  different resources.

## 3. What TLC checks

`CHECK_DEADLOCK FALSE` everywhere: with the disturbances used up and no Work left
the controller has nothing to do, and is meant to stop.

| Run | Instance | Properties |
|---|---|---|
| `lifecycle` | 1 Work, a built-in and a custom resource, 2 contents, 2 creations, 1 edit, 1 deletion, 1 fault, 1 restart, 1 act of a third party (create or edit an object), symmetric in the contents; 1.4 M states | `TypeOK`, `FinalizerGuardsAppliedWork`, `AppliedIsTrue`, `NeverForgotten`, `FollowsLifecycle`, `UnmanagedUntouched` |
| `shared` | 2 Works, 1 built-in resource, 2 workers, 3 creations, 1 edit, 2 deletions, symmetric in the Works; 2.0 M states | `OwnedOnlyUnderFinalizer`, `NeverOrphaned`, `ReleaseSparesOthers` |
| `progress` | 1 Work, 2 resources, 2 creations, 1 edit, 1 deletion, 1 fault, 1 restart, 1 loss of an object or of the AppliedWork; 0.5 M states, with fairness | `EventuallyReflected`, `DeletionCleansUp` |
| `membership` | 1 Work, 1 resource, 2 contents, 1 creation, 1 edit, 1 deletion, 2 Leaves, any Joins, 1 fault, 1 restart; 0.4 M states, with fairness | `MembershipTypeOK`, `LeaveIsClean`, `FinalizerGuardsAppliedWork`, `Rejoined` |
| `status` | lists of up to 3 manifests of 2 objects (each described once at most) and of ones that cannot be decoded, 1 version, 4 reconciles; 19 k states, 2.7 M steps | `TypeOK`, `StatusTellsOutcome`, `AppliedIsKept`, `TransitionTimeKept`, `DroppedIsDeleted` |

Why these bounds: the code treats each Work and each manifest by itself, and they
meet only in a shared object, so one Work with two resources (one of each patch
type) and two Works with one resource hold every pair of actors. Two creations
give an earlier life of the same name with objects still to be collected; three in
`shared` let both Works exist while one lives twice. One fault falls on every call
in turn and with every kind of reply, the restart between any two steps. What a
second fault adds is a retry of a retry, which starts from the same states as the
first. In `membership` the calls of Leave
may fail too. Two Leaves are a Leave and its retry, or two with a Join in between,
each at any point of the Work's life; with one Work the order in which Leave visits
Works does not show, and what a failing update leaves behind is a Work not visited.
In `status` three manifests are
enough for one to move past another while a third is added, dropped or not
decodable, and four reconciles for a time to be set, kept over a move, changed and
kept again, or for a manifest to be recorded, lost from the record by a failure,
recorded anew in another place and dropped. The theorems below need no bound at all.

Some bounds matter to what holds, and are part of the claim. `UnmanagedUntouched`
excepts a call that was decided on when the name was that of a managed object:
between the Get and the Patch (AC 347 to 392) or the Delete (SY 142) the garbage
collector may remove the object of a former life and somebody else create one of
the name, and the call, which has no precondition, reaches it. `AppliedIsTrue`
speaks of the time before a third party first acts, and of one Work. `NeverOrphaned`
holds for two Works and a spoke where nobody else deletes or creates anything: a
strategic patch computed from an old owner list may remove the last reference
otherwise. With three Works it takes four edits and no failure. W1 and then W3 are
about to delete the object, each having read itself as the only owner; W2 patches it
twice. The first patch, read when W1 was the owner, records W1 and W2 as last applied
although W3 and W2 now are the owners; the second is computed from that, and so takes
off W1, and leaves out W2 as already there. Before it arrives W3 deletes the object and
W1 creates it anew. What W2 then leaves has no owner.
The properties of
`WorkStatus` hold for lists that describe no object twice, in one version of it: what
comes of two manifests of one object is told below, and with two versions
`AppliedIsKept` fails in the run `version`. `ReleaseSparesOthers` is about the
references of others; that a release gives up those of the Work itself is not so, as
told below too.

### Fairness

`Spec` has weak fairness on: taking a queued key; the next step of a reconcile
*with an answer*, i.e. a call that is made returns, though any of them may fail
while faults last; the informer; the garbage collector. The first is the workers'
loop over a queue that hands out keys in order, the second a goroutine that is
never blocked by others, the last two are processes of their own that never stop.
There is none on users, third parties, failures and restarts. Weak fairness is
enough: a queued key stays queued until it is taken, and with `MaxConcurrent` of
at least the number of Works in the fair runs a worker is free. With fewer workers
than Works strong fairness would be called for, and no run claims it.

`MSpec` adds that the delay of a postponed key ends, and that a queued key is taken
whether the controller is joined or not. Nobody has to call Join or Leave, nor does
a call of Leave have to come to its end: `Rejoined` is about those behaviours in
which the controller is joined for good from some point on.

### Where the code does not do what the repository says

Seven violated properties, each with a run of its own, are disagreements between the
code and its comments, documents or tests. Three of them, `NeverForgotten`,
`EventuallyReflected` and `AppliedIsKept`, hold in the passing runs, which leave out
the one kind of failure, tampering or edit that the run here adds.

| Run | What happens |
|---|---|
| `forgotten` | `generateDiff` fails, `err` is returned in place of `genErr` (AC 145): nil error, no requeue |
| `leak` | the status update conflicts after a manifest was created and the edit drops that manifest: nothing remembers the object |
| `drift` | an edited object keeps its hash annotation, so that no reconcile repairs it (AC 354) |
| `lost_owner` | a Work that releases a shared object and wants it again finds its hash there and does not become an owner |
| `shared_delete` | a Work deletes an object that another adopted after it was read (SY 142) |
| `leave` | a reconcile past the check of `joined` adds the finalizer after Leave has listed the Works; Leave returns nil (AC 465) |
| `version` | a manifest is rewritten in another version: the object just applied is deleted under the old one, and the status says Applied (SY 164) |

`lifecycle` and `progress` therefore let every call fail but that of
`generateDiff` (`MostCalls`), and no passing run of a liveness property has
third parties editing objects.

Three more have no run of their own. SY 40 says that the record of an applied resource
is kept "even if it is not applied successfully", and SY 65 drops it after one
failed apply; it is one way into what `leak` shows.

AC 611 says that the condition of the Work is false "if one of the manifests is applied
failed". With two manifests of one object it is not (AC 417): both new conditions share
the one old condition, and the success of the second overwrites the failure of the first.
Any list with one manifest, followed by one with the same manifest twice of which the
first fails, does it; only the lists of the runs (`MCWorkloads`) keep it out.

SY 149 says "remove the owner reference from the staled manifest", and a release may
succeed and remove none: where an object has two references to a Work, for each of
them the loop (SY 129) appends all the others. This is how two come about, in 51 states,
in the instance of `shared` with four creations and a built-in resource. W1 is deleted
and created again twice; W2 shares an object with it. W2 has read the object in the first
life of W1, and patches it in the third, when the reference on it is that of the second
life. What the patch records as last applied is the reference of the first life. So the
next strategic patch of W1, which has its new UID in the place of the old one in its own
list, adds the new reference but does not take off the old: that one is not among the
last applied. W1 then drops the manifest, the update writes back what was read, and the
AppliedWork forgets the object. The garbage collector removes the reference that is dead,
and the one that is left keeps the object on the spoke as long as W1 lives, even if all
Works have dropped it.

## 4. What is proved

The theorems hold for any values of the constants that meet the named assumptions of
the modules: any Works, resources, contents, lists of manifests (the sets may be
infinite), any number of workers, any calls that fail. `Budget`, `MaxLeaves` and
`MaxTime` may be any numbers, so that the bounds on disturbances, on Leaves and on
reconciles are no restriction on safety. A condition in the table is a hypothesis of
the theorem; where there is none, third parties may do whatever `Tampering` can list.

| Theorem | States | Condition |
|---|---|---|
| `TypeCorrect` | `SafeSpec => []TypeOK` | - |
| `OwnedObjectsAreGuarded` | `SafeSpec => []OwnedOnlyUnderFinalizer` | - |
| `FinalizerImpliesAppliedWork` | `SafeSpec => []FinalizerGuardsAppliedWork` | no third party deletes AppliedWorks |
| `NoWorkIsForgotten` | `SafeSpec => []NeverForgotten` | the Get of `generateDiff` does not fail |
| `ReleaseIsSafe` | `SafeSpec => ReleaseSparesOthers` | - |
| `SharedObjectsKeepAnOwner` | `SafeSpec => []NeverOrphaned` | at most two Works, and third parties delete neither objects nor AppliedWorks and create no objects |
| `CustomObjectsKeepAnOwner` | what `NeverOrphaned` says, of custom resources | third parties create no objects |
| `LifecycleIsImplemented` | `SafeSpec => FollowsLifecycle` | no third party deletes AppliedWorks |
| `OthersAreLeftAlone` | `SafeSpec => UnmanagedUntouched` | - |
| `AppliedMeansDelivered` | `SafeSpec => []AppliedIsTrue` | there is a single Work |
| `MembershipTypes` | `MSafeSpec => []MembershipTypeOK` | - |
| `LeaveTakesAll` | `MSafeSpec => []LeaveIsClean` | - |
| `LeaveKeepsTheGuard` | `MSafeSpec => []FinalizerGuardsAppliedWork` | no third party deletes AppliedWorks |
| `StatusTypes` | `Spec => []TypeOK` of `WorkStatus` | - |
| `DroppedIsGone` | `Spec => DroppedIsDeleted` | - |
| `WhatIsAppliedStays` | `Spec => []AppliedIsKept` | no manifest changes its version (`Stable`) |
| `TheStatusIsTrue` | `Spec => []StatusTellsOutcome` | no Work lists a manifest twice (`EachOnce`) |
| `TimesAreKept` | `Spec => TransitionTimeKept` | no Work lists a manifest twice (`EachOnce`) |

Every condition is needed. Where the AppliedWork may be deleted behind the
controller's back, as the comment at AC 220 has it, the finalizer guards nothing; the
runs `forgotten` and `version` are counterexamples for the Get of `generateDiff` and for
versions; of two Works that want different things of one object both may say Applied;
without `EachOnce`, TLC finds counterexamples to both properties with two manifests; and
TLC finds counterexamples to `NeverOrphaned` for each of its conditions by itself: for a
third Work (the one told above), a third party that deletes an object or an
AppliedWork, or one that creates an object under the name a patch is on its way to,
the last for custom resources too. They are 37 to 68 states long, beyond an exhaustive
search, so they were found by letting the steps that matter come in a given order.
`DroppedIsGone` goes beyond the run: it holds for repeated manifests and for
several versions, which the lists of the run do not have.

**Type correctness** is inductive once it says that what does not exist carries
nothing, and what the locals hold at each label (`JobShape`): a release or a patch
of a missing object would otherwise bring back an owner list without an object.

**Finalizers.** What a worker has read of a Work may be outdated, but never in the
direction that hurts. `CopiesInv` says so of the copies: one that is up to date
equals the hub's, a cached copy with the finalizer in a live Work means that the hub
has the finalizer, one in a deleting Work that the hub has no live Work with it.
`Relies` says what a reconcile may count on at each label: while it applies
manifests the finalizer is on the Work; while it collects, no live Work with the
finalizer exists on the hub or in the cache. `FinalizerInv` is both, and it is what
the arguments about AppliedWorks, owners and the protocol rest on.

**AppliedWorks** (`FinalizerImpliesAppliedWork`). `GuardInv` adds the reconcile that
has created the AppliedWork and is about to add the finalizer. The AppliedWork is
deleted only by a reconcile that collects, and then by `Relies` no live Work has the
finalizer; a Work gets the finalizer only at `finalize`.

**Owners** (`OwnedObjectsAreGuarded`). The property speaks of references to
AppliedWorks that exist. `OwnersInv` says it of the references that a reconcile has
read as well, and that no UID is above `lastUid`, so that a new AppliedWork
owns nothing; `UnguardInv` says that the AppliedWork is gone by the time its
Work's finalizer is removed.

**Queue** (`NoWorkIsForgotten`). `QueueInv` adds that a deleting Work has the
finalizer, on the hub and in the cache, and that a Work the cache has not got has an
event on its way: so a reconcile that finds nothing to do is never the last word.

**Release** (`ReleaseIsSafe`). `ReleaseInv` says that a release starts from an owner
list that was read with this Work in it, and with more than that. The update is accepted
only if the object is still the one that was read, so what is written back is the current
list less references to this Work.

**Shared objects** (`SharedObjectsKeepAnOwner`, `CustomObjectsKeepAnOwner`). Neither a
patch nor a delete has a lock, so what they do goes by what was read before, whatever
the other Work has done since. Each step is first shown to make, of one object, a *move*
(`NextMove`): a take, a write, a collection, the coming or going of an AppliedWork, or
nothing. A move speaks only of the owners of the object (`Own`), of those applied last
(`Last`), of what the patches under way have read (`Read`) and will take off (`Drops`),
and of which deletes are under way; nothing of contents, hashes, queues or the hub. For
custom resources that is nearly all: a merge patch writes a list with this Work in it,
or leaves the list as it is. A strategic patch edits the list instead, and there are two
ways to lose an owner: a patch takes off a reference that is in `Drops`, or it does not
bring back one that it has read and that has gone since (`Lost`). The invariant
`SharedInv` says why the two never meet. `LostInv`: a Work whose present reference was
applied last or read, and has gone since, has no earlier one on the object either: what
took it off left none. `ThreatInv`: of two Works, one that is about to take off the
reference of the other (`Threatens`) has not lost its own; one that will not bring its
own back, gone or about to be, does not take off the other's; and not both have lost
theirs. `RescueInv`: where a patch does not bring its Work back, the object has an owner
that the patch leaves on. A third Work breaks `ThreatInv`, with the delete of W3 in the
story of section 3: W2 loses its reference to a Work other than the one that its patch
takes off. Besides, `Keyed` says that a reconcile writes references to the AppliedWork
there is, and `SeenInv` that no list holds the reference to one that is still to be
created.

**The protocol** (`LifecycleIsImplemented`). Initial states map to initial states, and
every step to a step of `WorkLifecycle` or a stutter. Most actions look alike from as
far as the hub and the AppliedWork: a *hop* says what a step does to one Work, its
copies, its label and whether its AppliedWork exists, each action is shown to make
one of fourteen hops (`NextHops`), and the invariants about copies are proved hop by hop. The
guards of the protocol are on the present state of the hub, those of the controller
on copies, so the mapping needs the invariants above and one more: `OrderInv` says that
a Work with the finalizer lacks its AppliedWork only when the cache knows it to be on
its way out (`Doomed`), and that no reconcile that collects was overtaken by a next
life of the Work. Neither follows from what one reconcile has read; it depends on
what the cache has come to know since.

**Objects of others** (`OthersAreLeftAlone`). `HeldInv` says that a reconcile about to
patch, delete or release an object has read it with an owner, and all other writes
are of objects that do not exist.

**Applied** (`AppliedMeansDelivered`). Nothing that the status update reads is the spoke:
it is true because of what each earlier step of the reconcile has seen, and it stays true
because of what no later step does. Four facts make it inductive, `TruthInv`. `CopyInv`:
a status about the Work as it is now is about the cached copy and the copy of any
reconcile in progress as well, so that none applies, or deletes as stale, for other
manifests. `Anchored`: a reconcile that has a UID has that of the AppliedWork there is
(`Keyed`).
`SingleInv` and `HandInv`: every object is exactly as one reconcile of the Work wrote it
(`Deployed`), and one that is about to be patched still is as it was read, so that the
merge of three owner lists comes to the one owner (`PatchOfOne`). `TriedInv`: what the
reconcile counts as applied is on the spoke as its copy of the Work has it. The last two
depend on the first two, as the garbage collector and the call that deletes a stale
object respect what they say. All of it but `CopyInv` is said of the time before a third
party acts (`Unspent`), which is what the property is about.

**Membership.** The steps of `Membership` make the hops of `ApplyWork`, and one more:
Leave takes a finalizer off in the middle of a reconcile, so that `FinalizerInv` is no
longer true: manifests may be applied for a Work that has just lost the finalizer. What
survives is enough. `CopyInv` says that a copy that counts as fresh is one, and that a
Work is collected only if it is not wanted. For `MembershipTypes`, `FreshInv` says that a
listed copy that nothing has outdated has the finalizer. For `LeaveTakesAll`, `CleanInv`
says that in a quiet call no reconcile runs and every Work with the finalizer is
still on the list: none starts before the next Join, and nobody else adds one.
`LeaveKeepsTheGuard` repeats the argument about AppliedWorks from `CopyInv` alone.

**Conditions.** Two loops over lists have to be understood for lists of any length.
`Find` is described without its loop by `FindIs` and `Found`: what it returns describes
the same manifest, and it returns something if there is one. `LoopExists` and `LoopIs`
unfold the recursive function in `OldConditionsAfter`. The induction in these proofs is
over the numbers of the steps, in the form that a set that has 0 and is closed under
successor has all numbers (`UpTo`, from the library's theorem that a non-empty set has a
least element), as the provers cannot instantiate the library's principle of induction.
`LoopValue` then says what happens when no two results find the same old condition,
which `EachOnce` guarantees (`FindsOwn`); `LoopStatus` says what is left when some do:
the condition has the status of one of those results, all of them of the same manifest.

**Status, times and record.** `StatusInv` says that the conditions belong to the last
results and that no manifest has two; `RecordInv`, that the record has every manifest
whose condition is True, and only manifests that some list had. The second needs only
`LoopStatus`, which is why `DroppedIsGone` has no condition. `AppliedIsKept` follows, as
a stale resource with the object of an applied manifest would be another version of it.

Left to TLC:

* liveness, `EventuallyReflected`, `DeletionCleansUp` and `Rejoined`, since fairness and
  ENABLED are out of the prover's reach;
* the violations, each of which is a counterexample and needs no proof.

## 5. Not modelled

Every safety invariant and every action property that a passing run checks is the
statement of a theorem above, under the conditions given there.

* Manifests with `generateName` (AC 332), of which every reconcile creates another
  object, so that objects have no identifier known beforehand. `generateDiff` looks
  them up by an empty name, which the client refuses; what follows is what
  `forgotten` shows.
* The objects of a Work that lists one twice (AC 248): its manifests patch the object to
  and fro at every reconcile. What becomes of their conditions is in `WorkStatus`.
* A watch that breaks and lists anew. It would show a Work that was deleted and created
  again in between as one update, which `GenerationChangedPredicate` (AC 476) drops if
  the generations happen to be equal; the model delivers every change of generation and
  every new life.
* Works of one name in two namespaces (AC 223), which share an AppliedWork.
* Owner lists as sequences, with duplicates and owners of other kinds (OR, SY 126).
* `cmd/workcontroller`, the client set-up, charts, scripts and generated code, which
  are I/O, wiring and data; metrics, events and log lines, which no property is
  about.
