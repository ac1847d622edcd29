----------------------------- MODULE ApplyWork -----------------------------
(***************************************************************************)
(* The apply-work controller of pkg/controllers: the reconcile loop that   *)
(* carries Work objects of a hub cluster to a member ("spoke") cluster.    *)
(*                                                                         *)
(* Covered: the work queue and its workers, the informer cache that        *)
(* r.client reads, every API call of a reconcile as a step of its own      *)
(* (ensureAppliedWork, applyManifests, the status update, generateDiff,    *)
(* deleteStaleManifest, the AppliedWork update, garbageCollectAppliedWork),*)
(* resource versions of Work, the two patch types, the spoke's garbage     *)
(* collector, users, third parties, failing calls, lost replies, restarts. *)
(*                                                                         *)
(* Abstracted: a manifest is one of Content, the fields of an object the   *)
(* controller does not compare are one value, the manifests of a Work are  *)
(* applied in any order, a delayed requeue is a requeue.                   *)
(*                                                                         *)
(* Not covered here: Join and Leave (Membership), how conditions are made  *)
(* and compared (WorkStatus), manifests with generateName or listed twice, *)
(* owners that are not AppliedWorks, Works of one name in two namespaces.  *)
(*                                                                         *)
(* A definition named Bug... is a plausible mistake in the definition that *)
(* follows it. No specification uses it; with it in place of the right one *)
(* a property of a run fails, which shows that the property can.           *)
(***************************************************************************)
EXTENDS Integers, FiniteSets

CONSTANTS
    Work,           \* names of Work objects in the controller's namespace
    Resource,       \* identifiers of the objects that manifests describe
    BuiltIn,        \* the resources of kinds registered in the client scheme
    Content,        \* what a manifest can say of a resource
    Absent,         \* no manifest, no object, no resource at hand
    MaxConcurrent,  \* MaxConcurrentReconciles, maxWorkConcurrency in manager.go
    FaultyCalls,    \* the API calls that may fail
    Tampering,      \* what third parties may do on the spoke
    Budget          \* bound on each kind of Disturbance

Disturbance == {"create", "edit", "delete", "fault", "crash", "tamper"}

ASSUME BuiltInAssumption == BuiltIn \subseteq Resource
ASSUME AbsentAssumption == Absent \notin Content /\ Absent \notin Resource
ASSUME MaxConcurrentAssumption == MaxConcurrent \in Nat \ {0}
ASSUME BudgetAssumption == Budget \in [Disturbance -> Nat]

VARIABLES
    \* The hub API server
    hub,      \* the Work object of each name
    status,   \* its status subresource
    \* The controller process
    cache,    \* the informer's copy of each Work
    watch,    \* what the watch has still to deliver to that copy
    queue,    \* the keys in the work queue
    pc,       \* the next step of the reconcile of each Work, or "idle"
    job,      \* the local variables of that reconcile
    \* The spoke API server
    aw,       \* the AppliedWork of each name
    lastUid,  \* the last UID given to an AppliedWork
    res,      \* the object behind each resource identifier
    \* The environment
    budget    \* the disturbances still allowed

hubVars == <<hub, status>>
spokeVars == <<aw, lastUid, res>>
vars == <<hub, status, cache, watch, queue, pc, job, aw, lastUid, res, budget>>

-----------------------------------------------------------------------------
(* Data.                                                                   *)

\* An owner reference to the AppliedWork of a Work. UIDs tell apart the
\* AppliedWorks that had the name; 0 is the UID of an object never created.
Owner == [work : Work, uid : Nat \ {0}]

\* Spec.Workload: the manifest it holds for each resource, if any.
Workload == [Resource -> Content \cup {Absent}]

WorkObject == [phase : {"absent", "live", "deleting"}, fin : BOOLEAN, spec : Workload]
NoWork == [phase |-> "absent", fin |-> FALSE, spec |-> [r \in Resource |-> Absent]]

\* observed: ObservedGeneration of the Applied condition is the Work's
\* generation; applied: its status; ok: the manifests whose condition is True.
Status == [observed : BOOLEAN, applied : BOOLEAN, ok : SUBSET Resource]
NoStatus == [observed |-> FALSE, applied |-> FALSE, ok |-> {}]

AppliedWork == [uid : Nat, recorded : SUBSET Resource]
NoAppliedWork == [uid |-> 0, recorded |-> {}]

\* hash is the spec-hash annotation, the hashed manifest itself: its content
\* and the owner that addOwnerRef put into it. last is the owner list in the
\* last-applied-configuration annotation, which is written with the hash.
Object == [content : Content \cup {Absent}, owners : SUBSET Owner,
           last : SUBSET Owner, hash : SUBSET (Owner \X Content)]
NoObject == [content |-> Absent, owners |-> {}, last |-> {}, hash |-> {}]

Exists(o) == o.content # Absent

\* isManifestManagedByWork
Managed(o) == o.owners # {}

Manifests(spec) == {r \in Resource : spec[r] # Absent}

PC == {"idle", "get", "create", "finalize",             \* ensureAppliedWork
       "apply", "createObject", "patch",                \* applyManifests
       "sync", "deleteObject", "release",               \* generateDiff and on
       "collect", "unfinalize"}                         \* garbageCollect...

\* The locals of Reconcile and of the functions it calls.
Job == [snap : WorkObject,        \* work, as read or as the last write left it
        fresh : BOOLEAN,          \* whether its resourceVersion is the hub's
        uid : Nat,                \* appliedWork.UID
        seen : SUBSET Resource,   \* appliedWork.Status.AppliedResources
        todo : SUBSET Resource,   \* what the current loop has still to visit
        stale : SUBSET Resource,  \* staleRes not yet visited
        ok : SUBSET Resource,     \* manifests applied without error
        keep : SUBSET Resource,   \* newRes
        failed : BOOLEAN,         \* deleteStaleManifest collected an error
        at : Resource \cup {Absent},  \* the resource being written
        cur : Object]             \* curObj or uObj, as the Get returned it
NoJob == [snap |-> NoWork, fresh |-> FALSE, uid |-> 0, seen |-> {}, todo |-> {},
          stale |-> {}, ok |-> {}, keep |-> {}, failed |-> FALSE, at |-> Absent,
          cur |-> NoObject]

-----------------------------------------------------------------------------
(* Owner references and patches.                                           *)

\* isReferSameObject: the references that count as the same object as an
\* owner. They agree on group, version, kind and name; the UID is not compared.
SameOwner(owners, me) == {o \in owners : o.work = me.work}

BugMergedOwners(owners, me) ==
    IF SameOwner(owners, me) = {}
    THEN {owners \cup {me}}
    ELSE {owners \ {o} : o \in SameOwner(owners, me)}

\* mergeOwnerReference with the single owner of the manifest: it takes the
\* place of the first reference to the same object (any of them, as the order
\* of the list is not modelled), or is added.
MergedOwners(owners, me) ==
    IF SameOwner(owners, me) = {}
    THEN {owners \cup {me}}
    ELSE {(owners \ {o}) \cup {me} : o \in SameOwner(owners, me)}

\* newOwners of deleteStaleManifest. For each match the loop appends all the
\* other references, so that two matches would keep each other.
RemainingOwners(owners, me) ==
    UNION {owners \ {o} : o \in SameOwner(owners, me)}

\* The owners that the patch leaves. A strategic merge goes by UID: it adds
\* what the manifest has and the object read had not, and removes what the
\* last applied configuration had and the manifest has not. A JSON merge
\* replaces the list, when the manifest's differs from the one that was read.
PatchedOwners(r, merged, cur, actual) ==
    IF r \in BuiltIn
    THEN (actual.owners \ (cur.last \ merged)) \cup (merged \ cur.owners)
    ELSE IF merged # cur.owners THEN merged ELSE actual.owners

\* threeWayMergePatch(cur, manifest), applied by the API server to the object
\* as it is by then. The annotations always differ from those that were read.
Patched(r, c, me, merged, cur, actual) ==
    [content |-> IF cur.content = c THEN actual.content ELSE c,
     owners  |-> PatchedOwners(r, merged, cur, actual),
     last    |-> merged,
     hash    |-> {<<me, c>>}]

-----------------------------------------------------------------------------
(* API calls and how a reconcile ends.                                     *)

\* What the controller learns from a call: its answer; an error, nothing done;
\* an error, although the server did it (a timeout, a broken connection).
Reply == {"answer", "error", "lost"}
ReadReply == {"answer", "error"}

Spend(kind) == /\ budget[kind] > 0
               /\ budget' = [budget EXCEPT ![kind] = @ - 1]

Call(name, reply) ==
    \/ reply = "answer" /\ UNCHANGED budget
    \/ reply # "answer" /\ name \in FaultyCalls /\ Spend("fault")

BugReturn(w, again) ==
    /\ pc' = [pc EXCEPT ![w] = "idle"]
    /\ job' = [job EXCEPT ![w] = NoJob]
    /\ UNCHANGED queue

\* Reconcile returns: to be called again (an error, or RequeueAfter) or not.
Return(w, again) ==
    /\ pc' = [pc EXCEPT ![w] = "idle"]
    /\ job' = [job EXCEPT ![w] = NoJob]
    /\ queue' = IF again THEN queue \cup {w} ELSE queue

BugResync(w) == Return(w, FALSE)

\* The end of a reconcile that went well: the next one is in five minutes.
Resync(w) == Return(w, TRUE)

\* The reconcile goes on at a label with its locals changed to j.
Goto(w, label, j) ==
    /\ pc' = [pc EXCEPT ![w] = label]
    /\ job' = [job EXCEPT ![w] = j]
    /\ UNCHANGED queue

BugAccepted(w, reply) == reply # "error"

\* An update of a Work is accepted if its resourceVersion is the latest.
Accepted(w, reply) == reply # "error" /\ job[w].fresh

\* The API server stores x and the watch has it to deliver. GenerationChanged-
\* Predicate drops updates that leave the generation as it was.
HubStores(w, x, newGeneration) ==
    /\ hub' = [hub EXCEPT ![w] = x]
    /\ watch' = [watch EXCEPT ![w] = IF newGeneration \/ @ = "event"
                                     THEN "event" ELSE "behind"]

Me(w) == [work |-> w, uid |-> job[w].uid]
Wanted(w) == job[w].snap.spec[job[w].at]

Done(w) == [job[w] EXCEPT !.at = Absent, !.cur = NoObject]
Applied(w, r) == [job[w] EXCEPT !.todo = @ \ {r}, !.ok = @ \cup {r},
                                !.at = Absent, !.cur = NoObject]
NotApplied(w, r) == [job[w] EXCEPT !.todo = @ \ {r}, !.at = Absent, !.cur = NoObject]

-----------------------------------------------------------------------------
(* Reconcile and ensureAppliedWork.                                        *)

Busy == {w \in Work : pc[w] # "idle"}

BugEntryPointFinalizerFirst(work) ==
    CASE work.phase = "absent"                 -> "idle"
      [] work.phase = "deleting" /\ work.fin   -> "collect"
      [] work.phase = "deleting" /\ ~work.fin  -> "idle"
      [] work.phase = "live" /\ work.fin       -> "get"
      [] work.phase = "live" /\ ~work.fin      -> "finalize"

BugEntryPointNoCollection(work) ==
    CASE work.phase = "absent"                 -> "idle"
      [] work.phase = "deleting" /\ work.fin   -> "unfinalize"
      [] work.phase = "deleting" /\ ~work.fin  -> "idle"
      [] work.phase = "live" /\ work.fin       -> "get"
      [] work.phase = "live" /\ ~work.fin      -> "create"

\* Where the reconcile of a Work starts; "idle" if there is nothing to do.
EntryPoint(work) ==
    CASE work.phase = "absent"                 -> "idle"
      [] work.phase = "deleting" /\ work.fin   -> "collect"
      [] work.phase = "deleting" /\ ~work.fin  -> "idle"
      [] work.phase = "live" /\ work.fin       -> "get"
      [] work.phase = "live" /\ ~work.fin      -> "create"

\* A worker takes a key that no worker holds. The Work is read from the cache.
Reconcile(w) ==
    /\ w \in queue
    /\ pc[w] = "idle"
    /\ Cardinality(Busy) < MaxConcurrent
    /\ queue' = queue \ {w}
    /\ pc' = [pc EXCEPT ![w] = EntryPoint(cache[w])]
    /\ job' = IF EntryPoint(cache[w]) = "idle" THEN job
              ELSE [job EXCEPT ![w] = [NoJob EXCEPT
                        !.snap = cache[w], !.fresh = (watch[w] = "current")]]
    /\ UNCHANGED <<hubVars, cache, watch, spokeVars, budget>>

StartApply(w, uid, seen) ==
    Goto(w, "apply", [job[w] EXCEPT !.uid = uid, !.seen = seen,
                                    !.todo = Manifests(job[w].snap.spec)])

\* ensureAppliedWork with the finalizer in place.
GetAppliedWork(w, reply) ==
    /\ pc[w] = "get"
    /\ reply \in ReadReply
    /\ Call("getAppliedWork", reply)
    /\ CASE reply = "error"                    -> Return(w, TRUE)
         [] reply = "answer" /\ aw[w].uid = 0  -> Goto(w, "create", job[w])
         [] reply = "answer" /\ aw[w].uid # 0  -> StartApply(w, aw[w].uid, aw[w].recorded)
    /\ UNCHANGED <<hubVars, cache, watch, spokeVars>>

\* An AppliedWork that already exists is no error, and leaves the local copy
\* without a UID and without a status.
CreateAppliedWork(w, reply) ==
    /\ pc[w] = "create"
    /\ Call("createAppliedWork", reply)
    /\ LET created == reply # "error" /\ aw[w].uid = 0
           uid == IF created THEN lastUid + 1 ELSE 0
       IN /\ aw' = IF created THEN [aw EXCEPT ![w] = [uid |-> uid, recorded |-> {}]] ELSE aw
          /\ lastUid' = IF created THEN uid ELSE lastUid
          /\ CASE reply # "answer" -> Return(w, TRUE)
               [] reply = "answer" /\ job[w].snap.fin -> StartApply(w, uid, {})
               [] reply = "answer" /\ ~job[w].snap.fin ->
                      Goto(w, "finalize", [job[w] EXCEPT !.uid = uid])
    /\ UNCHANGED <<hubVars, cache, watch, res>>

AddFinalizer(w, reply) ==
    /\ pc[w] = "finalize"
    /\ Call("addFinalizer", reply)
    /\ LET work == [job[w].snap EXCEPT !.fin = TRUE]
       IN IF Accepted(w, reply)
          THEN /\ HubStores(w, work, FALSE)
               /\ IF reply = "answer"
                  THEN Goto(w, "apply", [job[w] EXCEPT !.snap = work,
                                                       !.todo = Manifests(work.spec)])
                  ELSE Return(w, TRUE)
          ELSE Return(w, TRUE) /\ UNCHANGED <<hub, watch>>
    /\ UNCHANGED <<status, cache, spokeVars>>

-----------------------------------------------------------------------------
(* applyManifests and the status of the Work.                              *)

\* decodeManifest and applyUnstructured up to their first write. The hash of
\* the manifest covers the owner that addOwnerRef put into it.
GetManifest(w, r, reply) ==
    /\ pc[w] = "apply"
    /\ r \in job[w].todo
    /\ reply \in ReadReply
    /\ Call("getManifest", reply)
    /\ LET cur == res[r]
           hash == {<<Me(w), job[w].snap.spec[r]>>}
           read == [job[w] EXCEPT !.at = r, !.cur = cur]
       IN CASE reply = "error" -> Goto(w, "apply", NotApplied(w, r))
            [] reply = "answer" /\ ~Exists(cur) -> Goto(w, "createObject", read)
            [] reply = "answer" /\ Exists(cur) /\ ~Managed(cur) ->
                   Goto(w, "apply", NotApplied(w, r))
            [] reply = "answer" /\ Managed(cur) /\ cur.hash = hash ->
                   Goto(w, "apply", Applied(w, r))
            [] reply = "answer" /\ Managed(cur) /\ cur.hash # hash ->
                   \* getOriginalConfiguration fails without the annotation
                   IF cur.hash = {} THEN Goto(w, "apply", NotApplied(w, r))
                                    ELSE Goto(w, "patch", read)
    /\ UNCHANGED <<hubVars, cache, watch, spokeVars>>

\* createFunc. The API server refuses an owner reference without a UID.
CreateManifest(w, reply) ==
    /\ pc[w] = "createObject"
    /\ Call("createManifest", reply)
    /\ LET r == job[w].at
           created == reply # "error" /\ ~Exists(res[r]) /\ job[w].uid # 0
       IN /\ res' = IF created
                    THEN [res EXCEPT ![r] = [content |-> Wanted(w), owners |-> {Me(w)},
                                             last |-> {Me(w)},
                                             hash |-> {<<Me(w), Wanted(w)>>}]]
                    ELSE res
          /\ Goto(w, "apply", IF created /\ reply = "answer" THEN Applied(w, r)
                                                             ELSE NotApplied(w, r))
    /\ UNCHANGED <<hubVars, cache, watch, aw, lastUid>>

BugPatchable(w) == job[w].uid # 0

\* The API server patches what exists, and refuses an owner without a UID.
Patchable(w) == Exists(res[job[w].at]) /\ job[w].uid # 0

\* patchCurrentResource. The patch has no precondition: it fails only if the
\* object is gone.
PatchManifest(w, reply) ==
    /\ pc[w] = "patch"
    /\ Call("patchManifest", reply)
    /\ LET r == job[w].at
           patched == reply # "error" /\ Patchable(w)
       IN /\ IF patched
             THEN \E merged \in MergedOwners(job[w].cur.owners, Me(w)) :
                      res' = [res EXCEPT ![r] =
                                 Patched(r, Wanted(w), Me(w), merged, job[w].cur, @)]
             ELSE res' = res
          /\ Goto(w, "apply", IF patched /\ reply = "answer" THEN Applied(w, r)
                                                             ELSE NotApplied(w, r))
    /\ UNCHANGED <<hubVars, cache, watch, aw, lastUid>>

\* generateWorkCondition and the status update, then the part of generateDiff
\* that compares the new conditions with the AppliedWork as it was read.
UpdateWorkStatus(w, reply) ==
    /\ pc[w] = "apply"
    /\ job[w].todo = {}
    /\ Call("updateWorkStatus", reply)
    /\ LET j == job[w]
           wanted == Manifests(j.snap.spec)
       IN IF Accepted(w, reply)
          THEN /\ status' = [status EXCEPT ![w] =
                                [observed |-> TRUE, applied |-> j.ok = wanted, ok |-> j.ok]]
               /\ HubStores(w, j.snap, FALSE)
               /\ IF reply = "answer"
                  THEN Goto(w, "sync", [j EXCEPT !.todo = j.ok \ j.seen,
                                                 !.keep = j.ok \cap j.seen,
                                                 !.stale = j.seen \ wanted])
                  ELSE Return(w, TRUE)
          ELSE Return(w, TRUE) /\ UNCHANGED <<hub, status, watch>>
    /\ UNCHANGED <<cache, spokeVars>>

-----------------------------------------------------------------------------
(* generateDiff, deleteStaleManifest and the status of the AppliedWork.    *)

\* generateDiff looks up each applied resource the AppliedWork has no record
\* of. If that fails Reconcile returns err, which the status update left nil.
GetNewManifest(w, r, reply) ==
    /\ pc[w] = "sync"
    /\ r \in job[w].todo
    /\ reply \in ReadReply
    /\ Call("getNewManifest", reply)
    /\ CASE reply = "error" -> Return(w, FALSE)
         [] reply = "answer" /\ Exists(res[r]) ->
                Goto(w, "sync", [job[w] EXCEPT !.todo = @ \ {r}, !.keep = @ \cup {r}])
         [] reply = "answer" /\ ~Exists(res[r]) ->
                Goto(w, "sync", [job[w] EXCEPT !.todo = @ \ {r}])
    /\ UNCHANGED <<hubVars, cache, watch, spokeVars>>

BugIsOwner(owners, me) == TRUE

\* found of deleteStaleManifest.
IsOwner(owners, me) == SameOwner(owners, me) # {}

GetStaleManifest(w, r, reply) ==
    /\ pc[w] = "sync"
    /\ job[w].todo = {}
    /\ r \in job[w].stale
    /\ reply \in ReadReply
    /\ Call("getStaleManifest", reply)
    /\ LET next == [job[w] EXCEPT !.stale = @ \ {r}]
           read == [next EXCEPT !.at = r, !.cur = res[r]]
           owned == IsOwner(res[r].owners, Me(w))
           others == RemainingOwners(res[r].owners, Me(w))
       IN CASE reply = "error" -> Goto(w, "sync", [next EXCEPT !.failed = TRUE])
            [] reply = "answer" /\ ~owned -> Goto(w, "sync", next)
            [] reply = "answer" /\ owned /\ others = {} -> Goto(w, "deleteObject", read)
            [] reply = "answer" /\ owned /\ others # {} -> Goto(w, "release", read)
    /\ UNCHANGED <<hubVars, cache, watch, spokeVars>>

\* No precondition: whatever has the name by now is deleted.
DeleteStaleManifest(w, reply) ==
    /\ pc[w] = "deleteObject"
    /\ Call("deleteStaleManifest", reply)
    /\ res' = IF reply # "error" THEN [res EXCEPT ![job[w].at] = NoObject] ELSE res
    /\ Goto(w, "sync", [Done(w) EXCEPT !.failed = @ \/ reply # "answer"])
    /\ UNCHANGED <<hubVars, cache, watch, aw, lastUid>>

BugUnchanged(r, cur) == Exists(res[r])

\* The object still has the resourceVersion that was read.
Unchanged(r, cur) == res[r] = cur

\* The update carries the resourceVersion that was read.
ReleaseStaleManifest(w, reply) ==
    /\ pc[w] = "release"
    /\ Call("releaseStaleManifest", reply)
    /\ LET r == job[w].at
           cur == job[w].cur
           accepted == reply # "error" /\ Unchanged(r, cur)
       IN /\ res' = IF accepted
                    THEN [res EXCEPT ![r].owners = RemainingOwners(cur.owners, Me(w))]
                    ELSE res
          /\ Goto(w, "sync", [Done(w) EXCEPT
                                 !.failed = @ \/ ~accepted \/ reply # "answer"])
    /\ UNCHANGED <<hubVars, cache, watch, aw, lastUid>>

\* deleteStaleManifest returns its errors: the AppliedWork is left as it is.
AbandonSync(w) ==
    /\ pc[w] = "sync"
    /\ job[w].todo = {} /\ job[w].stale = {}
    /\ job[w].failed
    /\ Return(w, TRUE)
    /\ UNCHANGED <<hubVars, cache, watch, spokeVars, budget>>

\* Accepted if it is still the AppliedWork that was read or created. Reconcile
\* comes back in either case: with an error, or after five minutes.
UpdateAppliedWork(w, reply) ==
    /\ pc[w] = "sync"
    /\ job[w].todo = {} /\ job[w].stale = {}
    /\ ~job[w].failed
    /\ Call("updateAppliedWork", reply)
    /\ IF reply # "error" /\ job[w].uid # 0 /\ aw[w].uid = job[w].uid
       THEN /\ aw' = [aw EXCEPT ![w].recorded = job[w].keep]
            /\ IF reply = "answer" THEN Resync(w) ELSE Return(w, TRUE)
       ELSE UNCHANGED aw /\ Return(w, TRUE)
    /\ UNCHANGED <<hubVars, cache, watch, lastUid, res>>

-----------------------------------------------------------------------------
(* garbageCollectAppliedWork.                                              *)

DeleteAppliedWork(w, reply) ==
    /\ pc[w] = "collect"
    /\ Call("deleteAppliedWork", reply)
    /\ aw' = IF reply # "error" THEN [aw EXCEPT ![w] = NoAppliedWork] ELSE aw
    /\ IF reply = "answer" THEN Goto(w, "unfinalize", job[w]) ELSE Return(w, TRUE)
    /\ UNCHANGED <<hubVars, cache, watch, lastUid, res>>

BugRemoveFinalizer(w, reply) ==
    /\ pc[w] = "unfinalize"
    /\ Call("removeFinalizer", reply)
    /\ IF Accepted(w, reply)
       THEN /\ HubStores(w, NoWork, TRUE)
            /\ status' = [status EXCEPT ![w] = NoStatus]
       ELSE UNCHANGED <<hub, watch, status>>
    /\ Return(w, FALSE)
    /\ UNCHANGED <<cache, spokeVars>>

\* The hub removes the Work with its last finalizer.
RemoveFinalizer(w, reply) ==
    /\ pc[w] = "unfinalize"
    /\ Call("removeFinalizer", reply)
    /\ IF Accepted(w, reply)
       THEN /\ HubStores(w, NoWork, TRUE)
            /\ status' = [status EXCEPT ![w] = NoStatus]
       ELSE UNCHANGED <<hub, watch, status>>
    /\ Return(w, ~(Accepted(w, reply) /\ reply = "answer"))
    /\ UNCHANGED <<cache, spokeVars>>

-----------------------------------------------------------------------------
(* The environment.                                                        *)

\* The informer catches up and the predicate lets a new generation through. (A
\* broken watch that lists anew would show a Work deleted and recreated in between
\* as one update, and drop it if the generations are equal: not modelled.)
CacheSync(w) ==
    /\ watch[w] # "current"
    /\ cache' = [cache EXCEPT ![w] = hub[w]]
    /\ watch' = [watch EXCEPT ![w] = "current"]
    /\ queue' = IF watch[w] = "event" THEN queue \cup {w} ELSE queue
    /\ UNCHANGED <<hubVars, pc, job, spokeVars, budget>>

\* A user writes the Work: the copy of a reconcile in progress is outdated.
UserStores(w, x) ==
    /\ HubStores(w, x, TRUE)
    /\ job' = [job EXCEPT ![w].fresh = FALSE]
    /\ UNCHANGED <<cache, queue, pc, spokeVars>>

CreateWork(w) ==
    /\ hub[w].phase = "absent"
    /\ Spend("create")
    /\ \E spec \in Workload :
           UserStores(w, [phase |-> "live", fin |-> FALSE, spec |-> spec])
    /\ UNCHANGED status

EditWork(w) ==
    /\ hub[w].phase # "absent"
    /\ Spend("edit")
    /\ \E spec \in Workload \ {hub[w].spec} : UserStores(w, [hub[w] EXCEPT !.spec = spec])
    /\ status' = [status EXCEPT ![w].observed = FALSE]

\* With a finalizer the Work is marked, without one it is gone.
DeleteWork(w) ==
    /\ hub[w].phase = "live"
    /\ Spend("delete")
    /\ IF hub[w].fin
       THEN /\ UserStores(w, [hub[w] EXCEPT !.phase = "deleting"])
            /\ status' = [status EXCEPT ![w].observed = FALSE]
       ELSE /\ UserStores(w, NoWork)
            /\ status' = [status EXCEPT ![w] = NoStatus]

LiveOwners(o) == {owner \in o.owners : aw[owner.work].uid = owner.uid}

\* The spoke's garbage collector drops references to owners that are gone, and
\* deletes an object whose owners are all gone.
GarbageCollect(r) ==
    /\ LiveOwners(res[r]) # res[r].owners
    /\ res' = [res EXCEPT ![r] = IF LiveOwners(@) = {} THEN NoObject
                                 ELSE [@ EXCEPT !.owners = LiveOwners(res[r])]]
    /\ UNCHANGED <<hubVars, cache, watch, queue, pc, job, aw, lastUid, budget>>

ThirdParty(kind) ==
    /\ kind \in Tampering
    /\ Spend("tamper")
    /\ UNCHANGED <<hubVars, cache, watch, queue, pc, job, lastUid>>

TamperDeleteObject(r) ==
    /\ ThirdParty("deleteObject")
    /\ Exists(res[r])
    /\ res' = [res EXCEPT ![r] = NoObject]
    /\ UNCHANGED aw

TamperEditObject(r) ==
    /\ ThirdParty("editObject")
    /\ Exists(res[r])
    /\ \E c \in Content \ {res[r].content} : res' = [res EXCEPT ![r].content = c]
    /\ UNCHANGED aw

TamperCreateObject(r) ==
    /\ ThirdParty("createObject")
    /\ ~Exists(res[r])
    /\ \E c \in Content : res' = [res EXCEPT ![r] = [NoObject EXCEPT !.content = c]]
    /\ UNCHANGED aw

TamperDeleteAppliedWork(w) ==
    /\ ThirdParty("deleteAppliedWork")
    /\ aw[w].uid # 0
    /\ aw' = [aw EXCEPT ![w] = NoAppliedWork]
    /\ UNCHANGED res

\* The process restarts: locals and queue are lost, the informer lists the hub
\* and delivers a create event for every Work.
Restart ==
    /\ Spend("crash")
    /\ pc' = [w \in Work |-> "idle"]
    /\ job' = [w \in Work |-> NoJob]
    /\ cache' = hub
    /\ watch' = [w \in Work |-> "current"]
    /\ queue' = {w \in Work : hub[w].phase # "absent"}
    /\ UNCHANGED <<hubVars, spokeVars>>

-----------------------------------------------------------------------------
Init ==
    /\ hub = [w \in Work |-> NoWork]
    /\ status = [w \in Work |-> NoStatus]
    /\ cache = [w \in Work |-> NoWork]
    /\ watch = [w \in Work |-> "current"]
    /\ queue = {}
    /\ pc = [w \in Work |-> "idle"]
    /\ job = [w \in Work |-> NoJob]
    /\ aw = [w \in Work |-> NoAppliedWork]
    /\ lastUid = 0
    /\ res = [r \in Resource |-> NoObject]
    /\ budget = Budget

\* A step of the reconcile of w whose call, if it makes one, has this reply.
Step(w, reply) ==
    \/ GetAppliedWork(w, reply)
    \/ CreateAppliedWork(w, reply)
    \/ AddFinalizer(w, reply)
    \/ \E r \in Resource : GetManifest(w, r, reply)
    \/ CreateManifest(w, reply)
    \/ PatchManifest(w, reply)
    \/ UpdateWorkStatus(w, reply)
    \/ \E r \in Resource : GetNewManifest(w, r, reply)
    \/ \E r \in Resource : GetStaleManifest(w, r, reply)
    \/ DeleteStaleManifest(w, reply)
    \/ ReleaseStaleManifest(w, reply)
    \/ UpdateAppliedWork(w, reply)
    \/ DeleteAppliedWork(w, reply)
    \/ RemoveFinalizer(w, reply)

User(w) == CreateWork(w) \/ EditWork(w) \/ DeleteWork(w)

Tamper == \/ \E r \in Resource : \/ TamperDeleteObject(r)
                                 \/ TamperEditObject(r)
                                 \/ TamperCreateObject(r)
          \/ \E w \in Work : TamperDeleteAppliedWork(w)

Next ==
    \/ \E w \in Work : Reconcile(w) \/ AbandonSync(w) \/ CacheSync(w) \/ User(w)
    \/ \E w \in Work, reply \in Reply : Step(w, reply)
    \/ \E r \in Resource : GarbageCollect(r)
    \/ Tamper
    \/ Restart

\* A worker goroutine goes on with the reconcile it runs and the API servers
\* answer; a queued key is taken in turn; informer and garbage collector run.
Fairness ==
    /\ \A w \in Work : /\ WF_vars(Reconcile(w))
                       /\ WF_vars(Step(w, "answer") \/ AbandonSync(w))
                       /\ WF_vars(CacheSync(w))
    /\ \A r \in Resource : WF_vars(GarbageCollect(r))

SafeSpec == Init /\ [][Next]_vars
Spec == SafeSpec /\ Fairness

-----------------------------------------------------------------------------
(* Properties.                                                             *)

\* The type invariant. An object that does not exist has no owners and an
\* AppliedWork that does not exist has no records, so that neither can come
\* into being by a write that was meant for an existing one.
TypeOK ==
    /\ hub \in [Work -> WorkObject]
    /\ status \in [Work -> Status]
    /\ cache \in [Work -> WorkObject]
    /\ watch \in [Work -> {"current", "behind", "event"}]
    /\ queue \subseteq Work
    /\ pc \in [Work -> PC]
    /\ job \in [Work -> Job]
    /\ aw \in [Work -> AppliedWork]
    /\ lastUid \in Nat
    /\ res \in [Resource -> Object]
    /\ budget \in [Disturbance -> Nat]
    /\ \A w \in Work : aw[w].uid = 0 => aw[w] = NoAppliedWork
    /\ \A r \in Resource : ~Exists(res[r]) => res[r] = NoObject

\* A Work that carries the finalizer and is not being deleted has its
\* AppliedWork on the spoke, whatever call failed or was repeated and wherever
\* the process was restarted ("it should always exist unless it's deleted
\* behind our back", apply_controller.go:220).
FinalizerGuardsAppliedWork ==
    \A w \in Work : hub[w].phase = "live" /\ hub[w].fin => aw[w].uid # 0

\* An object owned by an existing AppliedWork belongs to a Work that carries
\* the finalizer: no Work can vanish from the hub while the spoke holds
\* something that nothing would ever collect.
OwnedOnlyUnderFinalizer ==
    \A r \in Resource : \A o \in LiveOwners(res[r]) : hub[o.work].fin

\* Whatever the controller wrote has an owner, so that it can be collected.
NeverOrphaned ==
    \A r \in Resource : res[r].hash # {} => res[r].owners # {}

\* A Work says Applied for its current generation only while each of its
\* manifests is on the spoke as the Work states it, owned by its AppliedWork,
\* as long as third parties leave the spoke alone.
Delivered(w, r) ==
    /\ res[r].content = hub[w].spec[r]
    /\ [work |-> w, uid |-> aw[w].uid] \in res[r].owners
AppliedIsTrue ==
    \A w \in Work :
        /\ hub[w].phase = "live" /\ status[w].observed /\ status[w].applied
        /\ budget["tamper"] = Budget["tamper"]
        => \A r \in Manifests(hub[w].spec) : Delivered(w, r)

\* No Work is forgotten: while it exists it is queued, being reconciled, or an
\* event is on its way that will queue it ("we periodically reconcile the
\* work", apply_controller.go:171).
NeverForgotten ==
    \A w \in Work :
        hub[w].phase # "absent" => w \in queue \/ pc[w] # "idle" \/ watch[w] = "event"

\* An object that no AppliedWork owns is left alone ("skip applying a not managed
\* manifest", apply_controller.go:349): only a third party changes it, or a call
\* that was decided on when the name was that of another object, a managed one.
UnmanagedUntouched ==
    [][\A r \in Resource :
           Exists(res[r]) /\ ~Managed(res[r]) /\ res'[r] # res[r]
               => \/ budget'["tamper"] < budget["tamper"]
                  \/ \E w \in Work : job[w].at = r /\ Managed(job[w].cur)]_vars

\* Giving up a shared object never costs another Work its reference.
ReleaseSparesOthers ==
    [][\A w \in Work : pc[w] = "release" /\ pc'[w] = "sync" =>
           \A r \in Resource : {o \in res'[r].owners : o.work # w}
                             = {o \in res[r].owners : o.work # w}]_vars

\* The controller follows the protocol of WorkLifecycle step by step: the
\* AppliedWork is there before the finalizer and gone before it, is deleted only
\* while its Work is, and owns objects only while its Work is held ("we create
\* the appliedWork before setting the finalizer", apply_controller.go:220).
Lifecycle == INSTANCE WorkLifecycle WITH
    phase    <- [w \in Work |-> hub[w].phase],
    held     <- [w \in Work |-> hub[w].fin],
    anchored <- [w \in Work |-> aw[w].uid # 0],
    owners   <- [r \in Resource |-> {o.work : o \in LiveOwners(res[r])}]
FollowsLifecycle == Lifecycle!Spec

\* Once nothing disturbs it any more, the controller brings the spoke to what
\* a live Work asks for, says so in the status, and records every object of
\* the Work for the day it is dropped from it.
Reflected(w) ==
    /\ status[w] = [observed |-> TRUE, applied |-> TRUE, ok |-> Manifests(hub[w].spec)]
    /\ aw[w].recorded = Manifests(hub[w].spec)
    /\ \A r \in Manifests(hub[w].spec) : Delivered(w, r)
EventuallyReflected == \A w \in Work : <>[](hub[w].phase = "live" => Reflected(w))

\* A deleted Work leaves the hub, and what it owned leaves the spoke.
OwnedBy(w) == {r \in Resource : \E o \in res[r].owners : o.work = w}
DeletionCleansUp ==
    \A w \in Work : hub[w].phase # "live" ~>
        \/ hub[w].phase = "live"
        \/ hub[w].phase = "absent" /\ OwnedBy(w) = {}

-----------------------------------------------------------------------------
(* Claims of the repository that the code does not keep. Each has a run    *)
(* that shows how.                                                         *)

\* "Track the deployed resource on a cluster so the control loop could garbage
\* collect these resources" (20210219-work-api.md:37): what a Work no longer
\* asks for does not stay on the spoke for ever.
DroppedIsRemoved ==
    \A w \in Work : <>[](hub[w].phase = "live" => OwnedBy(w) \subseteq Manifests(hub[w].spec))

\* "we support one manifest belong to multiple work so it contains the union
\* of all the appliedWork" (apply_controller.go:372): a Work that is Applied is
\* among the owners of those of its manifests that are on the spoke.
UnionOfOwners ==
    \A w \in Work : hub[w].phase = "live" /\ status[w].observed /\ status[w].applied
        => \A r \in Manifests(hub[w].spec) :
               Exists(res[r]) => w \in {o.work : o \in LiveOwners(res[r])}

\* "Should delete the shared manifest from the member cluster after it is
\* removed from all works" (applied_work_syncer_integration_test.go:157): the
\* controller deletes no object that another existing AppliedWork owns.
SharedIsKept ==
    [][\A w \in Work : pc[w] = "deleteObject" /\ pc'[w] = "sync" =>
           \A r \in Resource : \A o \in LiveOwners(res[r]) :
               o.work # w => o \in res'[r].owners]_vars
=============================================================================
