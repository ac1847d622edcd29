-------------------------- MODULE ApplyWork_proofs --------------------------
(***************************************************************************)
(* The types of ApplyWork, for any numbers of Works, resources, workers    *)
(* and disturbances.                                                       *)
(***************************************************************************)
EXTENDS ApplyWork, TLAPS

USE BuiltInAssumption, AbsentAssumption, MaxConcurrentAssumption, BudgetAssumption

-----------------------------------------------------------------------------
(* Types. A reconcile that is about to write an object holds a resource and, *)
(* where it writes a manifest, one that the Work has a manifest for.         *)

Shape(label, j) ==
    /\ label \in {"apply", "createObject", "patch"}
           => j.todo \subseteq Manifests(j.snap.spec)
    /\ label \in {"createObject", "patch"} => j.at \in Manifests(j.snap.spec)
    /\ label \in {"deleteObject", "release"} => j.at \in Resource

JobShape == \A w \in Work : Shape(pc[w], job[w])

TypeInv == TypeOK /\ JobShape

LEMMA NoWorkType == NoWork \in WorkObject
BY DEF NoWork, WorkObject, Workload

LEMMA NoObjectType == NoObject \in Object
BY DEF NoObject, Object

LEMMA NoJobType == NoJob \in Job
BY NoWorkType, NoObjectType DEF NoJob, Job

LEMMA InitTypeInv == Init => TypeInv
<1> SUFFICES ASSUME Init PROVE TypeInv
  OBVIOUS
<1>1. TypeOK
  BY NoWorkType, NoObjectType, NoJobType
     DEF Init, TypeOK, NoStatus, Status, NoAppliedWork, AppliedWork, PC, Exists
<1>2. JobShape
  BY DEF Init, JobShape, Shape
<1> QED
  BY <1>1, <1>2 DEF TypeInv

\* How a reconcile moves on keeps the types and shapes of its variables.
LEMMA GotoType ==
    ASSUME TypeInv, NEW w \in Work, NEW label \in PC, NEW j \in Job,
           Shape(label, j), Goto(w, label, j)
    PROVE  /\ pc' \in [Work -> PC]
           /\ job' \in [Work -> Job]
           /\ queue' \subseteq Work
           /\ JobShape'
<1>1. \A v \in Work \ {w} : pc'[v] = pc[v] /\ job'[v] = job[v]
  BY DEF TypeInv, TypeOK, Goto
<1>2. pc'[w] = label /\ job'[w] = j
  BY DEF TypeInv, TypeOK, Goto
<1>3. JobShape'
  BY <1>1, <1>2 DEF TypeInv, JobShape, Shape
<1> QED
  BY <1>3 DEF TypeInv, TypeOK, Goto

LEMMA ReturnType ==
    ASSUME TypeInv, NEW w \in Work, NEW again \in BOOLEAN, Return(w, again)
    PROVE  /\ pc' \in [Work -> PC]
           /\ job' \in [Work -> Job]
           /\ queue' \subseteq Work
           /\ JobShape'
<1>1. \A v \in Work \ {w} : pc'[v] = pc[v] /\ job'[v] = job[v]
  BY DEF TypeInv, TypeOK, Return
<1>2. pc'[w] = "idle"
  BY DEF TypeInv, TypeOK, Return
<1>3. JobShape'
  BY <1>1, <1>2 DEF TypeInv, JobShape, Shape
<1> QED
  BY <1>3, NoJobType DEF TypeInv, TypeOK, Return, PC

LEMMA SpendType ==
    ASSUME TypeOK, NEW kind \in Disturbance, Spend(kind)
    PROVE  budget' \in [Disturbance -> Nat]
BY DEF TypeOK, Spend

LEMMA CallType ==
    ASSUME TypeOK, NEW name, NEW reply, Call(name, reply)
    PROVE  budget' \in [Disturbance -> Nat]
<1>1. CASE UNCHANGED budget
  BY <1>1 DEF TypeOK
<1>2. CASE Spend("fault")
  BY <1>2, SpendType DEF Disturbance
<1> QED
  BY <1>1, <1>2 DEF Call

LEMMA StartApplyType ==
    ASSUME TypeOK, NEW w \in Work, NEW uid \in Nat, NEW seen \in SUBSET Resource
    PROVE  [job[w] EXCEPT !.uid = uid, !.seen = seen,
                          !.todo = Manifests(job[w].snap.spec)] \in Job
<1>1. job[w] \in Job
  BY DEF TypeOK
<1>2. Manifests(job[w].snap.spec) \in SUBSET Resource
  BY DEF Manifests
<1> QED
  BY <1>1, <1>2 DEF Job

LEMMA MeType ==
    ASSUME TypeOK, NEW w \in Work, job[w].uid # 0
    PROVE  Me(w) \in Owner
BY DEF TypeOK, Job, Me, Owner

LEMMA HubStoresType ==
    ASSUME TypeOK, NEW w \in Work, NEW x \in WorkObject, NEW new \in BOOLEAN,
           HubStores(w, x, new)
    PROVE  /\ hub' \in [Work -> WorkObject]
           /\ watch' \in [Work -> {"current", "behind", "event"}]
BY DEF TypeOK, HubStores

\* The part of the invariant that is about the workers.
WorkerTypes == /\ queue \subseteq Work
               /\ pc \in [Work -> PC]
               /\ job \in [Work -> Job]
               /\ JobShape

LEMMA ReconcileType ==
    ASSUME TypeInv, NEW w \in Work, Reconcile(w)
    PROVE  TypeInv'
<1>1. cache[w] \in WorkObject /\ (watch[w] = "current") \in BOOLEAN
  BY DEF TypeInv, TypeOK
<1>2. EntryPoint(cache[w]) \in {"idle", "get", "create", "collect"}
  BY <1>1 DEF EntryPoint, WorkObject
<1>3. [NoJob EXCEPT !.snap = cache[w], !.fresh = (watch[w] = "current")] \in Job
  BY <1>1, NoJobType DEF Job
<1>4. pc' \in [Work -> PC] /\ job' \in [Work -> Job]
  BY <1>2, <1>3 DEF TypeInv, TypeOK, Reconcile, PC
<1>5. JobShape'
  BY <1>2, <1>4 DEF TypeInv, TypeOK, JobShape, Shape, Reconcile
<1> QED
  BY <1>4, <1>5 DEF TypeInv, TypeOK, Reconcile, hubVars, spokeVars

LEMMA GetAppliedWorkType ==
    ASSUME TypeInv, NEW w \in Work, NEW reply \in Reply, GetAppliedWork(w, reply)
    PROVE  TypeInv'
<1>1. aw[w].uid \in Nat /\ aw[w].recorded \in SUBSET Resource
  BY DEF TypeInv, TypeOK, AppliedWork
<1>2. WorkerTypes'
  <2>1. CASE Return(w, TRUE)
    BY <2>1, ReturnType DEF WorkerTypes
  <2>2. CASE Goto(w, "create", job[w])
    BY <2>2, GotoType DEF TypeInv, TypeOK, WorkerTypes, PC, Shape
  <2>3. CASE StartApply(w, aw[w].uid, aw[w].recorded)
    <3> DEFINE j == [job[w] EXCEPT !.uid = aw[w].uid, !.seen = aw[w].recorded,
                                   !.todo = Manifests(job[w].snap.spec)]
    <3>1. j \in Job
      BY <1>1, StartApplyType DEF TypeInv
    <3>2. Shape("apply", j)
      BY <3>1 DEF TypeInv, TypeOK, Job, Shape
    <3> QED
      BY <2>3, <3>1, <3>2, GotoType DEF StartApply, WorkerTypes, PC
  <2> QED
    BY <2>1, <2>2, <2>3 DEF GetAppliedWork, ReadReply
<1>3. budget' \in [Disturbance -> Nat]
  BY CallType DEF GetAppliedWork, TypeInv
<1> QED
  BY <1>2, <1>3 DEF GetAppliedWork, TypeInv, TypeOK, WorkerTypes, hubVars, spokeVars

LEMMA CreateAppliedWorkType ==
    ASSUME TypeInv, NEW w \in Work, NEW reply \in Reply, CreateAppliedWork(w, reply)
    PROVE  TypeInv'
<1> DEFINE created == reply # "error" /\ aw[w].uid = 0
           uid == IF created THEN lastUid + 1 ELSE 0
<1>1. uid \in Nat /\ lastUid + 1 \in Nat \ {0}
  BY DEF TypeInv, TypeOK
<1>2. /\ aw' \in [Work -> AppliedWork]
      /\ lastUid' \in Nat
      /\ \A v \in Work : aw'[v].uid = 0 => aw'[v] = NoAppliedWork
  <2>1. CASE created
    <3>1. aw' = [aw EXCEPT ![w] = [uid |-> lastUid + 1, recorded |-> {}]] /\ lastUid' = lastUid + 1
      BY <2>1 DEF CreateAppliedWork
    <3> QED
      BY <3>1, <1>1 DEF TypeInv, TypeOK, AppliedWork
  <2>2. CASE ~created
    <3>1. aw' = aw /\ lastUid' = lastUid
      BY <2>2 DEF CreateAppliedWork
    <3> QED
      BY <3>1 DEF TypeInv, TypeOK
  <2> QED
    BY <2>1, <2>2
<1>3. WorkerTypes'
  <2>1. CASE Return(w, TRUE)
    BY <2>1, ReturnType DEF WorkerTypes
  <2>2. CASE StartApply(w, uid, {})
    <3> DEFINE j == [job[w] EXCEPT !.uid = uid, !.seen = {},
                                   !.todo = Manifests(job[w].snap.spec)]
    <3>1. j \in Job
      BY <1>1, StartApplyType DEF TypeInv
    <3>2. Shape("apply", j)
      BY <3>1 DEF TypeInv, TypeOK, Job, Shape
    <3> QED
      BY <2>2, <3>1, <3>2, GotoType DEF StartApply, WorkerTypes, PC
  <2>3. CASE Goto(w, "finalize", [job[w] EXCEPT !.uid = uid])
    <3>1. [job[w] EXCEPT !.uid = uid] \in Job
      <4>1. job[w] \in Job
        BY DEF TypeInv, TypeOK
      <4> QED
        BY <4>1, <1>1 DEF Job
    <3> QED
      BY <2>3, <3>1, GotoType DEF WorkerTypes, PC, Shape
  <2>4. job[w].snap.fin \in BOOLEAN
    BY DEF TypeInv, TypeOK, Job, WorkObject
  <2> QED
    BY <2>1, <2>2, <2>3, <2>4 DEF CreateAppliedWork
<1>4. budget' \in [Disturbance -> Nat]
  BY CallType DEF CreateAppliedWork, TypeInv
<1> QED
  BY <1>2, <1>3, <1>4 DEF CreateAppliedWork, TypeInv, TypeOK, WorkerTypes, hubVars

LEMMA AddFinalizerType ==
    ASSUME TypeInv, NEW w \in Work, NEW reply \in Reply, AddFinalizer(w, reply)
    PROVE  TypeInv'
<1> DEFINE work == [job[w].snap EXCEPT !.fin = TRUE]
           j == [job[w] EXCEPT !.snap = work, !.todo = Manifests(work.spec)]
<1>1. job[w] \in Job /\ work \in WorkObject
  <2>1. job[w] \in Job
    BY DEF TypeInv, TypeOK
  <2>2. job[w].snap \in WorkObject
    BY <2>1 DEF Job
  <2> QED
    BY <2>1, <2>2 DEF WorkObject
<1>2. j \in Job
  <2>1. Manifests(work.spec) \in SUBSET Resource
    BY DEF Manifests
  <2> QED
    BY <1>1, <2>1 DEF Job
<1>3. Shape("apply", j)
  BY <1>1, <1>2 DEF Shape, Job
<1>4. WorkerTypes'
  <2>1. CASE Return(w, TRUE)
    BY <2>1, ReturnType DEF WorkerTypes
  <2>2. CASE Goto(w, "apply", j)
    BY <2>2, <1>2, <1>3, GotoType DEF WorkerTypes, PC
  <2> QED
    BY <2>1, <2>2 DEF AddFinalizer
<1>5. hub' \in [Work -> WorkObject] /\ watch' \in [Work -> {"current", "behind", "event"}]
  <2>1. CASE HubStores(w, work, FALSE)
    BY <2>1, <1>1, HubStoresType DEF TypeInv
  <2>2. CASE UNCHANGED <<hub, watch>>
    BY <2>2 DEF TypeInv, TypeOK
  <2> QED
    BY <2>1, <2>2 DEF AddFinalizer
<1>6. budget' \in [Disturbance -> Nat]
  BY CallType DEF AddFinalizer, TypeInv
<1> QED
  BY <1>4, <1>5, <1>6 DEF AddFinalizer, TypeInv, TypeOK, WorkerTypes, spokeVars

\* The two ways the visit of a manifest ends.
LEMMA VisitType ==
    ASSUME TypeInv, NEW w \in Work, NEW r \in Resource,
           pc[w] \in {"apply", "createObject", "patch"},
           \/ Goto(w, "apply", Applied(w, r))
           \/ Goto(w, "apply", NotApplied(w, r))
    PROVE  WorkerTypes'
<1>1. job[w] \in Job /\ job[w].todo \subseteq Manifests(job[w].snap.spec)
  BY DEF TypeInv, TypeOK, JobShape, Shape
<1>2. Applied(w, r) \in Job /\ Shape("apply", Applied(w, r))
  <2>1. Applied(w, r) \in Job
    BY <1>1, NoObjectType DEF Applied, Job
  <2>2. /\ Applied(w, r).todo = job[w].todo \ {r}
        /\ Applied(w, r).snap = job[w].snap
    BY <1>1 DEF Applied, Job
  <2> QED
    BY <1>1, <2>1, <2>2 DEF Shape
<1>3. NotApplied(w, r) \in Job /\ Shape("apply", NotApplied(w, r))
  <2>1. NotApplied(w, r) \in Job
    BY <1>1, NoObjectType DEF NotApplied, Job
  <2>2. /\ NotApplied(w, r).todo = job[w].todo \ {r}
        /\ NotApplied(w, r).snap = job[w].snap
    BY <1>1 DEF NotApplied, Job
  <2> QED
    BY <1>1, <2>1, <2>2 DEF Shape
<1> QED
  BY <1>2, <1>3, GotoType DEF WorkerTypes, PC

LEMMA GetManifestType ==
    ASSUME TypeInv, NEW w \in Work, NEW r \in Resource, NEW reply \in Reply,
           GetManifest(w, r, reply)
    PROVE  TypeInv'
<1> DEFINE read == [job[w] EXCEPT !.at = r, !.cur = res[r]]
<1>1. job[w] \in Job /\ job[w].todo \subseteq Manifests(job[w].snap.spec)
  BY DEF TypeInv, TypeOK, JobShape, Shape, GetManifest
<1>2. read \in Job /\ Shape("createObject", read) /\ Shape("patch", read)
  <2>1. read \in Job
    BY <1>1 DEF TypeInv, TypeOK, Job
  <2>2. read.at = r /\ read.todo = job[w].todo /\ read.snap = job[w].snap
    BY <1>1 DEF Job
  <2> QED
    BY <1>1, <2>1, <2>2 DEF Shape, GetManifest
<1>3. WorkerTypes'
  <2>1. CASE Goto(w, "createObject", read)
    BY <2>1, <1>2, GotoType DEF WorkerTypes, PC
  <2>2. CASE Goto(w, "patch", read)
    BY <2>2, <1>2, GotoType DEF WorkerTypes, PC
  <2>3. CASE Goto(w, "apply", Applied(w, r)) \/ Goto(w, "apply", NotApplied(w, r))
    BY <2>3, VisitType DEF GetManifest
  <2> QED
    BY <2>1, <2>2, <2>3 DEF GetManifest, ReadReply, Managed
<1>4. budget' \in [Disturbance -> Nat]
  BY CallType DEF GetManifest, TypeInv
<1> QED
  BY <1>3, <1>4 DEF GetManifest, TypeInv, TypeOK, WorkerTypes, hubVars, spokeVars

LEMMA CreateManifestType ==
    ASSUME TypeInv, NEW w \in Work, NEW reply \in Reply, CreateManifest(w, reply)
    PROVE  TypeInv'
<1> DEFINE r == job[w].at
           new == [content |-> Wanted(w), owners |-> {Me(w)}, last |-> {Me(w)},
                   hash |-> {<<Me(w), Wanted(w)>>}]
           created == reply # "error" /\ ~Exists(res[r]) /\ job[w].uid # 0
<1>1. pc[w] = "createObject"
  BY DEF CreateManifest
<1>2. r \in Resource /\ Wanted(w) \in Content
  <2>1. r \in Manifests(job[w].snap.spec)
    BY <1>1 DEF TypeInv, JobShape, Shape
  <2>2. job[w].snap.spec \in Workload
    BY DEF TypeInv, TypeOK, Job, WorkObject
  <2> QED
    BY <2>1, <2>2 DEF Manifests, Workload, Wanted
<1>3. /\ res' \in [Resource -> Object]
      /\ \A x \in Resource : ~Exists(res'[x]) => res'[x] = NoObject
  <2>1. CASE created
    <3>1. Me(w) \in Owner
      BY <2>1, MeType DEF TypeInv
    <3>2. new \in Object
      BY <3>1, <1>2 DEF Object
    <3>3. res' = [res EXCEPT ![r] = new]
      BY <2>1 DEF CreateManifest
    <3> QED
      BY <3>2, <3>3, <1>2 DEF TypeInv, TypeOK, Exists
  <2>2. CASE ~created
    <3>1. res' = res
      BY <2>2 DEF CreateManifest
    <3> QED
      BY <3>1 DEF TypeInv, TypeOK
  <2> QED
    BY <2>1, <2>2
<1>4. WorkerTypes'
  <2>1. Goto(w, "apply", Applied(w, r)) \/ Goto(w, "apply", NotApplied(w, r))
    BY DEF CreateManifest
  <2> QED
    BY <2>1, <1>1, <1>2, VisitType
<1>5. budget' \in [Disturbance -> Nat]
  BY CallType DEF CreateManifest, TypeInv
<1> QED
  BY <1>3, <1>4, <1>5 DEF CreateManifest, TypeInv, TypeOK, WorkerTypes, hubVars

LEMMA MergedOwnersType ==
    ASSUME NEW owners \in SUBSET Owner, NEW me \in Owner,
           NEW merged \in MergedOwners(owners, me)
    PROVE  /\ merged \in SUBSET Owner
           /\ merged \subseteq owners \cup {me}
BY DEF MergedOwners, SameOwner

LEMMA PatchedOwnersBound ==
    ASSUME NEW r, NEW merged, NEW cur, NEW actual
    PROVE  PatchedOwners(r, merged, cur, actual) \subseteq actual.owners \cup merged
BY DEF PatchedOwners

LEMMA PatchManifestType ==
    ASSUME TypeInv, NEW w \in Work, NEW reply \in Reply, PatchManifest(w, reply)
    PROVE  TypeInv'
<1> DEFINE r == job[w].at
<1>1. pc[w] = "patch"
  BY DEF PatchManifest
<1>2. r \in Resource /\ Wanted(w) \in Content /\ job[w].cur \in Object
  <2>1. r \in Manifests(job[w].snap.spec)
    BY <1>1 DEF TypeInv, JobShape, Shape
  <2>2. job[w].snap.spec \in Workload /\ job[w].cur \in Object
    BY DEF TypeInv, TypeOK, Job, WorkObject
  <2> QED
    BY <2>1, <2>2 DEF Manifests, Workload, Wanted
<1>3. /\ res' \in [Resource -> Object]
      /\ \A x \in Resource : ~Exists(res'[x]) => res'[x] = NoObject
  <2>1. CASE reply # "error" /\ Patchable(w)
    <3>1. PICK merged \in MergedOwners(job[w].cur.owners, Me(w)) :
              res' = [res EXCEPT ![r] = Patched(r, Wanted(w), Me(w), merged, job[w].cur, res[r])]
      BY <2>1 DEF PatchManifest
    <3> DEFINE new == Patched(r, Wanted(w), Me(w), merged, job[w].cur, res[r])
    <3>2. Me(w) \in Owner
      BY <2>1, MeType DEF TypeInv, Patchable
    <3>3. merged \in SUBSET Owner
      BY <1>2, <3>2, MergedOwnersType DEF Object
    <3>4. res[r] \in Object /\ res[r].content # Absent
      BY <1>2, <2>1 DEF TypeInv, TypeOK, Patchable, Exists
    <3>5. PatchedOwners(r, merged, job[w].cur, res[r]) \in SUBSET Owner
      BY <3>3, <3>4, PatchedOwnersBound DEF Object
    <3>6. (IF job[w].cur.content = Wanted(w) THEN res[r].content ELSE Wanted(w)) \in Content
      BY <1>2, <3>4 DEF Object
    <3>7. new \in Object /\ new.content # Absent
      BY <3>2, <3>3, <3>5, <3>6, <1>2 DEF Patched, Object
    <3> QED
      BY <3>1, <3>7, <1>2 DEF TypeInv, TypeOK, Exists
  <2>2. CASE ~(reply # "error" /\ Patchable(w))
    <3>1. res' = res
      BY <2>2 DEF PatchManifest
    <3> QED
      BY <3>1 DEF TypeInv, TypeOK
  <2> QED
    BY <2>1, <2>2
<1>4. WorkerTypes'
  <2>1. Goto(w, "apply", Applied(w, r)) \/ Goto(w, "apply", NotApplied(w, r))
    BY DEF PatchManifest
  <2> QED
    BY <2>1, <1>1, <1>2, VisitType
<1>5. budget' \in [Disturbance -> Nat]
  BY CallType DEF PatchManifest, TypeInv
<1> QED
  BY <1>3, <1>4, <1>5 DEF PatchManifest, TypeInv, TypeOK, WorkerTypes, hubVars

LEMMA UpdateWorkStatusType ==
    ASSUME TypeInv, NEW w \in Work, NEW reply \in Reply, UpdateWorkStatus(w, reply)
    PROVE  TypeInv'
<1> DEFINE j == job[w]
           wanted == Manifests(j.snap.spec)
           new == [observed |-> TRUE, applied |-> j.ok = wanted, ok |-> j.ok]
           next == [j EXCEPT !.todo = j.ok \ j.seen, !.keep = j.ok \cap j.seen,
                             !.stale = j.seen \ wanted]
<1>1. j \in Job
  BY DEF TypeInv, TypeOK
<1>2. j.ok \in SUBSET Resource /\ j.seen \in SUBSET Resource /\ j.snap \in WorkObject
  BY <1>1 DEF Job
<1>3. new \in Status
  BY <1>2 DEF Status
<1>4. next \in Job
  BY <1>1, <1>2 DEF Job
<1>5. WorkerTypes'
  <2>1. CASE Return(w, TRUE)
    BY <2>1, ReturnType DEF WorkerTypes
  <2>2. CASE Goto(w, "sync", next)
    BY <2>2, <1>4, GotoType DEF WorkerTypes, PC, Shape
  <2> QED
    BY <2>1, <2>2 DEF UpdateWorkStatus
<1>6. /\ hub' \in [Work -> WorkObject]
      /\ watch' \in [Work -> {"current", "behind", "event"}]
      /\ status' \in [Work -> Status]
  <2>1. CASE HubStores(w, j.snap, FALSE) /\ status' = [status EXCEPT ![w] = new]
    BY <2>1, <1>2, <1>3, HubStoresType DEF TypeInv, TypeOK
  <2>2. CASE UNCHANGED <<hub, status, watch>>
    BY <2>2 DEF TypeInv, TypeOK
  <2> QED
    BY <2>1, <2>2 DEF UpdateWorkStatus
<1>7. budget' \in [Disturbance -> Nat]
  BY CallType DEF UpdateWorkStatus, TypeInv
<1> QED
  BY <1>5, <1>6, <1>7 DEF UpdateWorkStatus, TypeInv, TypeOK, WorkerTypes, spokeVars

LEMMA GetNewManifestType ==
    ASSUME TypeInv, NEW w \in Work, NEW r \in Resource, NEW reply \in Reply,
           GetNewManifest(w, r, reply)
    PROVE  TypeInv'
<1> DEFINE found == [job[w] EXCEPT !.todo = @ \ {r}, !.keep = @ \cup {r}]
           gone == [job[w] EXCEPT !.todo = @ \ {r}]
<1>1. job[w] \in Job
  BY DEF TypeInv, TypeOK
<1>2. found \in Job /\ gone \in Job
  BY <1>1 DEF Job
<1>3. WorkerTypes'
  <2>1. CASE Return(w, FALSE)
    BY <2>1, ReturnType DEF WorkerTypes
  <2>2. CASE Goto(w, "sync", found) \/ Goto(w, "sync", gone)
    BY <2>2, <1>2, GotoType DEF WorkerTypes, PC, Shape
  <2> QED
    BY <2>1, <2>2 DEF GetNewManifest, ReadReply
<1>4. budget' \in [Disturbance -> Nat]
  BY CallType DEF GetNewManifest, TypeInv
<1> QED
  BY <1>3, <1>4 DEF GetNewManifest, TypeInv, TypeOK, WorkerTypes, hubVars, spokeVars

LEMMA GetStaleManifestType ==
    ASSUME TypeInv, NEW w \in Work, NEW r \in Resource, NEW reply \in Reply,
           GetStaleManifest(w, r, reply)
    PROVE  TypeInv'
<1> DEFINE next == [job[w] EXCEPT !.stale = @ \ {r}]
           read == [next EXCEPT !.at = r, !.cur = res[r]]
           owned == IsOwner(res[r].owners, Me(w))
           others == RemainingOwners(res[r].owners, Me(w))
<1>1. job[w] \in Job /\ res[r] \in Object
  BY DEF TypeInv, TypeOK
<1>2. next \in Job /\ [next EXCEPT !.failed = TRUE] \in Job
  BY <1>1 DEF Job
<1>3. read \in Job /\ read.at = r
  BY <1>1, <1>2 DEF Job
<1>4. WorkerTypes'
  <2>1. CASE Goto(w, "sync", next) \/ Goto(w, "sync", [next EXCEPT !.failed = TRUE])
    BY <2>1, <1>2, GotoType DEF WorkerTypes, PC, Shape
  <2>2. CASE Goto(w, "deleteObject", read) \/ Goto(w, "release", read)
    BY <2>2, <1>3, GotoType DEF WorkerTypes, PC, Shape
  <2>3. reply \in {"error", "answer"}
    BY DEF GetStaleManifest, ReadReply
  <2> HIDE DEF next, read, owned, others
  <2>4. CASE reply = "error"
    <3>1. Goto(w, "sync", [next EXCEPT !.failed = TRUE])
      BY <2>4 DEF GetStaleManifest, next
    <3> QED
      BY <3>1, <2>1
  <2>5. CASE reply = "answer"
    <3>1. CASE ~owned
      BY <2>1, <2>5, <3>1 DEF GetStaleManifest, next, owned
    <3>2. CASE owned /\ others = {}
      BY <2>2, <2>5, <3>2 DEF GetStaleManifest, next, read, owned, others
    <3>3. CASE owned /\ others # {}
      BY <2>2, <2>5, <3>3 DEF GetStaleManifest, next, read, owned, others
    <3> QED
      BY <3>1, <3>2, <3>3
  <2> QED
    BY <2>3, <2>4, <2>5
<1>5. budget' \in [Disturbance -> Nat]
  BY CallType DEF GetStaleManifest, TypeInv
<1> QED
  BY <1>4, <1>5 DEF GetStaleManifest, TypeInv, TypeOK, WorkerTypes, hubVars, spokeVars

\* The loop over the stale manifests goes on, with an error or without.
LEMMA SweepType ==
    ASSUME TypeInv, NEW w \in Work, NEW failed \in BOOLEAN,
           Goto(w, "sync", [Done(w) EXCEPT !.failed = failed])
    PROVE  WorkerTypes'
<1>1. job[w] \in Job
  BY DEF TypeInv, TypeOK
<1>2. Done(w) \in Job
  BY <1>1, NoObjectType DEF Done, Job
<1>3. [Done(w) EXCEPT !.failed = failed] \in Job
  BY <1>2 DEF Job
<1> QED
  BY <1>3, GotoType DEF WorkerTypes, PC, Shape

LEMMA RemainingOwnersBound ==
    ASSUME NEW owners, NEW me
    PROVE  RemainingOwners(owners, me) \subseteq owners
BY DEF RemainingOwners, SameOwner

LEMMA DeleteStaleManifestType ==
    ASSUME TypeInv, NEW w \in Work, NEW reply \in Reply, DeleteStaleManifest(w, reply)
    PROVE  TypeInv'
<1>1. job[w].at \in Resource
  BY DEF TypeInv, JobShape, Shape, DeleteStaleManifest
<1>2. /\ res' \in [Resource -> Object]
      /\ \A x \in Resource : ~Exists(res'[x]) => res'[x] = NoObject
  BY <1>1, NoObjectType DEF DeleteStaleManifest, TypeInv, TypeOK
<1>3. WorkerTypes'
  BY SweepType DEF DeleteStaleManifest
<1>4. budget' \in [Disturbance -> Nat]
  BY CallType DEF DeleteStaleManifest, TypeInv
<1> QED
  BY <1>2, <1>3, <1>4 DEF DeleteStaleManifest, TypeInv, TypeOK, WorkerTypes, hubVars

LEMMA ReleaseStaleManifestType ==
    ASSUME TypeInv, NEW w \in Work, NEW reply \in Reply, ReleaseStaleManifest(w, reply)
    PROVE  TypeInv'
<1> DEFINE r == job[w].at
           accepted == reply # "error" /\ Unchanged(r, job[w].cur)
           rest == RemainingOwners(job[w].cur.owners, Me(w))
<1>1. r \in Resource
  BY DEF TypeInv, JobShape, Shape, ReleaseStaleManifest
<1>2. /\ res' \in [Resource -> Object]
      /\ \A x \in Resource : ~Exists(res'[x]) => res'[x] = NoObject
  <2>1. CASE accepted
    <3>1. res' = [res EXCEPT ![r].owners = rest] /\ res[r] = job[w].cur
      BY <2>1 DEF ReleaseStaleManifest, Unchanged
    <3>2. res[r] \in Object
      BY <1>1 DEF TypeInv, TypeOK
    <3>3. rest \subseteq res[r].owners
      BY <3>1, RemainingOwnersBound
    <3> HIDE DEF rest
    <3>4. [res[r] EXCEPT !.owners = rest] \in Object
      BY <3>2, <3>3 DEF Object
    <3>5. ~Exists(res[r]) => [res[r] EXCEPT !.owners = rest] = NoObject
      <4> SUFFICES ASSUME ~Exists(res[r])
                   PROVE  [res[r] EXCEPT !.owners = rest] = NoObject
        OBVIOUS
      <4>1. res[r] = NoObject
        BY <1>1 DEF TypeInv, TypeOK
      <4>2. rest = {}
        BY <4>1, <3>3 DEF NoObject
      <4> QED
        BY <4>1, <4>2 DEF NoObject
    <3>6. [res[r] EXCEPT !.owners = rest].content = res[r].content
      BY <3>2 DEF Object
    <3>7. /\ res' \in [Resource -> Object]
          /\ res'[r] = [res[r] EXCEPT !.owners = rest]
          /\ \A x \in Resource \ {r} : res'[x] = res[x]
      BY <3>1, <3>4, <1>1 DEF TypeInv, TypeOK
    <3> QED
      BY <3>5, <3>6, <3>7 DEF TypeInv, TypeOK, Exists
  <2>2. CASE ~accepted
    <3>1. res' = res
      BY <2>2 DEF ReleaseStaleManifest
    <3> QED
      BY <3>1 DEF TypeInv, TypeOK
  <2> QED
    BY <2>1, <2>2
<1>3. WorkerTypes'
  <2>1. PICK failed \in BOOLEAN : Goto(w, "sync", [Done(w) EXCEPT !.failed = failed])
    <3> DEFINE error == Done(w).failed \/ ~accepted \/ reply # "answer"
    <3>1. Goto(w, "sync", [Done(w) EXCEPT !.failed = error])
      BY DEF ReleaseStaleManifest
    <3>2. error \in BOOLEAN
      BY Zenon
    <3> QED
      BY <3>1, <3>2
  <2> QED
    BY <2>1, SweepType
<1>4. budget' \in [Disturbance -> Nat]
  BY CallType DEF ReleaseStaleManifest, TypeInv
<1> QED
  BY <1>2, <1>3, <1>4 DEF ReleaseStaleManifest, TypeInv, TypeOK, WorkerTypes, hubVars

LEMMA UpdateAppliedWorkType ==
    ASSUME TypeInv, NEW w \in Work, NEW reply \in Reply, UpdateAppliedWork(w, reply)
    PROVE  TypeInv'
<1>1. /\ aw' \in [Work -> AppliedWork]
      /\ \A v \in Work : aw'[v].uid = 0 => aw'[v] = NoAppliedWork
  <2>1. CASE /\ job[w].uid # 0 /\ aw[w].uid = job[w].uid
             /\ aw' = [aw EXCEPT ![w].recorded = job[w].keep]
    <3>1. job[w].keep \in SUBSET Resource
      BY DEF TypeInv, TypeOK, Job
    <3>2. aw[w] \in AppliedWork
      BY DEF TypeInv, TypeOK
    <3>3. /\ [aw[w] EXCEPT !.recorded = job[w].keep] \in AppliedWork
          /\ [aw[w] EXCEPT !.recorded = job[w].keep].uid # 0
      BY <2>1, <3>1, <3>2 DEF AppliedWork
    <3> QED
      BY <2>1, <3>3 DEF TypeInv, TypeOK
  <2>2. CASE UNCHANGED aw
    BY <2>2 DEF TypeInv, TypeOK
  <2> QED
    BY <2>1, <2>2 DEF UpdateAppliedWork
<1>2. WorkerTypes'
  <2>1. Return(w, TRUE)
    BY DEF UpdateAppliedWork, Resync
  <2> QED
    BY <2>1, ReturnType DEF WorkerTypes
<1>3. budget' \in [Disturbance -> Nat]
  BY CallType DEF UpdateAppliedWork, TypeInv
<1> QED
  BY <1>1, <1>2, <1>3 DEF UpdateAppliedWork, TypeInv, TypeOK, WorkerTypes, hubVars

LEMMA AbandonSyncType ==
    ASSUME TypeInv, NEW w \in Work, AbandonSync(w)
    PROVE  TypeInv'
<1>1. WorkerTypes'
  BY ReturnType DEF AbandonSync, WorkerTypes
<1> QED
  BY <1>1 DEF AbandonSync, TypeInv, TypeOK, WorkerTypes, hubVars, spokeVars

LEMMA DeleteAppliedWorkType ==
    ASSUME TypeInv, NEW w \in Work, NEW reply \in Reply, DeleteAppliedWork(w, reply)
    PROVE  TypeInv'
<1>1. /\ aw' \in [Work -> AppliedWork]
      /\ \A v \in Work : aw'[v].uid = 0 => aw'[v] = NoAppliedWork
  BY DEF DeleteAppliedWork, TypeInv, TypeOK, AppliedWork, NoAppliedWork
<1>2. WorkerTypes'
  <2>1. CASE Return(w, TRUE)
    BY <2>1, ReturnType DEF WorkerTypes
  <2>2. CASE Goto(w, "unfinalize", job[w])
    BY <2>2, GotoType DEF TypeInv, TypeOK, WorkerTypes, PC, Shape
  <2> QED
    BY <2>1, <2>2 DEF DeleteAppliedWork
<1>3. budget' \in [Disturbance -> Nat]
  BY CallType DEF DeleteAppliedWork, TypeInv
<1> QED
  BY <1>1, <1>2, <1>3 DEF DeleteAppliedWork, TypeInv, TypeOK, WorkerTypes, hubVars

LEMMA RemoveFinalizerType ==
    ASSUME TypeInv, NEW w \in Work, NEW reply \in Reply, RemoveFinalizer(w, reply)
    PROVE  TypeInv'
<1>1. WorkerTypes'
  <2>1. PICK again \in BOOLEAN : Return(w, again)
    <3>1. (~(Accepted(w, reply) /\ reply = "answer")) \in BOOLEAN
      BY Zenon
    <3> QED
      BY <3>1 DEF RemoveFinalizer
  <2> QED
    BY <2>1, ReturnType DEF WorkerTypes
<1>2. /\ hub' \in [Work -> WorkObject]
      /\ watch' \in [Work -> {"current", "behind", "event"}]
      /\ status' \in [Work -> Status]
  <2>1. CASE HubStores(w, NoWork, TRUE) /\ status' = [status EXCEPT ![w] = NoStatus]
    BY <2>1, NoWorkType, HubStoresType DEF TypeInv, TypeOK, NoStatus, Status
  <2>2. CASE UNCHANGED <<hub, watch, status>>
    BY <2>2 DEF TypeInv, TypeOK
  <2> QED
    BY <2>1, <2>2 DEF RemoveFinalizer
<1>3. budget' \in [Disturbance -> Nat]
  BY CallType DEF RemoveFinalizer, TypeInv
<1> QED
  BY <1>1, <1>2, <1>3 DEF RemoveFinalizer, TypeInv, TypeOK, WorkerTypes, spokeVars

LEMMA CacheSyncType ==
    ASSUME TypeInv, NEW w \in Work, CacheSync(w)
    PROVE  TypeInv'
<1>1. JobShape'
  BY DEF CacheSync, TypeInv, JobShape
<1> QED
  BY <1>1 DEF CacheSync, TypeInv, TypeOK, hubVars, spokeVars

\* Shared by what users do: the copy of a reconcile in progress is outdated.
LEMMA UserStoresType ==
    ASSUME TypeInv, NEW w \in Work, NEW x \in WorkObject, UserStores(w, x),
           status' \in [Work -> Status], NEW kind \in Disturbance, Spend(kind)
    PROVE  TypeInv'
<1>1. job[w] \in Job
  BY DEF TypeInv, TypeOK
<1>2. [job[w] EXCEPT !.fresh = FALSE] \in Job
  BY <1>1 DEF Job
<1>3. job' = [job EXCEPT ![w] = [job[w] EXCEPT !.fresh = FALSE]]
  BY DEF UserStores
<1>4. job' \in [Work -> Job]
  BY <1>2, <1>3 DEF TypeInv, TypeOK
<1>5. JobShape'
  <2>1. /\ job'[w].todo = job[w].todo
        /\ job'[w].snap = job[w].snap
        /\ job'[w].at = job[w].at
    BY <1>1, <1>3 DEF TypeInv, TypeOK, Job
  <2>2. \A v \in Work \ {w} : job'[v] = job[v]
    BY <1>3 DEF TypeInv, TypeOK
  <2>3. pc' = pc
    BY DEF UserStores
  <2> QED
    BY <2>1, <2>2, <2>3 DEF TypeInv, JobShape, Shape
<1>6. budget' \in [Disturbance -> Nat]
  BY SpendType DEF TypeInv
<1>7. /\ hub' \in [Work -> WorkObject]
      /\ watch' \in [Work -> {"current", "behind", "event"}]
  BY HubStoresType DEF UserStores, TypeInv
<1> QED
  BY <1>4, <1>5, <1>6, <1>7 DEF UserStores, TypeInv, TypeOK, spokeVars

LEMMA UserType ==
    ASSUME TypeInv, NEW w \in Work, User(w)
    PROVE  TypeInv'
<1>1. hub[w] \in WorkObject /\ status[w] \in Status /\ NoStatus \in Status
  BY DEF TypeInv, TypeOK, NoStatus, Status
<1>2. CASE CreateWork(w)
  <2>1. PICK spec \in Workload :
            UserStores(w, [phase |-> "live", fin |-> FALSE, spec |-> spec])
    BY <1>2 DEF CreateWork
  <2>2. [phase |-> "live", fin |-> FALSE, spec |-> spec] \in WorkObject
    BY DEF WorkObject
  <2>3. status' \in [Work -> Status]
    BY <1>2 DEF CreateWork, TypeInv, TypeOK
  <2> QED
    BY <1>2, <2>1, <2>2, <2>3, UserStoresType DEF CreateWork, Disturbance
<1>3. CASE EditWork(w)
  <2>1. PICK spec \in Workload : UserStores(w, [hub[w] EXCEPT !.spec = spec])
    BY <1>3 DEF EditWork
  <2>2. [hub[w] EXCEPT !.spec = spec] \in WorkObject
    BY <1>1 DEF WorkObject
  <2>3. [status[w] EXCEPT !.observed = FALSE] \in Status
    BY <1>1 DEF Status
  <2>4. status' \in [Work -> Status]
    BY <1>3, <2>3 DEF EditWork, TypeInv, TypeOK
  <2> QED
    BY <1>3, <2>1, <2>2, <2>4, UserStoresType DEF EditWork, Disturbance
<1>4. CASE DeleteWork(w)
  <2>1. [hub[w] EXCEPT !.phase = "deleting"] \in WorkObject
    BY <1>1 DEF WorkObject
  <2>2. [status[w] EXCEPT !.observed = FALSE] \in Status
    BY <1>1 DEF Status
  <2>3. status' \in [Work -> Status]
    BY <1>1, <1>4, <2>2 DEF DeleteWork, TypeInv, TypeOK
  <2>4. \E x \in WorkObject : UserStores(w, x)
    BY <1>4, <2>1, NoWorkType DEF DeleteWork
  <2> QED
    BY <1>4, <2>3, <2>4, UserStoresType DEF DeleteWork, Disturbance
<1> QED
  BY <1>2, <1>3, <1>4 DEF User

LEMMA GarbageCollectType ==
    ASSUME TypeInv, NEW r \in Resource, GarbageCollect(r)
    PROVE  TypeInv'
<1> DEFINE live == LiveOwners(res[r])
           new == IF live = {} THEN NoObject ELSE [res[r] EXCEPT !.owners = live]
<1>1. res' = [res EXCEPT ![r] = new]
  BY DEF GarbageCollect
<1>2. res[r] \in Object
  BY DEF TypeInv, TypeOK
<1>3. live \subseteq res[r].owners /\ live # res[r].owners
  BY DEF LiveOwners, GarbageCollect
<1>4. Exists(res[r])
  <2>1. res[r].owners # {}
    BY <1>3
  <2>2. NoObject.owners = {}
    BY DEF NoObject
  <2> QED
    BY <2>1, <2>2 DEF TypeInv, TypeOK
<1> HIDE DEF live
<1>5. new \in Object /\ (~Exists(new) => new = NoObject)
  <2>1. CASE live = {}
    BY <2>1, NoObjectType
  <2>2. CASE live # {}
    <3>1. [res[r] EXCEPT !.owners = live] \in Object
      BY <1>2, <1>3 DEF Object
    <3>2. [res[r] EXCEPT !.owners = live].content = res[r].content
      BY <1>2 DEF Object
    <3> QED
      BY <2>2, <3>1, <3>2, <1>4 DEF Exists
  <2> QED
    BY <2>1, <2>2
<1> HIDE DEF new
<1>6. /\ res' \in [Resource -> Object]
      /\ \A x \in Resource : ~Exists(res'[x]) => res'[x] = NoObject
  BY <1>1, <1>5 DEF TypeInv, TypeOK
<1>7. JobShape'
  BY DEF GarbageCollect, TypeInv, JobShape
<1> QED
  BY <1>6, <1>7 DEF GarbageCollect, TypeInv, TypeOK, hubVars

LEMMA TamperType ==
    ASSUME TypeInv, Tamper
    PROVE  TypeInv'
<1>1. \E kind : ThirdParty(kind)
  BY DEF Tamper, TamperDeleteObject, TamperEditObject, TamperCreateObject,
         TamperDeleteAppliedWork
<1>2. budget' \in [Disturbance -> Nat] /\ WorkerTypes'
  BY <1>1, SpendType DEF ThirdParty, TypeInv, TypeOK, WorkerTypes, JobShape, Disturbance
<1> DEFINE ObjectTypes == /\ res \in [Resource -> Object]
                          /\ \A x \in Resource : ~Exists(res[x]) => res[x] = NoObject
<1>3. ObjectTypes'
  <2>1. ASSUME NEW r \in Resource, TamperDeleteObject(r)
        PROVE  ObjectTypes'
    BY <2>1, NoObjectType DEF TamperDeleteObject, TypeInv, TypeOK
  <2>2. ASSUME NEW r \in Resource, TamperEditObject(r)
        PROVE  ObjectTypes'
    <3>1. PICK c \in Content : res' = [res EXCEPT ![r].content = c]
      BY <2>2 DEF TamperEditObject
    <3>2. res[r] \in Object
      BY DEF TypeInv, TypeOK
    <3>3. /\ [res[r] EXCEPT !.content = c] \in Object
          /\ [res[r] EXCEPT !.content = c].content = c
      BY <3>2 DEF Object
    <3> QED
      BY <3>1, <3>3 DEF TypeInv, TypeOK, Exists
  <2>3. ASSUME NEW r \in Resource, TamperCreateObject(r)
        PROVE  ObjectTypes'
    <3>1. PICK c \in Content : res' = [res EXCEPT ![r] = [NoObject EXCEPT !.content = c]]
      BY <2>3 DEF TamperCreateObject
    <3>2. /\ [NoObject EXCEPT !.content = c] \in Object
          /\ [NoObject EXCEPT !.content = c].content = c
      BY NoObjectType DEF Object
    <3> HIDE DEF NoObject
    <3>3. /\ res'[r].content = c
          /\ res' \in [Resource -> Object]
          /\ \A x \in Resource \ {r} : res'[x] = res[x]
      BY <3>1, <3>2 DEF TypeInv, TypeOK
    <3> QED
      BY <3>3 DEF TypeInv, TypeOK, Exists
  <2>4. CASE res' = res
    BY <2>4 DEF TypeInv, TypeOK
  <2> QED
    BY <2>1, <2>2, <2>3, <2>4 DEF Tamper, TamperDeleteAppliedWork
<1> DEFINE AppliedWorkTypes == /\ aw \in [Work -> AppliedWork]
                               /\ \A v \in Work : aw[v].uid = 0 => aw[v] = NoAppliedWork
<1>4. AppliedWorkTypes'
  <2>1. aw' = aw \/ \E w \in Work : aw' = [aw EXCEPT ![w] = NoAppliedWork]
    BY DEF Tamper, TamperDeleteObject, TamperEditObject, TamperCreateObject,
           TamperDeleteAppliedWork
  <2>2. NoAppliedWork \in AppliedWork
    BY DEF AppliedWork, NoAppliedWork
  <2>3. CASE aw' = aw
    BY <2>3 DEF TypeInv, TypeOK
  <2>4. ASSUME NEW w \in Work, aw' = [aw EXCEPT ![w] = NoAppliedWork]
        PROVE  AppliedWorkTypes'
    BY <2>2, <2>4 DEF TypeInv, TypeOK
  <2> QED
    BY <2>1, <2>3, <2>4
<1> QED
  BY <1>1, <1>2, <1>3, <1>4 DEF ThirdParty, TypeInv, TypeOK, WorkerTypes, hubVars

LEMMA RestartType ==
    ASSUME TypeInv, Restart
    PROVE  TypeInv'
<1>1. pc' \in [Work -> PC] /\ job' \in [Work -> Job] /\ JobShape'
  BY NoJobType DEF Restart, PC, JobShape, Shape
<1>2. budget' \in [Disturbance -> Nat]
  BY SpendType DEF Restart, TypeInv, Disturbance
<1> QED
  BY <1>1, <1>2 DEF Restart, TypeInv, TypeOK, hubVars, spokeVars

LEMMA NextTypeInv == TypeInv /\ [Next]_vars => TypeInv'
<1> SUFFICES ASSUME TypeInv, [Next]_vars PROVE TypeInv'
  OBVIOUS
<1>1. ASSUME NEW w \in Work, Reconcile(w) \/ AbandonSync(w) \/ CacheSync(w) \/ User(w)
      PROVE  TypeInv'
  BY <1>1, ReconcileType, AbandonSyncType, CacheSyncType, UserType
<1>2. ASSUME NEW w \in Work, NEW reply \in Reply, Step(w, reply)
      PROVE  TypeInv'
  BY <1>2, GetAppliedWorkType, CreateAppliedWorkType, AddFinalizerType,
     GetManifestType, CreateManifestType, PatchManifestType, UpdateWorkStatusType,
     GetNewManifestType, GetStaleManifestType, DeleteStaleManifestType,
     ReleaseStaleManifestType, UpdateAppliedWorkType, DeleteAppliedWorkType,
     RemoveFinalizerType DEF Step
<1>3. ASSUME NEW r \in Resource, GarbageCollect(r)
      PROVE  TypeInv'
  BY <1>3, GarbageCollectType
<1>4. CASE Tamper
  BY <1>4, TamperType
<1>5. CASE Restart
  BY <1>5, RestartType
<1>6. CASE UNCHANGED vars
  BY <1>6 DEF vars, TypeInv, TypeOK, JobShape, Shape
<1> QED
  BY <1>1, <1>2, <1>3, <1>4, <1>5, <1>6 DEF Next

LEMMA TypeInvariant == SafeSpec => []TypeInv
BY InitTypeInv, NextTypeInv, PTL DEF SafeSpec

\* Every variable keeps its type, and what does not exist leaves no trace.
THEOREM TypeCorrect == SafeSpec => []TypeOK
<1>1. TypeInv => TypeOK
  BY DEF TypeInv
<1> QED
  BY <1>1, TypeInvariant, PTL
=============================================================================
