--------------------- MODULE ApplyWorkFinalizer_proofs ---------------------
(***************************************************************************)
(* The finalizer of a Work and what depends on it, for any numbers of      *)
(* Works, resources, workers and disturbances.                             *)
(***************************************************************************)
EXTENDS ApplyWork_proofs

USE BuiltInAssumption, AbsentAssumption, MaxConcurrentAssumption, BudgetAssumption

-----------------------------------------------------------------------------
(* The finalizer. What the controller has read may be outdated, but never in *)
(* the direction that hurts: it still sees a finalizer only while the hub has *)
(* it, and it collects only what is no longer wanted.                       *)

Ensuring == {"get", "create", "finalize"}
Applying == {"apply", "createObject", "patch", "sync", "deleteObject", "release"}
Collecting == {"collect", "unfinalize"}

Kept(x) == x.phase = "live" /\ x.fin

\* How the copies of a Work relate to the hub.
CopiesInv(w) ==
    /\ hub[w].phase = "absent" => ~hub[w].fin
    /\ watch[w] = "current" => cache[w] = hub[w]
    /\ job[w].fresh => hub[w] = job[w].snap
    /\ job[w].fresh /\ pc[w] \in Ensuring \cup Collecting => cache[w] = hub[w]
    /\ Kept(cache[w]) => hub[w].fin
    /\ cache[w].phase = "deleting" /\ cache[w].fin => ~Kept(hub[w])

\* What a reconcile that is at a label and holds a copy of the Work may rely on.
Relies(w, label, snap) ==
    /\ label \in Ensuring => snap.phase = "live"
    /\ label \in Ensuring /\ snap.fin => hub[w].fin
    /\ label = "get" => snap.fin
    /\ label = "finalize" => ~snap.fin
    /\ label \in Applying => hub[w].fin
    /\ label \in Collecting => /\ snap.phase = "deleting"
                               /\ ~Kept(hub[w])
                               /\ ~Kept(cache[w])

FinalizerInv == \A w \in Work : CopiesInv(w) /\ Relies(w, pc[w], job[w].snap)

LEMMA InitFinalizerInv == Init => FinalizerInv
BY DEF Init, FinalizerInv, CopiesInv, Relies, NoWork, NoJob, Kept, Ensuring,
       Collecting, Applying

\* A step of one reconcile leaves the other Works alone.
SameAt(v) == /\ hub'[v] = hub[v] /\ cache'[v] = cache[v] /\ watch'[v] = watch[v]
             /\ pc'[v] = pc[v] /\ job'[v] = job[v]

LEMMA Elsewhere ==
    ASSUME FinalizerInv, NEW w \in Work,
           \A v \in Work \ {w} : SameAt(v),
           (CopiesInv(w) /\ Relies(w, pc[w], job[w].snap))'
    PROVE  FinalizerInv'
BY DEF FinalizerInv, SameAt, CopiesInv, Relies

\* A step that writes nothing on the hub and goes on, or returns.
LEMMA QuietGoto ==
    ASSUME TypeInv, FinalizerInv, NEW w \in Work, NEW label, NEW j,
           Goto(w, label, j), UNCHANGED <<hub, cache, watch>>,
           j.snap = job[w].snap, j.fresh = job[w].fresh,
           label \in Ensuring \cup Collecting => pc[w] \in Ensuring \cup Collecting,
           Relies(w, label, job[w].snap)
    PROVE  FinalizerInv'
<1>1. \A v \in Work \ {w} : SameAt(v)
  BY DEF Goto, SameAt, TypeInv, TypeOK
<1>2. pc'[w] = label /\ job'[w] = j
  BY DEF Goto, TypeInv, TypeOK
<1>3. CopiesInv(w)'
  BY <1>2 DEF FinalizerInv, CopiesInv
<1>4. Relies(w, pc[w], job[w].snap)'
  BY <1>2 DEF Relies
<1> QED
  BY <1>1, <1>3, <1>4, Elsewhere

LEMMA QuietReturn ==
    ASSUME TypeInv, FinalizerInv, NEW w \in Work, NEW again,
           Return(w, again), UNCHANGED <<hub, cache, watch>>
    PROVE  FinalizerInv'
<1>1. \A v \in Work \ {w} : SameAt(v)
  BY DEF Return, SameAt, TypeInv, TypeOK
<1>2. pc'[w] = "idle" /\ job'[w] = NoJob
  BY DEF Return, TypeInv, TypeOK
<1>3. CopiesInv(w)'
  BY <1>2 DEF FinalizerInv, CopiesInv, NoJob
<1>4. Relies(w, pc[w], job[w].snap)'
  BY <1>2 DEF Relies, Ensuring, Applying, Collecting
<1> QED
  BY <1>1, <1>3, <1>4, Elsewhere

LEMMA ReconcileFinalizer ==
    ASSUME TypeInv, FinalizerInv, NEW w \in Work, Reconcile(w)
    PROVE  FinalizerInv'
<1>1. \A v \in Work \ {w} : SameAt(v)
  BY DEF Reconcile, SameAt, TypeInv, TypeOK, hubVars
<1>2. /\ cache[w] \in WorkObject
      /\ pc'[w] = EntryPoint(cache[w])
      /\ UNCHANGED <<hub, cache, watch>>
  BY DEF Reconcile, TypeInv, TypeOK, hubVars
<1>3. CASE EntryPoint(cache[w]) = "idle"
  <2>1. pc'[w] = pc[w] /\ job'[w] = job[w]
    BY <1>2, <1>3 DEF Reconcile
  <2> QED
    BY <1>1, <1>2, <2>1, Elsewhere DEF FinalizerInv, CopiesInv, Relies
<1>4. CASE EntryPoint(cache[w]) # "idle"
  <2>1. /\ job'[w].snap = cache[w]
        /\ job'[w].fresh => watch[w] = "current"
    BY <1>4, NoJobType DEF Reconcile, TypeInv, TypeOK, Job, NoJob
  <2>2. CopiesInv(w)'
    BY <1>2, <2>1 DEF FinalizerInv, CopiesInv
  <2>3. Relies(w, pc[w], job[w].snap)'
    BY <1>2, <2>1 DEF FinalizerInv, CopiesInv, Relies, EntryPoint, WorkObject, Kept,
                      Ensuring, Applying, Collecting
  <2> QED
    BY <1>1, <2>2, <2>3, Elsewhere
<1> QED
  BY <1>3, <1>4

\* The label a reconcile is at and its copy of the Work.
LEMMA ReliesNow ==
    ASSUME TypeInv, FinalizerInv, NEW w \in Work
    PROVE  /\ Relies(w, pc[w], job[w].snap)
           /\ job[w] \in Job
BY DEF TypeInv, TypeOK, FinalizerInv

LEMMA GetAppliedWorkFinalizer ==
    ASSUME TypeInv, FinalizerInv, NEW w \in Work, NEW reply \in Reply, GetAppliedWork(w, reply)
    PROVE  FinalizerInv'
<1>1. pc[w] = "get" /\ UNCHANGED <<hub, cache, watch>>
  BY DEF GetAppliedWork, hubVars
<1>2. Relies(w, "create", job[w].snap) /\ Relies(w, "apply", job[w].snap)
  BY <1>1, ReliesNow DEF Relies, Ensuring, Applying, Collecting
<1>3. CASE Return(w, TRUE)
  BY <1>1, <1>3, QuietReturn
<1>4. CASE Goto(w, "create", job[w])
  BY <1>1, <1>2, <1>4, QuietGoto DEF Ensuring
<1>5. CASE StartApply(w, aw[w].uid, aw[w].recorded)
  <2> DEFINE j == [job[w] EXCEPT !.uid = aw[w].uid, !.seen = aw[w].recorded,
                                 !.todo = Manifests(job[w].snap.spec)]
  <2>1. j.snap = job[w].snap /\ j.fresh = job[w].fresh
    BY ReliesNow DEF Job
  <2> QED
    BY <1>1, <1>2, <1>5, <2>1, QuietGoto DEF StartApply, Ensuring, Collecting
<1> QED
  BY <1>3, <1>4, <1>5 DEF GetAppliedWork, ReadReply

LEMMA CreateAppliedWorkFinalizer ==
    ASSUME TypeInv, FinalizerInv, NEW w \in Work, NEW reply \in Reply, CreateAppliedWork(w, reply)
    PROVE  FinalizerInv'
<1> DEFINE uid == IF reply # "error" /\ aw[w].uid = 0 THEN lastUid + 1 ELSE 0
<1>1. pc[w] = "create" /\ UNCHANGED <<hub, cache, watch>>
  BY DEF CreateAppliedWork, hubVars
<1>2. CASE Return(w, TRUE)
  BY <1>1, <1>2, QuietReturn
<1>3. CASE StartApply(w, uid, {}) /\ job[w].snap.fin
  <2> DEFINE j == [job[w] EXCEPT !.uid = uid, !.seen = {},
                                 !.todo = Manifests(job[w].snap.spec)]
  <2>1. j.snap = job[w].snap /\ j.fresh = job[w].fresh
    BY ReliesNow DEF Job
  <2>2. Relies(w, "apply", job[w].snap)
    BY <1>1, <1>3, ReliesNow DEF Relies, Ensuring, Applying, Collecting
  <2> QED
    BY <1>1, <1>3, <2>1, <2>2, QuietGoto DEF StartApply, Ensuring, Collecting
<1>4. CASE Goto(w, "finalize", [job[w] EXCEPT !.uid = uid]) /\ ~job[w].snap.fin
  <2> DEFINE j == [job[w] EXCEPT !.uid = uid]
  <2>1. j.snap = job[w].snap /\ j.fresh = job[w].fresh
    BY ReliesNow DEF Job
  <2>2. Relies(w, "finalize", job[w].snap)
    BY <1>1, <1>4, ReliesNow DEF Relies, Ensuring, Applying, Collecting
  <2> QED
    BY <1>1, <1>4, <2>1, <2>2, QuietGoto DEF Ensuring
<1>5. job[w].snap.fin \in BOOLEAN
  BY ReliesNow DEF Job, WorkObject
<1> QED
  BY <1>2, <1>3, <1>4, <1>5 DEF CreateAppliedWork

\* Where a reconcile is after it went on or returned.
LEMMA GotoAt ==
    ASSUME TypeInv, NEW w \in Work, NEW label, NEW j, Goto(w, label, j)
    PROVE  pc'[w] = label /\ job'[w] = j
BY DEF Goto, TypeInv, TypeOK

LEMMA ReturnAt ==
    ASSUME TypeInv, NEW w \in Work, NEW again, Return(w, again)
    PROVE  pc'[w] = "idle" /\ ~job'[w].fresh
BY DEF Return, NoJob, TypeInv, TypeOK

\* While manifests are applied and resources swept, the hub is not written.
LEMMA QuietApplying ==
    ASSUME TypeInv, FinalizerInv, NEW w \in Work, NEW label \in Applying, NEW j,
           pc[w] \in Applying, Goto(w, label, j), UNCHANGED <<hub, cache, watch>>,
           j.snap = job[w].snap, j.fresh = job[w].fresh
    PROVE  FinalizerInv'
<1>1. Relies(w, label, job[w].snap)
  BY ReliesNow DEF Relies, Ensuring, Applying, Collecting
<1>2. label \notin Ensuring \cup Collecting
  BY DEF Ensuring, Applying, Collecting
<1> QED
  BY <1>1, <1>2, QuietGoto

LEMMA AddFinalizerFinalizer ==
    ASSUME TypeInv, FinalizerInv, NEW w \in Work, NEW reply \in Reply, AddFinalizer(w, reply)
    PROVE  FinalizerInv'
<1> DEFINE work == [job[w].snap EXCEPT !.fin = TRUE]
           j == [job[w] EXCEPT !.snap = work, !.todo = Manifests(work.spec)]
<1>1. pc[w] = "finalize" /\ UNCHANGED cache
  BY DEF AddFinalizer
<1>2. job[w].snap.phase = "live" /\ job[w].snap \in WorkObject
  BY <1>1, ReliesNow DEF Relies, Ensuring, Job
<1>3. CASE ~Accepted(w, reply)
  <2>1. Return(w, TRUE) /\ UNCHANGED <<hub, watch>>
    BY <1>3 DEF AddFinalizer
  <2> QED
    BY <1>1, <2>1, QuietReturn
<1>4. CASE Accepted(w, reply)
  <2>1. HubStores(w, work, FALSE)
    BY <1>4 DEF AddFinalizer
  <2>2. \/ Goto(w, "apply", j)
        \/ Return(w, TRUE)
    BY <1>4 DEF AddFinalizer
  <2>3. \A v \in Work \ {w} : SameAt(v)
    BY <1>1, <2>1, <2>2 DEF HubStores, Goto, Return, SameAt, TypeInv, TypeOK
  <2>4. /\ hub'[w] = work /\ watch'[w] # "current" /\ cache'[w] = hub[w]
        /\ hub[w] = job[w].snap
    BY <1>1, <1>4, <2>1 DEF FinalizerInv, CopiesInv, HubStores, Accepted, Ensuring,
                            TypeInv, TypeOK
  <2>5. \/ pc'[w] = "apply" /\ job'[w].snap = work
        \/ pc'[w] = "idle" /\ ~job'[w].fresh
    <3>1. j.snap = work
      BY ReliesNow DEF Job
    <3> HIDE DEF j
    <3> QED
      BY <2>2, <3>1, GotoAt, ReturnAt
  <2>6. work.phase = "live" /\ work.fin
    BY <1>2 DEF WorkObject
  <2> HIDE DEF work, j
  <2>7. CopiesInv(w)'
    BY <1>2, <2>4, <2>5, <2>6 DEF CopiesInv, Kept, Ensuring, Collecting
  <2>8. Relies(w, pc[w], job[w].snap)'
    BY <2>4, <2>5, <2>6 DEF Relies, Ensuring, Applying, Collecting
  <2> QED
    BY <2>3, <2>7, <2>8, Elsewhere
<1> QED
  BY <1>3, <1>4

LEMMA VisitFinalizer ==
    ASSUME TypeInv, FinalizerInv, NEW w \in Work, NEW r,
           pc[w] \in Applying, UNCHANGED <<hub, cache, watch>>,
           \/ Goto(w, "apply", Applied(w, r))
           \/ Goto(w, "apply", NotApplied(w, r))
    PROVE  FinalizerInv'
<1>1. /\ Applied(w, r).snap = job[w].snap /\ Applied(w, r).fresh = job[w].fresh
      /\ NotApplied(w, r).snap = job[w].snap /\ NotApplied(w, r).fresh = job[w].fresh
  BY ReliesNow DEF Applied, NotApplied, Job
<1> QED
  BY <1>1, QuietApplying DEF Applying

LEMMA ManifestFinalizer ==
    ASSUME TypeInv, FinalizerInv, NEW w \in Work, NEW reply \in Reply,
           \/ \E r \in Resource : GetManifest(w, r, reply)
           \/ CreateManifest(w, reply)
           \/ PatchManifest(w, reply)
    PROVE  FinalizerInv'
<1>1. ASSUME NEW r \in Resource, GetManifest(w, r, reply)
      PROVE  FinalizerInv'
  <2> DEFINE read == [job[w] EXCEPT !.at = r, !.cur = res[r]]
  <2>1. pc[w] \in Applying /\ UNCHANGED <<hub, cache, watch>>
    BY <1>1 DEF GetManifest, hubVars, Applying
  <2>2. CASE Goto(w, "createObject", read) \/ Goto(w, "patch", read)
    <3>1. read.snap = job[w].snap /\ read.fresh = job[w].fresh
      BY ReliesNow DEF Job
    <3> HIDE DEF read
    <3>2. CASE Goto(w, "createObject", read)
      BY <2>1, <3>1, <3>2, QuietApplying DEF Applying
    <3>3. CASE Goto(w, "patch", read)
      BY <2>1, <3>1, <3>3, QuietApplying DEF Applying
    <3> QED
      BY <2>2, <3>2, <3>3
  <2>3. CASE Goto(w, "apply", Applied(w, r)) \/ Goto(w, "apply", NotApplied(w, r))
    BY <2>1, <2>3, VisitFinalizer
  <2> QED
    BY <1>1, <2>2, <2>3 DEF GetManifest, ReadReply, Managed
<1>2. CASE CreateManifest(w, reply)
  BY <1>2, VisitFinalizer DEF CreateManifest, hubVars, Applying
<1>3. CASE PatchManifest(w, reply)
  BY <1>3, VisitFinalizer DEF PatchManifest, hubVars, Applying
<1> QED
  BY <1>1, <1>2, <1>3

LEMMA UpdateWorkStatusFinalizer ==
    ASSUME TypeInv, FinalizerInv, NEW w \in Work, NEW reply \in Reply, UpdateWorkStatus(w, reply)
    PROVE  FinalizerInv'
<1> DEFINE j == job[w]
           next == [j EXCEPT !.todo = j.ok \ j.seen, !.keep = j.ok \cap j.seen,
                             !.stale = j.seen \ Manifests(j.snap.spec)]
<1>1. pc[w] \in Applying /\ UNCHANGED cache
  BY DEF UpdateWorkStatus, Applying
<1>2. CASE ~Accepted(w, reply)
  <2>1. Return(w, TRUE) /\ UNCHANGED <<hub, watch>>
    BY <1>2 DEF UpdateWorkStatus
  <2> QED
    BY <1>1, <2>1, QuietReturn
<1>3. CASE Accepted(w, reply)
  <2>1. HubStores(w, j.snap, FALSE)
    BY <1>3 DEF UpdateWorkStatus
  <2>2. Goto(w, "sync", next) \/ Return(w, TRUE)
    BY <1>3 DEF UpdateWorkStatus
  <2>3. \A v \in Work \ {w} : SameAt(v)
    BY <1>1, <2>1, <2>2 DEF HubStores, Goto, Return, SameAt, TypeInv, TypeOK
  <2>4. hub'[w] = hub[w] /\ watch'[w] # "current" /\ hub[w] = j.snap
    BY <1>3, <2>1 DEF FinalizerInv, CopiesInv, HubStores, Accepted, TypeInv, TypeOK
  <2>5. \/ pc'[w] = "sync" /\ job'[w].snap = j.snap
        \/ pc'[w] = "idle" /\ ~job'[w].fresh
    <3>1. next.snap = j.snap
      BY ReliesNow DEF Job
    <3> HIDE DEF next
    <3> QED
      BY <2>2, <3>1, GotoAt, ReturnAt
  <2>6. CopiesInv(w)'
    BY <1>1, <2>4, <2>5 DEF FinalizerInv, CopiesInv, Kept, Ensuring, Collecting
  <2>7. Relies(w, pc[w], job[w].snap)'
    BY <1>1, <2>4, <2>5, ReliesNow DEF Relies, Ensuring, Applying, Collecting
  <2> QED
    BY <2>3, <2>6, <2>7, Elsewhere
<1> QED
  BY <1>2, <1>3

LEMMA GetNewManifestFinalizer ==
    ASSUME TypeInv, FinalizerInv, NEW w \in Work, NEW r \in Resource, NEW reply \in Reply,
           GetNewManifest(w, r, reply)
    PROVE  FinalizerInv'
<1> DEFINE found == [job[w] EXCEPT !.todo = @ \ {r}, !.keep = @ \cup {r}]
           gone == [job[w] EXCEPT !.todo = @ \ {r}]
<1>1. pc[w] \in Applying /\ UNCHANGED <<hub, cache, watch>>
  BY DEF GetNewManifest, hubVars, Applying
<1>2. /\ found.snap = job[w].snap /\ found.fresh = job[w].fresh
      /\ gone.snap = job[w].snap /\ gone.fresh = job[w].fresh
  BY ReliesNow DEF Job
<1>3. Return(w, FALSE) \/ Goto(w, "sync", found) \/ Goto(w, "sync", gone)
  BY DEF GetNewManifest, ReadReply
<1> HIDE DEF found, gone
<1>4. "sync" \in Applying
  BY DEF Applying
<1>5. CASE Return(w, FALSE)
  BY <1>1, <1>5, QuietReturn
<1>6. CASE Goto(w, "sync", found)
  BY <1>1, <1>2, <1>4, <1>6, QuietApplying
<1>7. CASE Goto(w, "sync", gone)
  BY <1>1, <1>2, <1>4, <1>7, QuietApplying
<1> QED
  BY <1>3, <1>5, <1>6, <1>7

LEMMA GetStaleManifestFinalizer ==
    ASSUME TypeInv, FinalizerInv, NEW w \in Work, NEW r \in Resource, NEW reply \in Reply,
           GetStaleManifest(w, r, reply)
    PROVE  FinalizerInv'
<1> DEFINE next == [job[w] EXCEPT !.stale = @ \ {r}]
           failed == [next EXCEPT !.failed = TRUE]
           read == [next EXCEPT !.at = r, !.cur = res[r]]
<1>1. pc[w] \in Applying /\ UNCHANGED <<hub, cache, watch>>
  BY DEF GetStaleManifest, hubVars, Applying
<1>2. next.snap = job[w].snap /\ next.fresh = job[w].fresh
  BY ReliesNow DEF Job
<1>3. failed.snap = job[w].snap /\ failed.fresh = job[w].fresh
  BY ReliesNow DEF Job
<1>4. read.snap = job[w].snap /\ read.fresh = job[w].fresh
  BY ReliesNow DEF Job
<1>5. \/ Goto(w, "sync", next) \/ Goto(w, "sync", failed)
      \/ Goto(w, "deleteObject", read) \/ Goto(w, "release", read)
  <2> DEFINE owned == IsOwner(res[r].owners, Me(w))
             others == RemainingOwners(res[r].owners, Me(w))
  <2>1. /\ reply \in {"error", "answer"}
        /\ CASE reply = "error" -> Goto(w, "sync", failed)
             [] reply = "answer" /\ ~owned -> Goto(w, "sync", next)
             [] reply = "answer" /\ owned /\ others = {} -> Goto(w, "deleteObject", read)
             [] reply = "answer" /\ owned /\ others # {} -> Goto(w, "release", read)
    BY DEF GetStaleManifest, ReadReply
  <2> HIDE DEF next, failed, read, owned, others
  <2> QED
    BY <2>1
<1> HIDE DEF next, failed, read
<1>6. {"sync", "deleteObject", "release"} \subseteq Applying
  BY DEF Applying
<1>7. CASE Goto(w, "sync", next)
  BY <1>1, <1>2, <1>6, <1>7, QuietApplying
<1>8. CASE Goto(w, "sync", failed)
  BY <1>1, <1>3, <1>6, <1>8, QuietApplying
<1>9. CASE Goto(w, "deleteObject", read)
  BY <1>1, <1>4, <1>6, <1>9, QuietApplying
<1>10. CASE Goto(w, "release", read)
  BY <1>1, <1>4, <1>6, <1>10, QuietApplying
<1> QED
  BY <1>5, <1>7, <1>8, <1>9, <1>10

LEMMA SweepFinalizer ==
    ASSUME TypeInv, FinalizerInv, NEW w \in Work, NEW reply \in Reply,
           DeleteStaleManifest(w, reply) \/ ReleaseStaleManifest(w, reply)
    PROVE  FinalizerInv'
<1>1. pc[w] \in Applying /\ UNCHANGED <<hub, cache, watch>>
  BY DEF DeleteStaleManifest, ReleaseStaleManifest, hubVars, Applying
<1>2. PICK failed : Goto(w, "sync", [Done(w) EXCEPT !.failed = failed])
  BY DEF DeleteStaleManifest, ReleaseStaleManifest
<1> DEFINE j == [Done(w) EXCEPT !.failed = failed]
<1>3. j.snap = job[w].snap /\ j.fresh = job[w].fresh
  BY ReliesNow DEF Job, Done
<1> HIDE DEF j
<1>4. Goto(w, "sync", j)
  BY <1>2 DEF j
<1>5. "sync" \in Applying
  BY DEF Applying
<1> QED
  BY <1>1, <1>3, <1>4, <1>5, QuietApplying

LEMMA ReturnFinalizer ==
    ASSUME TypeInv, FinalizerInv, NEW w \in Work,
           \/ AbandonSync(w)
           \/ \E reply \in Reply : UpdateAppliedWork(w, reply)
    PROVE  FinalizerInv'
BY QuietReturn DEF AbandonSync, UpdateAppliedWork, Resync, hubVars

LEMMA DeleteAppliedWorkFinalizer ==
    ASSUME TypeInv, FinalizerInv, NEW w \in Work, NEW reply \in Reply, DeleteAppliedWork(w, reply)
    PROVE  FinalizerInv'
<1>1. pc[w] = "collect" /\ UNCHANGED <<hub, cache, watch>>
  BY DEF DeleteAppliedWork, hubVars
<1>2. Relies(w, "unfinalize", job[w].snap)
  BY <1>1, ReliesNow DEF Relies, Ensuring, Applying, Collecting
<1>3. CASE Return(w, TRUE)
  BY <1>1, <1>3, QuietReturn
<1>4. CASE Goto(w, "unfinalize", job[w])
  BY <1>1, <1>2, <1>4, QuietGoto DEF Collecting
<1> QED
  BY <1>3, <1>4 DEF DeleteAppliedWork

LEMMA RemoveFinalizerFinalizer ==
    ASSUME TypeInv, FinalizerInv, NEW w \in Work, NEW reply \in Reply, RemoveFinalizer(w, reply)
    PROVE  FinalizerInv'
<1>1. pc[w] = "unfinalize" /\ UNCHANGED cache
  BY DEF RemoveFinalizer
<1>2. PICK again : Return(w, again)
  BY DEF RemoveFinalizer
<1>3. CASE ~Accepted(w, reply)
  BY <1>1, <1>2, <1>3, QuietReturn DEF RemoveFinalizer
<1>4. CASE Accepted(w, reply)
  <2>1. HubStores(w, NoWork, TRUE)
    BY <1>4 DEF RemoveFinalizer
  <2>2. \A v \in Work \ {w} : SameAt(v)
    BY <1>1, <1>2, <2>1 DEF HubStores, Return, SameAt, TypeInv, TypeOK
  <2>3. hub'[w] = NoWork /\ watch'[w] # "current"
    BY <2>1 DEF HubStores, TypeInv, TypeOK
  <2>4. pc'[w] = "idle" /\ ~job'[w].fresh
    BY <1>2, ReturnAt
  <2>5. ~Kept(cache[w])
    BY <1>1, ReliesNow DEF Relies, Collecting
  <2>6. CopiesInv(w)'
    BY <1>1, <2>3, <2>4, <2>5 DEF CopiesInv, Kept, NoWork, Ensuring, Collecting
  <2>7. Relies(w, pc[w], job[w].snap)'
    BY <2>4 DEF Relies, Ensuring, Applying, Collecting
  <2> QED
    BY <2>2, <2>6, <2>7, Elsewhere
<1> QED
  BY <1>3, <1>4

LEMMA CacheSyncFinalizer ==
    ASSUME TypeInv, FinalizerInv, NEW w \in Work, CacheSync(w)
    PROVE  FinalizerInv'
<1>1. \A v \in Work \ {w} : SameAt(v)
  BY DEF CacheSync, SameAt, TypeInv, TypeOK, hubVars
<1>2. /\ UNCHANGED <<hub, pc, job>>
      /\ cache'[w] = hub[w] /\ watch'[w] = "current"
  BY DEF CacheSync, TypeInv, TypeOK, hubVars
<1>3. hub[w] \in WorkObject
  BY DEF TypeInv, TypeOK
<1>4. CopiesInv(w)'
  BY <1>2, <1>3 DEF FinalizerInv, CopiesInv, Kept, WorkObject
<1>5. Relies(w, pc[w], job[w].snap)'
  BY <1>2, ReliesNow DEF Relies
<1> QED
  BY <1>1, <1>4, <1>5, Elsewhere

\* No write of a user touches the finalizer or brings a deleted Work back.
LEMMA UserStoresFinalizer ==
    ASSUME TypeInv, FinalizerInv, NEW w \in Work, NEW x \in WorkObject, UserStores(w, x),
           x.fin = hub[w].fin, Kept(x) => Kept(hub[w]), x.phase = "absent" => ~x.fin
    PROVE  FinalizerInv'
<1>1. job[w] \in Job
  BY DEF TypeInv, TypeOK
<1>2. \A v \in Work \ {w} : SameAt(v)
  BY DEF UserStores, HubStores, SameAt, TypeInv, TypeOK
<1>3. /\ UNCHANGED <<cache, pc>>
      /\ hub'[w] = x /\ watch'[w] # "current"
      /\ job'[w] = [job[w] EXCEPT !.fresh = FALSE]
  BY DEF UserStores, HubStores, TypeInv, TypeOK
<1>4. job'[w].snap = job[w].snap /\ ~job'[w].fresh
  BY <1>1, <1>3 DEF Job
<1>5. CopiesInv(w)'
  BY <1>3, <1>4 DEF FinalizerInv, CopiesInv
<1>6. Relies(w, pc[w], job[w].snap)'
  BY <1>3, <1>4, ReliesNow DEF Relies
<1> QED
  BY <1>2, <1>5, <1>6, Elsewhere

LEMMA UserFinalizer ==
    ASSUME TypeInv, FinalizerInv, NEW w \in Work, User(w)
    PROVE  FinalizerInv'
<1>1. hub[w] \in WorkObject /\ (hub[w].phase = "absent" => ~hub[w].fin)
  BY DEF TypeInv, TypeOK, FinalizerInv, CopiesInv
<1>2. CASE CreateWork(w)
  <2>1. PICK spec \in Workload :
            UserStores(w, [phase |-> "live", fin |-> FALSE, spec |-> spec])
    BY <1>2 DEF CreateWork
  <2> DEFINE x == [phase |-> "live", fin |-> FALSE, spec |-> spec]
  <2>2. x \in WorkObject /\ x.fin = hub[w].fin /\ ~Kept(x) /\ x.phase # "absent"
    BY <1>1, <1>2 DEF CreateWork, WorkObject, Kept
  <2> HIDE DEF x
  <2>3. UserStores(w, x)
    BY <2>1 DEF x
  <2> QED
    BY <2>2, <2>3, UserStoresFinalizer
<1>3. CASE EditWork(w)
  <2>1. PICK spec \in Workload : UserStores(w, [hub[w] EXCEPT !.spec = spec])
    BY <1>3 DEF EditWork
  <2> DEFINE x == [hub[w] EXCEPT !.spec = spec]
  <2>2. x \in WorkObject /\ x.fin = hub[w].fin /\ x.phase = hub[w].phase
    BY <1>1 DEF WorkObject
  <2> HIDE DEF x
  <2>3. UserStores(w, x)
    BY <2>1 DEF x
  <2> QED
    BY <1>1, <2>2, <2>3, UserStoresFinalizer DEF Kept
<1>4. CASE DeleteWork(w)
  <2> DEFINE x == [hub[w] EXCEPT !.phase = "deleting"]
  <2>1. x \in WorkObject /\ x.fin = hub[w].fin /\ x.phase = "deleting"
    BY <1>1 DEF WorkObject
  <2>2. NoWork.fin = FALSE /\ NoWork.phase = "absent"
    BY DEF NoWork
  <2>3. \/ hub[w].fin /\ UserStores(w, x)
        \/ ~hub[w].fin /\ UserStores(w, NoWork)
    BY <1>4 DEF DeleteWork
  <2> HIDE DEF x
  <2>4. CASE hub[w].fin /\ UserStores(w, x)
    BY <2>1, <2>4, UserStoresFinalizer DEF Kept
  <2>5. CASE ~hub[w].fin /\ UserStores(w, NoWork)
    <3>1. NoWork.fin = hub[w].fin
      BY <1>1, <2>2, <2>5 DEF WorkObject
    <3> QED
      BY <2>2, <2>5, <3>1, NoWorkType, UserStoresFinalizer DEF Kept
  <2> QED
    BY <2>3, <2>4, <2>5
<1> QED
  BY <1>2, <1>3, <1>4 DEF User

LEMMA RestartFinalizer ==
    ASSUME TypeInv, FinalizerInv, Restart
    PROVE  FinalizerInv'
<1> SUFFICES ASSUME NEW w \in Work
             PROVE  (CopiesInv(w) /\ Relies(w, pc[w], job[w].snap))'
  BY DEF FinalizerInv
<1>1. /\ hub' = hub /\ cache'[w] = hub[w] /\ pc'[w] = "idle" /\ job'[w] = NoJob
      /\ hub[w] \in WorkObject
  BY DEF Restart, hubVars, TypeInv, TypeOK
<1>2. ~NoJob.fresh
  BY DEF NoJob
<1>3. CopiesInv(w)'
  BY <1>1, <1>2 DEF FinalizerInv, CopiesInv, Kept, WorkObject
<1> QED
  BY <1>1, <1>3 DEF Relies, Ensuring, Applying, Collecting

LEMMA NextFinalizerInv == TypeInv /\ FinalizerInv /\ [Next]_vars => FinalizerInv'
<1> SUFFICES ASSUME TypeInv, FinalizerInv, [Next]_vars PROVE FinalizerInv'
  OBVIOUS
<1>1. ASSUME NEW w \in Work, Reconcile(w) \/ AbandonSync(w) \/ CacheSync(w) \/ User(w)
      PROVE  FinalizerInv'
  BY <1>1, ReconcileFinalizer, ReturnFinalizer, CacheSyncFinalizer, UserFinalizer
<1>2. ASSUME NEW w \in Work, NEW reply \in Reply, Step(w, reply)
      PROVE  FinalizerInv'
  BY <1>2, GetAppliedWorkFinalizer, CreateAppliedWorkFinalizer, AddFinalizerFinalizer,
     ManifestFinalizer, UpdateWorkStatusFinalizer, GetNewManifestFinalizer,
     GetStaleManifestFinalizer, SweepFinalizer, ReturnFinalizer,
     DeleteAppliedWorkFinalizer, RemoveFinalizerFinalizer DEF Step
<1>3. ASSUME UNCHANGED <<hub, cache, watch, pc, job>>
      PROVE  FinalizerInv'
  BY <1>3 DEF FinalizerInv, CopiesInv, Relies
<1>4. ASSUME NEW r \in Resource, GarbageCollect(r)
      PROVE  FinalizerInv'
  BY <1>3, <1>4 DEF GarbageCollect, hubVars
<1>5. CASE Tamper
  BY <1>3, <1>5 DEF Tamper, TamperDeleteObject, TamperEditObject, TamperCreateObject,
                    TamperDeleteAppliedWork, ThirdParty, hubVars
<1>6. CASE Restart
  BY <1>6, RestartFinalizer
<1>7. CASE UNCHANGED vars
  BY <1>3, <1>7 DEF vars
<1> QED
  BY <1>1, <1>2, <1>4, <1>5, <1>6, <1>7 DEF Next

-----------------------------------------------------------------------------
(* Owners. The finalizer is removed only when the AppliedWork is gone, and   *)
(* no reference made for an earlier AppliedWork counts for a later one.      *)

UnguardInv == \A w \in Work : pc[w] = "unfinalize" => aw[w].uid = 0

\* A reference that was made once: if its AppliedWork still exists, the Work
\* has the finalizer.
RefInv(o) == /\ o.uid <= lastUid
             /\ aw[o.work].uid = o.uid => hub[o.work].fin

OwnersInv ==
    /\ \A w \in Work : aw[w].uid <= lastUid /\ job[w].uid <= lastUid
    /\ \A w \in Work : \A o \in job[w].cur.owners : RefInv(o)
    /\ \A r \in Resource : \A o \in res[r].owners : RefInv(o)

OwnedInv == UnguardInv /\ OwnersInv

\* What any step does to the finalizers.
FinalizerStep == \A w \in Work : hub[w].fin => hub'[w].fin \/ pc[w] = "unfinalize"

LEMMA NextFinalizer == TypeInv /\ FinalizerInv /\ [Next]_vars => FinalizerStep
<1> SUFFICES ASSUME TypeInv, FinalizerInv, [Next]_vars PROVE FinalizerStep
  OBVIOUS
<1>1. CASE UNCHANGED hub
  BY <1>1 DEF FinalizerStep
<1>2. ASSUME NEW w \in Work, NEW x \in WorkObject, NEW new, HubStores(w, x, new),
             hub[w].fin => x.fin \/ pc[w] = "unfinalize"
      PROVE  FinalizerStep
  BY <1>2 DEF FinalizerStep, HubStores, TypeInv, TypeOK
<1>3. ASSUME NEW w \in Work, User(w)
      PROVE  FinalizerStep
  <2>1. hub[w] \in WorkObject /\ (hub[w].phase = "absent" => ~hub[w].fin)
    BY DEF TypeInv, TypeOK, FinalizerInv, CopiesInv
  <2>2. CASE CreateWork(w)
    <3>1. PICK spec \in Workload :
              UserStores(w, [phase |-> "live", fin |-> FALSE, spec |-> spec])
      BY <2>2 DEF CreateWork
    <3>2. [phase |-> "live", fin |-> FALSE, spec |-> spec] \in WorkObject
      BY DEF WorkObject
    <3> QED
      BY <1>2, <2>1, <2>2, <3>1, <3>2 DEF CreateWork, UserStores
  <2>3. CASE EditWork(w)
    <3>1. PICK spec \in Workload : UserStores(w, [hub[w] EXCEPT !.spec = spec])
      BY <2>3 DEF EditWork
    <3>2. [hub[w] EXCEPT !.spec = spec] \in WorkObject
      BY <2>1 DEF WorkObject
    <3>3. [hub[w] EXCEPT !.spec = spec].fin = hub[w].fin
      BY <2>1 DEF WorkObject
    <3> QED
      BY <1>2, <3>1, <3>2, <3>3 DEF UserStores
  <2>4. CASE DeleteWork(w)
    <3>1. [hub[w] EXCEPT !.phase = "deleting"] \in WorkObject
      BY <2>1 DEF WorkObject
    <3>2. [hub[w] EXCEPT !.phase = "deleting"].fin = hub[w].fin
      BY <2>1 DEF WorkObject
    <3> QED
      BY <1>2, <2>4, <3>1, <3>2, NoWorkType DEF DeleteWork, UserStores
  <2> QED
    BY <1>3, <2>2, <2>3, <2>4 DEF User
<1>4. ASSUME NEW w \in Work, NEW reply \in Reply, AddFinalizer(w, reply)
      PROVE  FinalizerStep
  <2>1. [job[w].snap EXCEPT !.fin = TRUE] \in WorkObject /\ [job[w].snap EXCEPT !.fin = TRUE].fin
    <3>1. job[w].snap \in WorkObject
      BY ReliesNow DEF Job
    <3> QED
      BY <3>1 DEF WorkObject
  <2> QED
    BY <1>1, <1>2, <1>4, <2>1 DEF AddFinalizer
<1>5. ASSUME NEW w \in Work, NEW reply \in Reply, UpdateWorkStatus(w, reply)
      PROVE  FinalizerStep
  <2>1. job[w].snap \in WorkObject
    BY ReliesNow DEF Job
  <2>2. CASE Accepted(w, reply)
    <3>1. hub[w] = job[w].snap
      BY <2>2 DEF Accepted, FinalizerInv, CopiesInv
    <3> QED
      BY <1>2, <1>5, <2>1, <2>2, <3>1 DEF UpdateWorkStatus
  <2>3. CASE ~Accepted(w, reply)
    BY <1>1, <1>5, <2>3 DEF UpdateWorkStatus
  <2> QED
    BY <2>2, <2>3
<1>6. ASSUME NEW w \in Work, NEW reply \in Reply, RemoveFinalizer(w, reply)
      PROVE  FinalizerStep
  BY <1>1, <1>2, <1>6, NoWorkType DEF RemoveFinalizer
<1>7. ASSUME NEW w \in Work, Reconcile(w) \/ AbandonSync(w) \/ CacheSync(w)
      PROVE  FinalizerStep
  BY <1>1, <1>7 DEF Reconcile, AbandonSync, CacheSync, hubVars
<1>8. ASSUME NEW w \in Work, NEW reply \in Reply, Step(w, reply)
      PROVE  FinalizerStep
  BY <1>1, <1>4, <1>5, <1>6, <1>8
     DEF Step, hubVars, GetAppliedWork, CreateAppliedWork, GetManifest, CreateManifest,
         PatchManifest, GetNewManifest, GetStaleManifest, DeleteStaleManifest,
         ReleaseStaleManifest, UpdateAppliedWork, DeleteAppliedWork
<1>9. CASE Tamper \/ Restart \/ (\E r \in Resource : GarbageCollect(r)) \/ UNCHANGED vars
  BY <1>1, <1>9 DEF Tamper, TamperDeleteObject, TamperEditObject, TamperCreateObject,
                    TamperDeleteAppliedWork, ThirdParty, Restart, GarbageCollect, hubVars, vars
<1> QED
  BY <1>3, <1>7, <1>8, <1>9 DEF Next

\* What any step does to the AppliedWorks: none gets a UID but a new one.
AppliedWorkStep ==
    /\ lastUid' \in {lastUid, lastUid + 1}
    /\ \A w \in Work : \/ aw'[w].uid = aw[w].uid
                       \/ aw'[w].uid = 0
                       \/ aw'[w].uid = lastUid + 1 /\ lastUid' = lastUid + 1

LEMMA NextAppliedWork == TypeInv /\ [Next]_vars => AppliedWorkStep
<1> SUFFICES ASSUME TypeInv, [Next]_vars PROVE AppliedWorkStep
  OBVIOUS
<1>1. CASE UNCHANGED <<aw, lastUid>>
  BY <1>1 DEF AppliedWorkStep
<1>2. ASSUME NEW w \in Work, aw' = [aw EXCEPT ![w] = NoAppliedWork], UNCHANGED lastUid
      PROVE  AppliedWorkStep
  BY <1>2 DEF AppliedWorkStep, NoAppliedWork, TypeInv, TypeOK
<1>3. ASSUME NEW w \in Work, NEW reply \in Reply, CreateAppliedWork(w, reply)
      PROVE  AppliedWorkStep
  <2> DEFINE created == reply # "error" /\ aw[w].uid = 0
  <2>1. CASE created
    <3>1. /\ aw' = [aw EXCEPT ![w] = [uid |-> lastUid + 1, recorded |-> {}]]
          /\ lastUid' = lastUid + 1
      BY <1>3, <2>1 DEF CreateAppliedWork
    <3> QED
      BY <3>1 DEF AppliedWorkStep, TypeInv, TypeOK
  <2>2. CASE ~created
    BY <1>1, <1>3, <2>2 DEF CreateAppliedWork
  <2> QED
    BY <2>1, <2>2
<1>4. ASSUME NEW w \in Work, NEW reply \in Reply, UpdateAppliedWork(w, reply)
      PROVE  AppliedWorkStep
  <2>1. CASE aw' = [aw EXCEPT ![w].recorded = job[w].keep]
    <3>1. aw[w] \in AppliedWork
      BY DEF TypeInv, TypeOK
    <3>2. [aw[w] EXCEPT !.recorded = job[w].keep].uid = aw[w].uid
      BY <3>1 DEF AppliedWork
    <3> QED
      BY <1>4, <2>1, <3>2 DEF UpdateAppliedWork, AppliedWorkStep, TypeInv, TypeOK
  <2> QED
    BY <1>1, <1>4, <2>1 DEF UpdateAppliedWork
<1>5. ASSUME NEW w \in Work, NEW reply \in Reply, DeleteAppliedWork(w, reply)
      PROVE  AppliedWorkStep
  BY <1>1, <1>2, <1>5 DEF DeleteAppliedWork
<1>6. ASSUME NEW w \in Work, NEW reply \in Reply, Step(w, reply)
      PROVE  AppliedWorkStep
  BY <1>1, <1>3, <1>4, <1>5, <1>6
     DEF Step, spokeVars, GetAppliedWork, AddFinalizer, GetManifest, CreateManifest,
         PatchManifest, UpdateWorkStatus, GetNewManifest, GetStaleManifest,
         DeleteStaleManifest, ReleaseStaleManifest, RemoveFinalizer
<1>7. ASSUME NEW w \in Work, Reconcile(w) \/ AbandonSync(w) \/ CacheSync(w) \/ User(w)
      PROVE  AppliedWorkStep
  BY <1>1, <1>7 DEF Reconcile, AbandonSync, CacheSync, User, CreateWork, EditWork,
                    DeleteWork, UserStores, spokeVars
<1>8. CASE Tamper
  BY <1>1, <1>2, <1>8 DEF Tamper, TamperDeleteObject, TamperEditObject,
                          TamperCreateObject, TamperDeleteAppliedWork, ThirdParty
<1>9. CASE Restart \/ (\E r \in Resource : GarbageCollect(r)) \/ UNCHANGED vars
  BY <1>1, <1>9 DEF Restart, GarbageCollect, spokeVars, vars
<1> QED
  BY <1>6, <1>7, <1>8, <1>9 DEF Next

\* What any step does to the locals: a UID is one the AppliedWork has or gets,
\* the owners of an object that was read are owners it had.
Found(o) == \E r \in Resource : o \in res[r].owners
JobStep ==
    \A w \in Work :
        /\ job'[w].uid \in {0, job[w].uid, aw[w].uid, lastUid'}
        /\ \A o \in job'[w].cur.owners : o \in job[w].cur.owners \/ Found(o)

LEMMA JobStepGoto ==
    ASSUME TypeInv, NEW w \in Work, NEW label, NEW j, Goto(w, label, j),
           j.uid \in {0, job[w].uid, aw[w].uid, lastUid'},
           \A o \in j.cur.owners : o \in job[w].cur.owners \/ Found(o)
    PROVE  JobStep
<1>1. job'[w] = j /\ \A v \in Work \ {w} : job'[v] = job[v]
  BY DEF Goto, TypeInv, TypeOK
<1> QED
  BY <1>1 DEF JobStep

LEMMA JobStepReturn ==
    ASSUME TypeInv, NEW w \in Work, NEW again, Return(w, again)
    PROVE  JobStep
<1>1. job'[w] = NoJob /\ \A v \in Work \ {w} : job'[v] = job[v]
  BY DEF Return, TypeInv, TypeOK
<1>2. NoJob.uid = 0 /\ NoJob.cur.owners = {}
  BY DEF NoJob, NoObject
<1> QED
  BY <1>1, <1>2 DEF JobStep

LEMMA JobStepVisit ==
    ASSUME TypeInv, NEW w \in Work, NEW r,
           Goto(w, "apply", Applied(w, r)) \/ Goto(w, "apply", NotApplied(w, r))
    PROVE  JobStep
<1>1. job[w] \in Job /\ NoObject.owners = {}
  BY DEF TypeInv, TypeOK, NoObject
<1>2. /\ Applied(w, r).uid = job[w].uid /\ Applied(w, r).cur = NoObject
      /\ NotApplied(w, r).uid = job[w].uid /\ NotApplied(w, r).cur = NoObject
  BY <1>1 DEF Applied, NotApplied, Job
<1> QED
  BY <1>1, <1>2, JobStepGoto

LEMMA StepJob ==
    ASSUME TypeInv, NEW w \in Work, NEW reply \in Reply, Step(w, reply)
    PROVE  JobStep
<1>1. job[w] \in Job
  BY DEF TypeInv, TypeOK
<1>2. CASE GetAppliedWork(w, reply)
  <2> DEFINE j == [job[w] EXCEPT !.uid = aw[w].uid, !.seen = aw[w].recorded,
                                 !.todo = Manifests(job[w].snap.spec)]
  <2>1. j.uid = aw[w].uid /\ j.cur = job[w].cur
    BY <1>1 DEF Job
  <2>2. Return(w, TRUE) \/ Goto(w, "create", job[w]) \/ Goto(w, "apply", j)
    BY <1>2 DEF GetAppliedWork, ReadReply, StartApply
  <2> HIDE DEF j
  <2> QED
    BY <2>1, <2>2, JobStepGoto, JobStepReturn
<1>3. CASE CreateAppliedWork(w, reply)
  <2> DEFINE created == reply # "error" /\ aw[w].uid = 0
             uid == IF created THEN lastUid + 1 ELSE 0
             j == [job[w] EXCEPT !.uid = uid, !.seen = {},
                                 !.todo = Manifests(job[w].snap.spec)]
             k == [job[w] EXCEPT !.uid = uid]
  <2>1. /\ j.uid = uid /\ j.cur = job[w].cur
        /\ k.uid = uid /\ k.cur = job[w].cur
    BY <1>1 DEF Job
  <2>2. Return(w, TRUE) \/ Goto(w, "apply", j) \/ Goto(w, "finalize", k)
    <3>1. job[w].snap.fin \in BOOLEAN
      BY <1>1 DEF Job, WorkObject
    <3> QED
      BY <1>3, <3>1 DEF CreateAppliedWork, StartApply
  <2>3. uid \in {0, lastUid'}
    BY <1>3 DEF CreateAppliedWork
  <2> HIDE DEF j, k, uid
  <2> QED
    BY <2>1, <2>2, <2>3, JobStepGoto, JobStepReturn
<1>4. CASE AddFinalizer(w, reply)
  <2> DEFINE work == [job[w].snap EXCEPT !.fin = TRUE]
             j == [job[w] EXCEPT !.snap = work, !.todo = Manifests(work.spec)]
  <2>1. j.uid = job[w].uid /\ j.cur = job[w].cur
    BY <1>1 DEF Job
  <2>2. Return(w, TRUE) \/ Goto(w, "apply", j)
    BY <1>4 DEF AddFinalizer
  <2> HIDE DEF j
  <2> QED
    BY <2>1, <2>2, JobStepGoto, JobStepReturn
<1>5. ASSUME NEW r \in Resource, GetManifest(w, r, reply)
      PROVE  JobStep
  <2> DEFINE read == [job[w] EXCEPT !.at = r, !.cur = res[r]]
  <2>1. read.uid = job[w].uid /\ read.cur = res[r]
    BY <1>1 DEF Job
  <2>2. \/ Goto(w, "createObject", read) \/ Goto(w, "patch", read)
        \/ Goto(w, "apply", Applied(w, r)) \/ Goto(w, "apply", NotApplied(w, r))
    BY <1>5 DEF GetManifest, ReadReply, Managed
  <2> HIDE DEF read
  <2>3. CASE Goto(w, "createObject", read) \/ Goto(w, "patch", read)
    BY <2>1, <2>3, JobStepGoto DEF Found
  <2> QED
    BY <2>2, <2>3, JobStepVisit
<1>6. CASE CreateManifest(w, reply) \/ PatchManifest(w, reply)
  BY <1>6, JobStepVisit DEF CreateManifest, PatchManifest
<1>7. CASE UpdateWorkStatus(w, reply)
  <2> DEFINE j == job[w]
             next == [j EXCEPT !.todo = j.ok \ j.seen, !.keep = j.ok \cap j.seen,
                               !.stale = j.seen \ Manifests(j.snap.spec)]
  <2>1. next.uid = job[w].uid /\ next.cur = job[w].cur
    BY <1>1 DEF Job
  <2>2. Return(w, TRUE) \/ Goto(w, "sync", next)
    BY <1>7 DEF UpdateWorkStatus
  <2> HIDE DEF next
  <2> QED
    BY <2>1, <2>2, JobStepGoto, JobStepReturn
<1>8. ASSUME NEW r \in Resource, GetNewManifest(w, r, reply)
      PROVE  JobStep
  <2> DEFINE found == [job[w] EXCEPT !.todo = @ \ {r}, !.keep = @ \cup {r}]
             gone == [job[w] EXCEPT !.todo = @ \ {r}]
  <2>1. /\ found.uid = job[w].uid /\ found.cur = job[w].cur
        /\ gone.uid = job[w].uid /\ gone.cur = job[w].cur
    BY <1>1 DEF Job
  <2>2. Return(w, FALSE) \/ Goto(w, "sync", found) \/ Goto(w, "sync", gone)
    BY <1>8 DEF GetNewManifest, ReadReply
  <2> HIDE DEF found, gone
  <2> QED
    BY <2>1, <2>2, JobStepGoto, JobStepReturn
<1>9. ASSUME NEW r \in Resource, GetStaleManifest(w, r, reply)
      PROVE  JobStep
  <2> DEFINE next == [job[w] EXCEPT !.stale = @ \ {r}]
             failed == [next EXCEPT !.failed = TRUE]
             read == [next EXCEPT !.at = r, !.cur = res[r]]
             owned == IsOwner(res[r].owners, Me(w))
             others == RemainingOwners(res[r].owners, Me(w))
  <2>1. next.uid = job[w].uid /\ next.cur = job[w].cur
    BY <1>1 DEF Job
  <2>2. failed.uid = job[w].uid /\ failed.cur = job[w].cur
    BY <1>1 DEF Job
  <2>3. read.uid = job[w].uid /\ read.cur = res[r]
    BY <1>1 DEF Job
  <2>4. /\ reply \in {"error", "answer"}
        /\ CASE reply = "error" -> Goto(w, "sync", failed)
             [] reply = "answer" /\ ~owned -> Goto(w, "sync", next)
             [] reply = "answer" /\ owned /\ others = {} -> Goto(w, "deleteObject", read)
             [] reply = "answer" /\ owned /\ others # {} -> Goto(w, "release", read)
    BY <1>9 DEF GetStaleManifest, ReadReply
  <2> HIDE DEF next, failed, read, owned, others
  <2>5. \/ Goto(w, "sync", next) \/ Goto(w, "sync", failed)
        \/ Goto(w, "deleteObject", read) \/ Goto(w, "release", read)
    BY <2>4
  <2>6. CASE Goto(w, "sync", next) \/ Goto(w, "sync", failed)
    BY <2>1, <2>2, <2>6, JobStepGoto
  <2>7. CASE Goto(w, "deleteObject", read) \/ Goto(w, "release", read)
    BY <2>3, <2>7, JobStepGoto DEF Found
  <2> QED
    BY <2>5, <2>6, <2>7
<1>10. CASE DeleteStaleManifest(w, reply) \/ ReleaseStaleManifest(w, reply)
  <2>1. PICK failed : Goto(w, "sync", [Done(w) EXCEPT !.failed = failed])
    BY <1>10 DEF DeleteStaleManifest, ReleaseStaleManifest
  <2> DEFINE j == [Done(w) EXCEPT !.failed = failed]
  <2>2. j.uid = job[w].uid /\ j.cur = NoObject
    BY <1>1 DEF Job, Done
  <2>3. NoObject.owners = {}
    BY DEF NoObject
  <2> HIDE DEF j
  <2>4. Goto(w, "sync", j)
    BY <2>1 DEF j
  <2> QED
    BY <2>2, <2>3, <2>4, JobStepGoto
<1>11. CASE UpdateAppliedWork(w, reply)
  BY <1>11, JobStepReturn DEF UpdateAppliedWork, Resync
<1>12. CASE DeleteAppliedWork(w, reply)
  BY <1>12, JobStepGoto, JobStepReturn DEF DeleteAppliedWork
<1>13. CASE RemoveFinalizer(w, reply)
  BY <1>13, JobStepReturn DEF RemoveFinalizer
<1> QED
  BY <1>2, <1>3, <1>4, <1>5, <1>6, <1>7, <1>8, <1>9, <1>10, <1>11, <1>12, <1>13 DEF Step

LEMMA NextJob == TypeInv /\ [Next]_vars => JobStep
<1> SUFFICES ASSUME TypeInv, [Next]_vars PROVE JobStep
  OBVIOUS
<1>1. CASE UNCHANGED job
  BY <1>1 DEF JobStep
<1>2. /\ NoJob.uid = 0 /\ NoJob.cur.owners = {}
  BY DEF NoJob, NoObject
<1>3. ASSUME NEW w \in Work, Reconcile(w)
      PROVE  JobStep
  <2> DEFINE j == [NoJob EXCEPT !.snap = cache[w], !.fresh = (watch[w] = "current")]
  <2>1. j.uid = 0 /\ j.cur.owners = {}
    BY DEF NoJob, NoObject
  <2>2. job' = job \/ job' = [job EXCEPT ![w] = j]
    BY <1>3 DEF Reconcile
  <2> HIDE DEF j
  <2>3. CASE job' = [job EXCEPT ![w] = j]
    BY <2>1, <2>3 DEF JobStep, TypeInv, TypeOK
  <2> QED
    BY <1>1, <2>2, <2>3
<1>4. ASSUME NEW w \in Work, AbandonSync(w)
      PROVE  JobStep
  BY <1>4, JobStepReturn DEF AbandonSync
<1>5. ASSUME NEW w \in Work, User(w)
      PROVE  JobStep
  <2>1. job[w] \in Job
    BY DEF TypeInv, TypeOK
  <2> DEFINE j == [job[w] EXCEPT !.fresh = FALSE]
  <2>2. j.uid = job[w].uid /\ j.cur = job[w].cur
    BY <2>1 DEF Job
  <2>3. job' = [job EXCEPT ![w] = j]
    BY <1>5 DEF User, CreateWork, EditWork, DeleteWork, UserStores
  <2> HIDE DEF j
  <2> QED
    BY <2>2, <2>3 DEF JobStep, TypeInv, TypeOK
<1>6. CASE Restart
  BY <1>2, <1>6 DEF Restart, JobStep
<1>7. CASE \/ Tamper
           \/ \E r \in Resource : GarbageCollect(r)
           \/ \E w \in Work : CacheSync(w)
           \/ UNCHANGED vars
  BY <1>1, <1>7 DEF Tamper, TamperDeleteObject, TamperEditObject, TamperCreateObject,
                    TamperDeleteAppliedWork, ThirdParty, GarbageCollect, CacheSync, vars
<1> QED
  BY <1>3, <1>4, <1>5, <1>6, <1>7, StepJob DEF Next

\* What any step does to the owners of an object: it adds only owners that
\* were read from it, and the AppliedWork that is being applied.
Writes(w, o) == pc[w] \in Applying /\ job[w].uid # 0 /\ o = Me(w)
ResourceStep ==
    \A r \in Resource : \A o \in res'[r].owners :
        \/ o \in res[r].owners
        \/ \E w \in Work : o \in job[w].cur.owners \/ Writes(w, o)

LEMMA NextResource == TypeInv /\ [Next]_vars => ResourceStep
<1> SUFFICES ASSUME TypeInv, [Next]_vars PROVE ResourceStep
  OBVIOUS
<1>1. CASE UNCHANGED res
  BY <1>1 DEF ResourceStep
<1>2. ASSUME NEW r, NEW x, res' = [res EXCEPT ![r] = x],
             \A o \in x.owners : \/ o \in res[r].owners
                                 \/ \E w \in Work : o \in job[w].cur.owners \/ Writes(w, o)
      PROVE  ResourceStep
  BY <1>2 DEF ResourceStep, TypeInv, TypeOK
<1>3. ASSUME NEW w \in Work, NEW reply \in Reply, CreateManifest(w, reply)
      PROVE  ResourceStep
  <2> DEFINE r == job[w].at
             created == reply # "error" /\ ~Exists(res[r]) /\ job[w].uid # 0
             new == [content |-> Wanted(w), owners |-> {Me(w)}, last |-> {Me(w)},
                     hash |-> {<<Me(w), Wanted(w)>>}]
  <2>1. CASE created
    <3>1. res' = [res EXCEPT ![r] = new]
      BY <1>3, <2>1 DEF CreateManifest
    <3>2. \A o \in new.owners : Writes(w, o)
      BY <1>3, <2>1 DEF CreateManifest, Writes, Applying
    <3> HIDE DEF new, r
    <3> QED
      BY <1>2, <3>1, <3>2
  <2>2. CASE ~created
    BY <1>1, <1>3, <2>2 DEF CreateManifest
  <2> QED
    BY <2>1, <2>2
<1>4. ASSUME NEW w \in Work, NEW reply \in Reply, PatchManifest(w, reply)
      PROVE  ResourceStep
  <2> DEFINE r == job[w].at
             cur == job[w].cur
  <2>1. CASE reply # "error" /\ Patchable(w)
    <3>1. PICK merged \in MergedOwners(cur.owners, Me(w)) :
              res' = [res EXCEPT ![r] = Patched(r, Wanted(w), Me(w), merged, cur, res[r])]
      BY <1>4, <2>1 DEF PatchManifest
    <3> DEFINE new == Patched(r, Wanted(w), Me(w), merged, cur, res[r])
    <3>2. job[w] \in Job
      BY DEF TypeInv, TypeOK
    <3>3. cur.owners \in SUBSET Owner /\ Me(w) \in Owner
      BY <2>1, <3>2, MeType DEF Job, Object, Patchable, TypeInv
    <3>4. merged \subseteq cur.owners \cup {Me(w)}
      BY <3>3, MergedOwnersType
    <3>5. new.owners \subseteq res[r].owners \cup merged
      BY PatchedOwnersBound DEF Patched
    <3>6. Writes(w, Me(w))
      BY <1>4, <2>1 DEF PatchManifest, Patchable, Writes, Applying
    <3> HIDE DEF new
    <3>7. res' = [res EXCEPT ![r] = new]
      BY <3>1 DEF new
    <3>8. \A o \in new.owners : o \in res[r].owners \/ o \in cur.owners \/ Writes(w, o)
      BY <3>4, <3>5, <3>6
    <3> QED
      BY <1>2, <3>7, <3>8
  <2>2. CASE ~(reply # "error" /\ Patchable(w))
    BY <1>1, <1>4, <2>2 DEF PatchManifest
  <2> QED
    BY <2>1, <2>2
<1>5. NoObject.owners = {}
  BY DEF NoObject
<1>6. ASSUME NEW w \in Work, NEW reply \in Reply, DeleteStaleManifest(w, reply)
      PROVE  ResourceStep
  BY <1>1, <1>2, <1>5, <1>6 DEF DeleteStaleManifest
<1>7. ASSUME NEW w \in Work, NEW reply \in Reply, ReleaseStaleManifest(w, reply)
      PROVE  ResourceStep
  <2> DEFINE r == job[w].at
             cur == job[w].cur
             rest == RemainingOwners(cur.owners, Me(w))
             new == [res[r] EXCEPT !.owners = rest]
  <2>1. CASE res' = [res EXCEPT ![r].owners = rest] /\ res[r] = cur
    <3>1. res[r] \in Object
      BY <1>7 DEF ReleaseStaleManifest, TypeInv, TypeOK, JobShape, Shape
    <3>2. new.owners = rest
      BY <3>1 DEF Object
    <3>3. rest \subseteq res[r].owners
      BY <2>1, RemainingOwnersBound
    <3> HIDE DEF rest
    <3>4. res' = [res EXCEPT ![r] = new]
      BY <2>1
    <3> HIDE DEF new
    <3> QED
      BY <1>2, <3>2, <3>3, <3>4
  <2> QED
    BY <1>1, <1>7, <2>1 DEF ReleaseStaleManifest, Unchanged
<1>8. ASSUME NEW r \in Resource, GarbageCollect(r)
      PROVE  ResourceStep
  <2> DEFINE live == LiveOwners(res[r])
             new == IF live = {} THEN NoObject ELSE [res[r] EXCEPT !.owners = live]
  <2>1. res' = [res EXCEPT ![r] = new]
    BY <1>8 DEF GarbageCollect
  <2>2. live \subseteq res[r].owners
    BY DEF LiveOwners
  <2>3. res[r] \in Object
    BY DEF TypeInv, TypeOK
  <2> HIDE DEF live
  <2>4. new.owners \subseteq res[r].owners
    BY <1>5, <2>2, <2>3 DEF Object
  <2> HIDE DEF new
  <2> QED
    BY <1>2, <2>1, <2>4
<1>9. CASE Tamper
  <2>1. ASSUME NEW r \in Resource, TamperDeleteObject(r)
        PROVE  ResourceStep
    BY <1>2, <1>5, <2>1 DEF TamperDeleteObject
  <2>2. ASSUME NEW r \in Resource, TamperEditObject(r)
        PROVE  ResourceStep
    <3>1. PICK c : res' = [res EXCEPT ![r].content = c]
      BY <2>2 DEF TamperEditObject
    <3>2. res[r] \in Object
      BY DEF TypeInv, TypeOK
    <3>3. [res[r] EXCEPT !.content = c].owners = res[r].owners
      BY <3>2 DEF Object
    <3> QED
      BY <1>2, <3>1, <3>3
  <2>3. ASSUME NEW r \in Resource, TamperCreateObject(r)
        PROVE  ResourceStep
    <3>1. PICK c : res' = [res EXCEPT ![r] = [NoObject EXCEPT !.content = c]]
      BY <2>3 DEF TamperCreateObject
    <3>2. [NoObject EXCEPT !.content = c].owners = {}
      BY DEF NoObject
    <3> QED
      BY <1>2, <3>1, <3>2
  <2> QED
    BY <1>1, <1>9, <2>1, <2>2, <2>3 DEF Tamper, TamperDeleteAppliedWork
<1>10. ASSUME NEW w \in Work, NEW reply \in Reply, Step(w, reply)
       PROVE  ResourceStep
  BY <1>1, <1>3, <1>4, <1>6, <1>7, <1>10
     DEF Step, spokeVars, GetAppliedWork, CreateAppliedWork, AddFinalizer, GetManifest,
         UpdateWorkStatus, GetNewManifest, GetStaleManifest, UpdateAppliedWork,
         DeleteAppliedWork, RemoveFinalizer
<1>11. ASSUME NEW w \in Work, Reconcile(w) \/ AbandonSync(w) \/ CacheSync(w) \/ User(w)
       PROVE  ResourceStep
  BY <1>1, <1>11 DEF Reconcile, AbandonSync, CacheSync, User, CreateWork, EditWork,
                     DeleteWork, UserStores, spokeVars
<1>12. CASE Restart \/ UNCHANGED vars
  BY <1>1, <1>12 DEF Restart, spokeVars, vars
<1> QED
  BY <1>8, <1>9, <1>10, <1>11, <1>12 DEF Next

LEMMA UnguardElsewhere ==
    ASSUME UnguardInv, NEW w \in Work,
           \A v \in Work \ {w} : pc'[v] = pc[v] /\ aw'[v] = aw[v],
           pc'[w] = "unfinalize" => aw'[w].uid = 0
    PROVE  UnguardInv'
BY DEF UnguardInv

LEMMA NextUnguardInv == TypeInv /\ UnguardInv /\ [Next]_vars => UnguardInv'
<1> SUFFICES ASSUME TypeInv, UnguardInv, [Next]_vars PROVE UnguardInv'
  OBVIOUS
<1>1. ASSUME UNCHANGED pc, \/ UNCHANGED aw
                           \/ \E w \in Work : aw' = [aw EXCEPT ![w] = NoAppliedWork]
      PROVE  UnguardInv'
  BY <1>1 DEF UnguardInv, NoAppliedWork, TypeInv, TypeOK
<1>2. ASSUME NEW w \in Work, NEW label, NEW j, Goto(w, label, j), label # "unfinalize",
             \A v \in Work \ {w} : aw'[v] = aw[v]
      PROVE  UnguardInv'
  <2>1. /\ pc'[w] # "unfinalize"
        /\ \A v \in Work \ {w} : pc'[v] = pc[v]
    BY <1>2 DEF Goto, TypeInv, TypeOK
  <2> QED
    BY <1>2, <2>1, UnguardElsewhere
<1>3. ASSUME NEW w \in Work, NEW again, Return(w, again),
             \A v \in Work \ {w} : aw'[v] = aw[v]
      PROVE  UnguardInv'
  <2>1. /\ pc'[w] # "unfinalize"
        /\ \A v \in Work \ {w} : pc'[v] = pc[v]
    BY <1>3 DEF Return, TypeInv, TypeOK
  <2> QED
    BY <1>3, <2>1, UnguardElsewhere
<1>4. ASSUME NEW w \in Work, NEW reply \in Reply, DeleteAppliedWork(w, reply)
      PROVE  UnguardInv'
  <2>1. \A v \in Work \ {w} : aw'[v] = aw[v]
    BY <1>4 DEF DeleteAppliedWork, TypeInv, TypeOK
  <2>2. CASE reply = "answer"
    <3>1. aw'[w].uid = 0
      BY <1>4, <2>2 DEF DeleteAppliedWork, NoAppliedWork, TypeInv, TypeOK
    <3>2. \A v \in Work \ {w} : pc'[v] = pc[v]
      BY <1>4, <2>2 DEF DeleteAppliedWork, Goto, TypeInv, TypeOK
    <3> QED
      BY <2>1, <3>1, <3>2, UnguardElsewhere
  <2>3. CASE reply # "answer"
    BY <1>3, <1>4, <2>1, <2>3 DEF DeleteAppliedWork
  <2> QED
    BY <2>2, <2>3
<1>5. ASSUME NEW w \in Work, NEW reply \in Reply, Step(w, reply)
      PROVE  UnguardInv'
  <2>1. CASE GetAppliedWork(w, reply) \/ CreateAppliedWork(w, reply) \/ AddFinalizer(w, reply)
    <3>1. \A v \in Work \ {w} : aw'[v] = aw[v]
      BY <2>1 DEF GetAppliedWork, CreateAppliedWork, AddFinalizer, spokeVars, TypeInv, TypeOK
    <3>2. job[w].snap.fin \in BOOLEAN
      BY DEF TypeInv, TypeOK, Job, WorkObject
    <3>3. \/ \E again : Return(w, again)
          \/ \E j : \/ Goto(w, "create", j) \/ Goto(w, "finalize", j)
                    \/ Goto(w, "apply", j)
      <4>1. CASE GetAppliedWork(w, reply)
        BY <4>1 DEF GetAppliedWork, StartApply, ReadReply
      <4>2. CASE CreateAppliedWork(w, reply)
        BY <4>2, <3>2 DEF CreateAppliedWork, StartApply
      <4>3. CASE AddFinalizer(w, reply)
        BY <4>3 DEF AddFinalizer
      <4> QED
        BY <2>1, <4>1, <4>2, <4>3
    <3> QED
      BY <1>2, <1>3, <3>1, <3>3
  <2>2. CASE \/ \E r \in Resource : GetManifest(w, r, reply)
             \/ CreateManifest(w, reply) \/ PatchManifest(w, reply)
             \/ UpdateWorkStatus(w, reply)
    <3>1. UNCHANGED aw
      BY <2>2 DEF GetManifest, CreateManifest, PatchManifest, UpdateWorkStatus, spokeVars
    <3>2. \/ \E again : Return(w, again)
          \/ \E j : \/ Goto(w, "apply", j) \/ Goto(w, "createObject", j)
                    \/ Goto(w, "patch", j) \/ Goto(w, "sync", j)
      BY <2>2 DEF GetManifest, ReadReply, Managed, CreateManifest, PatchManifest,
                  UpdateWorkStatus
    <3> QED
      BY <1>2, <1>3, <3>1, <3>2
  <2>3. CASE \/ \E r \in Resource : GetNewManifest(w, r, reply)
             \/ \E r \in Resource : GetStaleManifest(w, r, reply)
             \/ DeleteStaleManifest(w, reply) \/ ReleaseStaleManifest(w, reply)
    <3>1. UNCHANGED aw
      BY <2>3 DEF GetNewManifest, GetStaleManifest, DeleteStaleManifest,
                  ReleaseStaleManifest, spokeVars
    <3>2. \/ \E again : Return(w, again)
          \/ \E j : \/ Goto(w, "sync", j) \/ Goto(w, "deleteObject", j)
                    \/ Goto(w, "release", j)
      <4>1. ASSUME NEW r \in Resource, GetNewManifest(w, r, reply)
            PROVE  \/ Return(w, FALSE)
                   \/ \E j : Goto(w, "sync", j)
        BY <4>1 DEF GetNewManifest, ReadReply
      <4>2. ASSUME NEW r \in Resource, GetStaleManifest(w, r, reply)
            PROVE  \E j : \/ Goto(w, "sync", j) \/ Goto(w, "deleteObject", j)
                         \/ Goto(w, "release", j)
        BY <4>2 DEF GetStaleManifest, ReadReply
      <4>3. CASE DeleteStaleManifest(w, reply) \/ ReleaseStaleManifest(w, reply)
        BY <4>3 DEF DeleteStaleManifest, ReleaseStaleManifest
      <4> QED
        BY <2>3, <4>1, <4>2, <4>3
    <3> QED
      BY <1>2, <1>3, <3>1, <3>2
  <2>4. CASE UpdateAppliedWork(w, reply)
    <3>1. \A v \in Work \ {w} : aw'[v] = aw[v]
      BY <2>4 DEF UpdateAppliedWork, TypeInv, TypeOK
    <3> QED
      BY <1>3, <2>4, <3>1 DEF UpdateAppliedWork, Resync
  <2>5. CASE RemoveFinalizer(w, reply)
    BY <1>3, <2>5 DEF RemoveFinalizer, spokeVars
  <2> QED
    BY <1>4, <1>5, <2>1, <2>2, <2>3, <2>4, <2>5 DEF Step
<1>6. ASSUME NEW w \in Work, Reconcile(w)
      PROVE  UnguardInv'
  <2>1. cache[w] \in WorkObject
    BY DEF TypeInv, TypeOK
  <2>2. /\ pc'[w] # "unfinalize" /\ UNCHANGED aw
        /\ \A v \in Work \ {w} : pc'[v] = pc[v]
    BY <1>6, <2>1 DEF Reconcile, EntryPoint, WorkObject, spokeVars, TypeInv, TypeOK
  <2> QED
    BY <2>2, UnguardElsewhere
<1>7. ASSUME NEW w \in Work, AbandonSync(w) \/ CacheSync(w) \/ User(w)
      PROVE  UnguardInv'
  BY <1>1, <1>3, <1>7 DEF AbandonSync, CacheSync, User, CreateWork, EditWork, DeleteWork,
                          UserStores, spokeVars
<1>8. CASE Tamper
  BY <1>1, <1>8 DEF Tamper, TamperDeleteObject, TamperEditObject, TamperCreateObject,
                    TamperDeleteAppliedWork, ThirdParty
<1>9. CASE Restart
  BY <1>9 DEF Restart, UnguardInv
<1>10. CASE (\E r \in Resource : GarbageCollect(r)) \/ UNCHANGED vars
  BY <1>1, <1>10 DEF GarbageCollect, vars
<1> QED
  BY <1>5, <1>6, <1>7, <1>8, <1>9, <1>10 DEF Next

\* A reference that was made stays guarded, whatever step is taken.
LEMMA RefKept ==
    ASSUME UnguardInv, TypeInv, FinalizerStep, AppliedWorkStep,
           NEW o \in Owner, RefInv(o)
    PROVE  RefInv(o)'
<1>1. o.work \in Work /\ o.uid \in Nat \ {0}
  BY DEF Owner
<1>2. lastUid \in Nat
  BY DEF TypeInv, TypeOK
<1>3. o.uid <= lastUid'
  BY <1>1, <1>2 DEF RefInv, AppliedWorkStep
<1>4. ASSUME aw'[o.work].uid = o.uid
      PROVE  hub'[o.work].fin
  <2>1. aw[o.work].uid = o.uid
    BY <1>1, <1>2, <1>4 DEF RefInv, AppliedWorkStep
  <2> QED
    BY <1>1, <2>1 DEF RefInv, UnguardInv, FinalizerStep
<1> QED
  BY <1>3, <1>4 DEF RefInv

LEMMA NextOwnersInv ==
    TypeInv /\ FinalizerInv /\ OwnedInv /\ [Next]_vars => OwnersInv'
<1> SUFFICES ASSUME TypeInv, FinalizerInv, OwnedInv, [Next]_vars PROVE OwnersInv'
  OBVIOUS
<1>1. FinalizerStep /\ AppliedWorkStep /\ JobStep /\ ResourceStep /\ TypeInv'
  BY NextFinalizer, NextAppliedWork, NextJob, NextResource, NextTypeInv
<1>2. ASSUME NEW o \in Owner, RefInv(o)
      PROVE  RefInv(o)'
  BY <1>1, <1>2, RefKept DEF OwnedInv
<1>3. \A w \in Work : aw'[w].uid <= lastUid' /\ job'[w].uid <= lastUid'
  <2> TAKE w \in Work
  <2>1. /\ lastUid \in Nat
        /\ aw[w].uid \in Nat /\ job[w].uid \in Nat
        /\ aw[w].uid <= lastUid /\ job[w].uid <= lastUid
    BY DEF TypeInv, TypeOK, AppliedWork, Job, OwnedInv, OwnersInv
  <2> QED
    BY <1>1, <2>1 DEF AppliedWorkStep, JobStep
<1>4. \A w \in Work : \A o \in job[w].cur.owners : o \in Owner /\ RefInv(o)
  BY DEF TypeInv, TypeOK, Job, Object, OwnedInv, OwnersInv
<1>5. \A r \in Resource : \A o \in res[r].owners : o \in Owner /\ RefInv(o)
  BY DEF TypeInv, TypeOK, Object, OwnedInv, OwnersInv
<1>6. ASSUME NEW w \in Work, NEW o, Writes(w, o)
      PROVE  o \in Owner /\ RefInv(o)
  <2>1. hub[w].fin
    BY <1>6, ReliesNow DEF Writes, Relies
  <2>2. Me(w) \in Owner
    BY <1>6, MeType DEF Writes, TypeInv
  <2>3. Me(w).work = w /\ Me(w).uid = job[w].uid /\ job[w].uid <= lastUid
    BY DEF Me, OwnedInv, OwnersInv
  <2> QED
    BY <1>6, <2>1, <2>2, <2>3 DEF Writes, RefInv
<1>7. \A w \in Work : \A o \in job'[w].cur.owners : RefInv(o)'
  BY <1>1, <1>2, <1>4, <1>5 DEF JobStep, Found
<1>8. \A r \in Resource : \A o \in res'[r].owners : RefInv(o)'
  BY <1>1, <1>2, <1>4, <1>5, <1>6 DEF ResourceStep
<1> QED
  BY <1>3, <1>7, <1>8 DEF OwnersInv

LEMMA InitOwnedInv == Init => OwnedInv
BY DEF Init, OwnedInv, UnguardInv, OwnersInv, NoAppliedWork, NoJob, NoObject

LEMMA OwnedInvariant == SafeSpec => [](TypeInv /\ FinalizerInv /\ OwnedInv)
<1> DEFINE Inv == TypeInv /\ FinalizerInv /\ OwnedInv
<1>1. Init => Inv
  BY InitTypeInv, InitFinalizerInv, InitOwnedInv
<1>2. Inv /\ [Next]_vars => Inv'
  BY NextTypeInv, NextFinalizerInv, NextUnguardInv, NextOwnersInv DEF OwnedInv
<1> QED
  BY <1>1, <1>2, PTL DEF SafeSpec

\* No Work can leave the hub while its AppliedWork owns an object of the spoke.
THEOREM OwnedObjectsAreGuarded == SafeSpec => []OwnedOnlyUnderFinalizer
<1>1. TypeInv /\ OwnedInv => OwnedOnlyUnderFinalizer
  BY DEF TypeInv, TypeOK, Object, OwnedInv, OwnersInv, RefInv, LiveOwners,
         OwnedOnlyUnderFinalizer
<1> QED
  BY <1>1, OwnedInvariant, PTL

-----------------------------------------------------------------------------
(* The AppliedWork of a Work with the finalizer. It is created first and     *)
(* deleted first; only a third party could delete it in between.            *)

GuardInv == \A w \in Work : Kept(hub[w]) \/ pc[w] = "finalize" => aw[w].uid # 0

\* A live Work gets the finalizer only from a reconcile that ensured the
\* AppliedWork.
KeptStep == \A w \in Work : Kept(hub'[w]) => Kept(hub[w]) \/ pc[w] = "finalize"

LEMMA NextKept == TypeInv /\ FinalizerInv /\ [Next]_vars => KeptStep
<1> SUFFICES ASSUME TypeInv, FinalizerInv, [Next]_vars PROVE KeptStep
  OBVIOUS
<1>1. CASE UNCHANGED hub
  BY <1>1 DEF KeptStep
<1>2. ASSUME NEW w \in Work, NEW x \in WorkObject, NEW new, HubStores(w, x, new),
             Kept(x) => Kept(hub[w]) \/ pc[w] = "finalize"
      PROVE  KeptStep
  BY <1>2 DEF KeptStep, HubStores, TypeInv, TypeOK
<1>3. ASSUME NEW w \in Work, User(w)
      PROVE  KeptStep
  <2>1. hub[w] \in WorkObject
    BY DEF TypeInv, TypeOK
  <2>2. CASE CreateWork(w)
    <3>1. PICK spec \in Workload :
              UserStores(w, [phase |-> "live", fin |-> FALSE, spec |-> spec])
      BY <2>2 DEF CreateWork
    <3>2. [phase |-> "live", fin |-> FALSE, spec |-> spec] \in WorkObject
      BY DEF WorkObject
    <3> QED
      BY <1>2, <3>1, <3>2 DEF UserStores, Kept
  <2>3. CASE EditWork(w)
    <3>1. PICK spec \in Workload : UserStores(w, [hub[w] EXCEPT !.spec = spec])
      BY <2>3 DEF EditWork
    <3> DEFINE x == [hub[w] EXCEPT !.spec = spec]
    <3>2. x \in WorkObject /\ x.fin = hub[w].fin /\ x.phase = hub[w].phase
      BY <2>1 DEF WorkObject
    <3>3. HubStores(w, x, TRUE)
      BY <3>1 DEF UserStores
    <3> HIDE DEF x
    <3> QED
      BY <1>2, <3>2, <3>3 DEF Kept
  <2>4. CASE DeleteWork(w)
    <3> DEFINE x == [hub[w] EXCEPT !.phase = "deleting"]
    <3>1. x \in WorkObject /\ x.phase = "deleting" /\ NoWork.phase = "absent"
      BY <2>1 DEF WorkObject, NoWork
    <3>2. HubStores(w, x, TRUE) \/ HubStores(w, NoWork, TRUE)
      BY <2>4 DEF DeleteWork, UserStores
    <3> HIDE DEF x
    <3> QED
      BY <1>2, <3>1, <3>2, NoWorkType DEF Kept
  <2> QED
    BY <1>3, <2>2, <2>3, <2>4 DEF User
<1>4. ASSUME NEW w \in Work, NEW reply \in Reply, AddFinalizer(w, reply)
      PROVE  KeptStep
  <2>1. [job[w].snap EXCEPT !.fin = TRUE] \in WorkObject
    <3>1. job[w].snap \in WorkObject
      BY ReliesNow DEF Job
    <3> QED
      BY <3>1 DEF WorkObject
  <2> QED
    BY <1>1, <1>2, <1>4, <2>1 DEF AddFinalizer
<1>5. ASSUME NEW w \in Work, NEW reply \in Reply, UpdateWorkStatus(w, reply)
      PROVE  KeptStep
  <2>1. job[w].snap \in WorkObject
    BY ReliesNow DEF Job
  <2>2. CASE Accepted(w, reply)
    <3>1. hub[w] = job[w].snap
      BY <2>2 DEF Accepted, FinalizerInv, CopiesInv
    <3> QED
      BY <1>2, <1>5, <2>1, <2>2, <3>1 DEF UpdateWorkStatus
  <2>3. CASE ~Accepted(w, reply)
    BY <1>1, <1>5, <2>3 DEF UpdateWorkStatus
  <2> QED
    BY <2>2, <2>3
<1>6. ASSUME NEW w \in Work, NEW reply \in Reply, RemoveFinalizer(w, reply)
      PROVE  KeptStep
  <2>1. ~Kept(NoWork)
    BY DEF NoWork, Kept
  <2> QED
    BY <1>1, <1>2, <1>6, <2>1, NoWorkType DEF RemoveFinalizer
<1>7. ASSUME NEW w \in Work, Reconcile(w) \/ AbandonSync(w) \/ CacheSync(w)
      PROVE  KeptStep
  BY <1>1, <1>7 DEF Reconcile, AbandonSync, CacheSync, hubVars
<1>8. ASSUME NEW w \in Work, NEW reply \in Reply, Step(w, reply)
      PROVE  KeptStep
  BY <1>1, <1>4, <1>5, <1>6, <1>8
     DEF Step, hubVars, GetAppliedWork, CreateAppliedWork, GetManifest, CreateManifest,
         PatchManifest, GetNewManifest, GetStaleManifest, DeleteStaleManifest,
         ReleaseStaleManifest, UpdateAppliedWork, DeleteAppliedWork
<1>9. CASE Tamper \/ Restart \/ (\E r \in Resource : GarbageCollect(r)) \/ UNCHANGED vars
  BY <1>1, <1>9 DEF Tamper, TamperDeleteObject, TamperEditObject, TamperCreateObject,
                    TamperDeleteAppliedWork, ThirdParty, Restart, GarbageCollect, hubVars, vars
<1> QED
  BY <1>3, <1>7, <1>8, <1>9 DEF Next

\* An AppliedWork is deleted only by a reconcile that collects it.
CollectStep ==
    \A w \in Work : aw[w].uid # 0 => \/ aw'[w].uid # 0
                                     \/ pc[w] = "collect" /\ pc'[w] # "finalize"

LEMMA NextCollect ==
    ASSUME "deleteAppliedWork" \notin Tampering
    PROVE  TypeInv /\ [Next]_vars => CollectStep
<1> SUFFICES ASSUME TypeInv, [Next]_vars PROVE CollectStep
  OBVIOUS
<1>1. CASE UNCHANGED aw
  BY <1>1 DEF CollectStep
<1>2. ASSUME NEW w \in Work, NEW reply \in Reply, DeleteAppliedWork(w, reply)
      PROVE  CollectStep
  <2>1. \A v \in Work \ {w} : aw'[v] = aw[v]
    BY <1>2 DEF DeleteAppliedWork, TypeInv, TypeOK
  <2>2. pc[w] = "collect" /\ pc'[w] # "finalize"
    BY <1>2 DEF DeleteAppliedWork, Goto, Return, TypeInv, TypeOK
  <2> QED
    BY <2>1, <2>2 DEF CollectStep
<1>3. ASSUME NEW w \in Work, NEW reply \in Reply,
             CreateAppliedWork(w, reply) \/ UpdateAppliedWork(w, reply)
      PROVE  CollectStep
  <2>1. CASE CreateAppliedWork(w, reply) /\ reply # "error" /\ aw[w].uid = 0
    <3>1. aw' = [aw EXCEPT ![w] = [uid |-> lastUid + 1, recorded |-> {}]]
      BY <2>1 DEF CreateAppliedWork
    <3>2. lastUid + 1 # 0
      BY DEF TypeInv, TypeOK
    <3> QED
      BY <3>1, <3>2 DEF CollectStep, TypeInv, TypeOK
  <2>2. CASE CreateAppliedWork(w, reply) /\ ~(reply # "error" /\ aw[w].uid = 0)
    BY <1>1, <2>2 DEF CreateAppliedWork
  <2>3. CASE UpdateAppliedWork(w, reply)
    <3>1. aw[w] \in AppliedWork
      BY DEF TypeInv, TypeOK
    <3>2. [aw[w] EXCEPT !.recorded = job[w].keep].uid = aw[w].uid
      BY <3>1 DEF AppliedWork
    <3>3. aw' = aw \/ aw' = [aw EXCEPT ![w].recorded = job[w].keep]
      BY <2>3 DEF UpdateAppliedWork
    <3> QED
      BY <1>1, <3>2, <3>3 DEF CollectStep, TypeInv, TypeOK
  <2> QED
    BY <1>3, <2>1, <2>2, <2>3
<1>4. ASSUME NEW w \in Work, NEW reply \in Reply, Step(w, reply)
      PROVE  CollectStep
  BY <1>1, <1>2, <1>3, <1>4
     DEF Step, spokeVars, GetAppliedWork, AddFinalizer, GetManifest, CreateManifest,
         PatchManifest, UpdateWorkStatus, GetNewManifest, GetStaleManifest,
         DeleteStaleManifest, ReleaseStaleManifest, RemoveFinalizer
<1>5. ASSUME NEW w \in Work, Reconcile(w) \/ AbandonSync(w) \/ CacheSync(w) \/ User(w)
      PROVE  CollectStep
  BY <1>1, <1>5 DEF Reconcile, AbandonSync, CacheSync, User, CreateWork, EditWork,
                    DeleteWork, UserStores, spokeVars
<1>6. CASE Tamper
  BY <1>1, <1>6 DEF Tamper, TamperDeleteObject, TamperEditObject, TamperCreateObject,
                    TamperDeleteAppliedWork, ThirdParty
<1>7. CASE Restart \/ (\E r \in Resource : GarbageCollect(r)) \/ UNCHANGED vars
  BY <1>1, <1>7 DEF Restart, GarbageCollect, spokeVars, vars
<1> QED
  BY <1>4, <1>5, <1>6, <1>7 DEF Next

\* The finalizer is added only once the AppliedWork is known to exist.
EnsureStep ==
    \A w \in Work : pc'[w] = "finalize" => pc[w] = "finalize" \/ aw'[w].uid # 0

LEMMA NextEnsure == TypeInv /\ [Next]_vars => EnsureStep
<1> SUFFICES ASSUME TypeInv, [Next]_vars PROVE EnsureStep
  OBVIOUS
<1>1. CASE UNCHANGED pc
  BY <1>1 DEF EnsureStep
<1>2. ASSUME NEW w \in Work, NEW label, pc' = [pc EXCEPT ![w] = label],
             label = "finalize" => aw'[w].uid # 0
      PROVE  EnsureStep
  BY <1>2 DEF EnsureStep, TypeInv, TypeOK
<1>3. ASSUME NEW w \in Work, NEW reply \in Reply, CreateAppliedWork(w, reply)
      PROVE  EnsureStep
  <2>1. CASE reply = "answer"
    <3>1. aw'[w].uid # 0
      BY <1>3, <2>1 DEF CreateAppliedWork, TypeInv, TypeOK
    <3>2. \E label : pc' = [pc EXCEPT ![w] = label]
      <4>1. job[w].snap.fin \in BOOLEAN
        BY DEF TypeInv, TypeOK, Job, WorkObject
      <4> QED
        BY <1>3, <2>1, <4>1 DEF CreateAppliedWork, StartApply, Goto
    <3> QED
      BY <1>2, <3>1, <3>2
  <2>2. CASE reply # "answer"
    BY <1>2, <1>3, <2>2 DEF CreateAppliedWork, Return
  <2> QED
    BY <2>1, <2>2
<1>4. ASSUME NEW w \in Work, NEW r \in Resource, NEW reply \in Reply,
             GetManifest(w, r, reply) \/ GetNewManifest(w, r, reply)
      PROVE  EnsureStep
  BY <1>2, <1>4 DEF GetManifest, GetNewManifest, ReadReply, Managed, Goto, Return
<1>5. ASSUME NEW w \in Work, NEW r \in Resource, NEW reply \in Reply,
             GetStaleManifest(w, r, reply)
      PROVE  EnsureStep
  <2>1. \E j : \/ Goto(w, "sync", j) \/ Goto(w, "deleteObject", j)
              \/ Goto(w, "release", j)
    BY <1>5 DEF GetStaleManifest, ReadReply
  <2> QED
    BY <1>2, <2>1 DEF Goto
<1>6. ASSUME NEW w \in Work, NEW reply \in Reply,
             \/ GetAppliedWork(w, reply) \/ AddFinalizer(w, reply)
             \/ DeleteAppliedWork(w, reply) \/ RemoveFinalizer(w, reply)
      PROVE  EnsureStep
  BY <1>2, <1>6 DEF GetAppliedWork, AddFinalizer, DeleteAppliedWork, RemoveFinalizer,
                    ReadReply, StartApply, Goto, Return
<1>7. ASSUME NEW w \in Work, NEW reply \in Reply,
             \/ CreateManifest(w, reply) \/ PatchManifest(w, reply)
             \/ UpdateWorkStatus(w, reply) \/ DeleteStaleManifest(w, reply)
             \/ ReleaseStaleManifest(w, reply) \/ UpdateAppliedWork(w, reply)
      PROVE  EnsureStep
  BY <1>2, <1>7 DEF CreateManifest, PatchManifest, UpdateWorkStatus, DeleteStaleManifest,
                    ReleaseStaleManifest, UpdateAppliedWork, Resync, Goto, Return
<1>8. ASSUME NEW w \in Work, Reconcile(w)
      PROVE  EnsureStep
  <2>1. EntryPoint(cache[w]) # "finalize"
    BY DEF EntryPoint, TypeInv, TypeOK, WorkObject
  <2> QED
    BY <1>2, <1>8, <2>1 DEF Reconcile
<1>9. ASSUME NEW w \in Work, AbandonSync(w) \/ CacheSync(w) \/ User(w)
      PROVE  EnsureStep
  BY <1>1, <1>2, <1>9 DEF AbandonSync, Return, CacheSync, User, CreateWork, EditWork,
                          DeleteWork, UserStores
<1>10. CASE Restart
  BY <1>10 DEF Restart, EnsureStep
<1>11. CASE Tamper \/ (\E r \in Resource : GarbageCollect(r)) \/ UNCHANGED vars
  BY <1>1, <1>11 DEF Tamper, TamperDeleteObject, TamperEditObject, TamperCreateObject,
                     TamperDeleteAppliedWork, ThirdParty, GarbageCollect, vars
<1> QED
  BY <1>3, <1>4, <1>5, <1>6, <1>7, <1>8, <1>9, <1>10, <1>11 DEF Next, Step

LEMMA NextGuardInv ==
    ASSUME "deleteAppliedWork" \notin Tampering
    PROVE  TypeInv /\ FinalizerInv /\ GuardInv /\ [Next]_vars => GuardInv'
<1> SUFFICES ASSUME TypeInv, FinalizerInv, GuardInv, [Next]_vars,
                    NEW w \in Work, Kept(hub'[w]) \/ pc'[w] = "finalize"
             PROVE  aw'[w].uid # 0
  BY DEF GuardInv, Kept
<1>1. KeptStep /\ CollectStep /\ EnsureStep
  BY NextKept, NextCollect, NextEnsure
<1>2. CASE aw[w].uid # 0
  <2>1. pc[w] = "collect" => ~Kept(hub[w])
    BY ReliesNow DEF Relies, Collecting
  <2> QED
    BY <1>1, <1>2, <2>1 DEF KeptStep, CollectStep
<1>3. CASE aw[w].uid = 0
  BY <1>1, <1>3 DEF KeptStep, EnsureStep, GuardInv
<1> QED
  BY <1>2, <1>3

LEMMA InitGuardInv == Init => GuardInv
BY DEF Init, GuardInv, Kept, NoWork

\* Where nobody else deletes an AppliedWork, a live Work with the finalizer has
\* one.
THEOREM FinalizerImpliesAppliedWork ==
    ASSUME "deleteAppliedWork" \notin Tampering
    PROVE  SafeSpec => []FinalizerGuardsAppliedWork
<1>1. GuardInv => FinalizerGuardsAppliedWork
  BY DEF GuardInv, FinalizerGuardsAppliedWork, Kept
<1> QED
  BY <1>1, InitGuardInv, NextGuardInv, OwnedInvariant, PTL DEF SafeSpec
=============================================================================
