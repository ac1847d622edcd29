--------------------- MODULE ApplyWorkLifecycle_proofs ---------------------
(***************************************************************************)
(* The controller implements WorkLifecycle, for any numbers of Works,      *)
(* resources, workers and disturbances.                                    *)
(***************************************************************************)
EXTENDS ApplyWorkFinalizer_proofs

USE BuiltInAssumption, AbsentAssumption, MaxConcurrentAssumption, BudgetAssumption

-----------------------------------------------------------------------------
(* Hops. What a step does to one Work, seen from far: to the Work on the   *)
(* hub, to its copies in the cache and in the reconcile, to the label the  *)
(* reconcile is at, and to whether the AppliedWork exists. Objects, queue  *)
(* and budget are out of sight. All that an invariant about finalizer and  *)
(* AppliedWork needs to know of an action is the hop it makes.             *)

CopiesRest(w) == hub'[w] = hub[w] /\ cache'[w] = cache[w] /\ watch'[w] = watch[w]
AnchorRests(w) == aw'[w].uid = aw[w].uid

\* The reconcile goes on at a label with its copy of the Work, or ends.
Goes(w, label) == /\ pc'[w] = label
                  /\ job'[w].snap = job[w].snap /\ job'[w].fresh = job[w].fresh
Ends(w) == pc'[w] = "idle" /\ ~job'[w].fresh

\* The hub stores a write of the controller, which the cache has yet to see.
Stores(w, x) == hub'[w] = x /\ watch'[w] # "current" /\ cache'[w] = cache[w]

HopRest(w) == CopiesRest(w) /\ AnchorRests(w) /\ Goes(w, pc[w])

HopBegin(w) ==
    /\ pc[w] = "idle"
    /\ pc'[w] = EntryPoint(cache[w])
    /\ job'[w].snap = cache[w] /\ job'[w].fresh = (watch[w] = "current")
    /\ CopiesRest(w) /\ AnchorRests(w)

HopGet(w) ==
    /\ pc[w] = "get"
    /\ Goes(w, "create") \/ Goes(w, "apply")
    /\ CopiesRest(w) /\ AnchorRests(w)

HopAnchor(w) ==
    /\ pc[w] = "create"
    /\ aw[w].uid # 0 => AnchorRests(w)
    /\ \/ Ends(w)
       \/ aw'[w].uid # 0 /\ Goes(w, IF job[w].snap.fin THEN "apply" ELSE "finalize")
    /\ CopiesRest(w)

HopHold(w) ==
    /\ pc[w] = "finalize" /\ job[w].fresh
    /\ Stores(w, [job[w].snap EXCEPT !.fin = TRUE])
    /\ \/ Ends(w)
       \/ pc'[w] = "apply" /\ job'[w].snap = hub'[w]
    /\ AnchorRests(w)

HopApply(w) ==
    /\ pc[w] \in Applying
    /\ \E label \in Applying : Goes(w, label)
    /\ CopiesRest(w) /\ AnchorRests(w)

HopReport(w) ==
    /\ pc[w] \in Applying /\ job[w].fresh
    /\ Stores(w, job[w].snap)
    /\ Ends(w) \/ Goes(w, "sync")
    /\ AnchorRests(w)

HopEnd(w) == Ends(w) /\ CopiesRest(w) /\ AnchorRests(w)

HopCollect(w) ==
    /\ pc[w] = "collect"
    /\ \/ Ends(w) /\ (AnchorRests(w) \/ aw'[w].uid = 0)
       \/ Goes(w, "unfinalize") /\ aw'[w].uid = 0
    /\ CopiesRest(w)

HopLetGo(w) ==
    /\ pc[w] = "unfinalize" /\ job[w].fresh
    /\ Stores(w, NoWork)
    /\ Ends(w) /\ AnchorRests(w)

HopDeliver(w) ==
    /\ cache'[w] = hub[w] /\ watch'[w] = "current" /\ hub'[w] = hub[w]
    /\ Goes(w, pc[w]) /\ AnchorRests(w)

HopUser(w) ==
    /\ \/ hub[w].phase = "absent" /\ hub'[w].phase = "live" /\ ~hub'[w].fin
       \/ /\ hub[w].phase # "absent"
          /\ hub'[w].phase = hub[w].phase /\ hub'[w].fin = hub[w].fin
       \/ hub[w].phase = "live" /\ hub[w].fin /\ hub'[w].phase = "deleting" /\ hub'[w].fin
       \/ hub[w].phase = "live" /\ ~hub[w].fin /\ hub'[w] = NoWork
    /\ watch'[w] # "current" /\ cache'[w] = cache[w]
    /\ pc'[w] = pc[w] /\ job'[w].snap = job[w].snap /\ ~job'[w].fresh
    /\ AnchorRests(w)

HopTamper(w) ==
    /\ "deleteAppliedWork" \in Tampering
    /\ aw'[w].uid = 0
    /\ CopiesRest(w) /\ Goes(w, pc[w])

HopRestart(w) ==
    /\ hub'[w] = hub[w] /\ cache'[w] = hub[w] /\ watch'[w] = "current"
    /\ Ends(w) /\ AnchorRests(w)

Hop(w) ==
    \/ HopRest(w) \/ HopBegin(w) \/ HopGet(w) \/ HopAnchor(w) \/ HopHold(w)
    \/ HopApply(w) \/ HopReport(w) \/ HopEnd(w) \/ HopCollect(w) \/ HopLetGo(w)
    \/ HopDeliver(w) \/ HopUser(w) \/ HopTamper(w) \/ HopRestart(w)

\* One Work hops and the others rest.
HopAlone(w) == Hop(w) /\ \A v \in Work \ {w} : HopRest(v)
Hops == \/ \E w \in Work : HopAlone(w)
        \/ \A w \in Work : HopRest(w)
        \/ \A w \in Work : HopRestart(w)

-----------------------------------------------------------------------------
(* Every step of the controller and of its environment is such a hop.       *)

\* Going on or returning, with nothing written on the hub or to AppliedWorks
\* but one's own.
LEMMA GotoHop ==
    ASSUME TypeInv, NEW w \in Work, NEW label, NEW j, Goto(w, label, j),
           UNCHANGED <<hub, cache, watch>>,
           j.snap = job[w].snap, j.fresh = job[w].fresh,
           \A v \in Work \ {w} : aw'[v] = aw[v]
    PROVE  /\ CopiesRest(w) /\ Goes(w, label)
           /\ \A v \in Work \ {w} : HopRest(v)
BY DEF Goto, CopiesRest, Goes, HopRest, AnchorRests, TypeInv, TypeOK

LEMMA ReturnHop ==
    ASSUME TypeInv, NEW w \in Work, NEW again, Return(w, again),
           UNCHANGED <<hub, cache, watch>>,
           \A v \in Work \ {w} : aw'[v] = aw[v]
    PROVE  /\ CopiesRest(w) /\ Ends(w)
           /\ \A v \in Work \ {w} : HopRest(v)
BY DEF Return, NoJob, CopiesRest, Goes, Ends, HopRest, AnchorRests, TypeInv, TypeOK

\* The same with a write to the hub.
LEMMA StoreHop ==
    ASSUME TypeInv, NEW w \in Work, NEW x, NEW new, HubStores(w, x, new),
           UNCHANGED <<cache, aw>>,
           \/ \E label, j : Goto(w, label, j)
           \/ \E again : Return(w, again)
    PROVE  /\ Stores(w, x) /\ AnchorRests(w)
           /\ \A v \in Work \ {w} : HopRest(v)
BY DEF HubStores, Goto, Return, Stores, Goes, CopiesRest, HopRest, AnchorRests,
       TypeInv, TypeOK

\* In the middle of applying and sweeping.
LEMMA ApplyHop ==
    ASSUME TypeInv, NEW w \in Work, pc[w] \in Applying, UNCHANGED <<hub, cache, watch, aw>>,
           NEW label \in Applying, NEW j, Goto(w, label, j),
           j.snap = job[w].snap, j.fresh = job[w].fresh
    PROVE  HopAlone(w)
BY GotoHop DEF HopAlone, Hop, HopApply, AnchorRests

LEMMA EndHop ==
    ASSUME TypeInv, NEW w \in Work, UNCHANGED <<hub, cache, watch, aw>>,
           NEW again, Return(w, again)
    PROVE  HopAlone(w)
BY ReturnHop DEF HopAlone, Hop, HopEnd, AnchorRests

LEMMA ReconcileHop ==
    ASSUME TypeInv, NEW w \in Work, Reconcile(w)
    PROVE  HopAlone(w)
<1>1. /\ pc[w] = "idle" /\ pc'[w] = EntryPoint(cache[w])
      /\ CopiesRest(w) /\ AnchorRests(w)
      /\ \A v \in Work \ {w} : HopRest(v)
  BY DEF Reconcile, hubVars, spokeVars, CopiesRest, AnchorRests, HopRest, Goes,
         TypeInv, TypeOK
<1>2. CASE EntryPoint(cache[w]) = "idle"
  <2>1. Goes(w, pc[w])
    BY <1>1, <1>2 DEF Reconcile, Goes
  <2> QED
    BY <1>1, <2>1 DEF HopAlone, Hop, HopRest
<1>3. CASE EntryPoint(cache[w]) # "idle"
  <2>1. job'[w].snap = cache[w] /\ job'[w].fresh = (watch[w] = "current")
    BY <1>3, NoJobType DEF Reconcile, Job, NoJob, TypeInv, TypeOK
  <2> QED
    BY <1>1, <2>1 DEF HopAlone, Hop, HopBegin
<1> QED
  BY <1>2, <1>3

LEMMA GetAppliedWorkHop ==
    ASSUME TypeInv, NEW w \in Work, NEW reply \in Reply, GetAppliedWork(w, reply)
    PROVE  HopAlone(w)
<1> DEFINE j == [job[w] EXCEPT !.uid = aw[w].uid, !.seen = aw[w].recorded,
                               !.todo = Manifests(job[w].snap.spec)]
<1>1. pc[w] = "get" /\ UNCHANGED <<hub, cache, watch, aw>>
  BY DEF GetAppliedWork, hubVars, spokeVars
<1>2. j.snap = job[w].snap /\ j.fresh = job[w].fresh
  BY DEF TypeInv, TypeOK, Job
<1>3. Return(w, TRUE) \/ Goto(w, "create", job[w]) \/ Goto(w, "apply", j)
  BY DEF GetAppliedWork, StartApply, ReadReply
<1> HIDE DEF j
<1>4. CASE Return(w, TRUE)
  BY <1>1, <1>4, EndHop
<1>5. CASE Goto(w, "create", job[w]) \/ Goto(w, "apply", j)
  <2>1. CopiesRest(w) /\ \A v \in Work \ {w} : HopRest(v)
    BY <1>1, <1>2, <1>5, GotoHop
  <2>2. Goes(w, "create") \/ Goes(w, "apply")
    BY <1>1, <1>2, <1>5, GotoHop
  <2> QED
    BY <1>1, <2>1, <2>2 DEF HopAlone, Hop, HopGet, AnchorRests
<1> QED
  BY <1>3, <1>4, <1>5

LEMMA CreateAppliedWorkHop ==
    ASSUME TypeInv, NEW w \in Work, NEW reply \in Reply, CreateAppliedWork(w, reply)
    PROVE  HopAlone(w)
<1> DEFINE created == reply # "error" /\ aw[w].uid = 0
           uid == IF created THEN lastUid + 1 ELSE 0
           j == [job[w] EXCEPT !.uid = uid, !.seen = {},
                               !.todo = Manifests(job[w].snap.spec)]
           k == [job[w] EXCEPT !.uid = uid]
           fin == job[w].snap.fin
<1>1. pc[w] = "create" /\ UNCHANGED <<hub, cache, watch>>
  BY DEF CreateAppliedWork, hubVars
<1>2. /\ \A v \in Work \ {w} : aw'[v] = aw[v]
      /\ aw[w].uid # 0 => AnchorRests(w)
      /\ reply = "answer" => aw'[w].uid # 0
  BY DEF CreateAppliedWork, AnchorRests, TypeInv, TypeOK
<1>3. /\ j.snap = job[w].snap /\ j.fresh = job[w].fresh
      /\ k.snap = job[w].snap /\ k.fresh = job[w].fresh
      /\ fin \in BOOLEAN
  BY DEF TypeInv, TypeOK, Job, WorkObject
<1>4. \/ Return(w, TRUE)
      \/ reply = "answer" /\ fin /\ Goto(w, "apply", j)
      \/ reply = "answer" /\ ~fin /\ Goto(w, "finalize", k)
  BY <1>3 DEF CreateAppliedWork, StartApply
<1> HIDE DEF j, k
<1>5. CASE Return(w, TRUE)
  BY <1>1, <1>2, <1>5, ReturnHop DEF HopAlone, Hop, HopAnchor
<1>6. CASE reply = "answer" /\ fin /\ Goto(w, "apply", j)
  <2>1. CopiesRest(w) /\ Goes(w, "apply") /\ \A v \in Work \ {w} : HopRest(v)
    BY <1>1, <1>2, <1>3, <1>6, GotoHop
  <2> QED
    BY <1>1, <1>2, <1>6, <2>1 DEF HopAlone, Hop, HopAnchor
<1>7. CASE reply = "answer" /\ ~fin /\ Goto(w, "finalize", k)
  <2>1. CopiesRest(w) /\ Goes(w, "finalize") /\ \A v \in Work \ {w} : HopRest(v)
    BY <1>1, <1>2, <1>3, <1>7, GotoHop
  <2> QED
    BY <1>1, <1>2, <1>7, <2>1 DEF HopAlone, Hop, HopAnchor
<1> QED
  BY <1>4, <1>5, <1>6, <1>7

LEMMA AddFinalizerHop ==
    ASSUME TypeInv, NEW w \in Work, NEW reply \in Reply, AddFinalizer(w, reply)
    PROVE  HopAlone(w)
<1> DEFINE work == [job[w].snap EXCEPT !.fin = TRUE]
           j == [job[w] EXCEPT !.snap = work, !.todo = Manifests(work.spec)]
<1>1. pc[w] = "finalize" /\ UNCHANGED <<cache, aw>>
  BY DEF AddFinalizer, spokeVars
<1>2. CASE ~Accepted(w, reply)
  BY <1>1, <1>2, EndHop DEF AddFinalizer
<1>3. CASE Accepted(w, reply)
  <2>1. job[w].fresh /\ HubStores(w, work, FALSE)
    BY <1>3 DEF AddFinalizer, Accepted
  <2>2. Goto(w, "apply", j) \/ Return(w, TRUE)
    BY <1>3 DEF AddFinalizer
  <2>3. j.snap = work
    BY DEF TypeInv, TypeOK, Job
  <2> HIDE DEF work, j
  <2>4. Stores(w, work) /\ AnchorRests(w) /\ \A v \in Work \ {w} : HopRest(v)
    BY <1>1, <2>1, <2>2, StoreHop
  <2>5. \/ Ends(w)
        \/ pc'[w] = "apply" /\ job'[w].snap = work
    BY <2>2, <2>3, GotoAt, ReturnAt DEF Ends
  <2>6. \/ Ends(w)
        \/ pc'[w] = "apply" /\ job'[w].snap = hub'[w]
    BY <2>4, <2>5 DEF Stores
  <2>7. Stores(w, [job[w].snap EXCEPT !.fin = TRUE])
    BY <2>4 DEF work
  <2>8. HopHold(w)
    BY <1>1, <2>1, <2>4, <2>6, <2>7 DEF HopHold
  <2> QED
    BY <2>4, <2>8 DEF HopAlone, Hop
<1> QED
  BY <1>2, <1>3

LEMMA VisitHop ==
    ASSUME TypeInv, NEW w \in Work, NEW r, pc[w] \in Applying,
           UNCHANGED <<hub, cache, watch, aw>>,
           Goto(w, "apply", Applied(w, r)) \/ Goto(w, "apply", NotApplied(w, r))
    PROVE  HopAlone(w)
<1>1. /\ Applied(w, r).snap = job[w].snap /\ Applied(w, r).fresh = job[w].fresh
      /\ NotApplied(w, r).snap = job[w].snap /\ NotApplied(w, r).fresh = job[w].fresh
  BY DEF Applied, NotApplied, Job, TypeInv, TypeOK
<1>2. "apply" \in Applying
  BY DEF Applying
<1> QED
  BY <1>1, <1>2, ApplyHop

LEMMA ManifestHop ==
    ASSUME TypeInv, NEW w \in Work, NEW reply \in Reply,
           \/ \E r \in Resource : GetManifest(w, r, reply)
           \/ CreateManifest(w, reply)
           \/ PatchManifest(w, reply)
    PROVE  HopAlone(w)
<1>1. ASSUME NEW r \in Resource, GetManifest(w, r, reply)
      PROVE  HopAlone(w)
  <2> DEFINE read == [job[w] EXCEPT !.at = r, !.cur = res[r]]
  <2>1. pc[w] \in Applying /\ UNCHANGED <<hub, cache, watch, aw>>
    BY <1>1 DEF GetManifest, hubVars, spokeVars, Applying
  <2>2. read.snap = job[w].snap /\ read.fresh = job[w].fresh
    BY DEF Job, TypeInv, TypeOK
  <2>3. \/ Goto(w, "createObject", read) \/ Goto(w, "patch", read)
        \/ Goto(w, "apply", Applied(w, r)) \/ Goto(w, "apply", NotApplied(w, r))
    BY <1>1 DEF GetManifest, ReadReply, Managed
  <2>4. {"createObject", "patch"} \subseteq Applying
    BY DEF Applying
  <2> HIDE DEF read
  <2>5. CASE Goto(w, "createObject", read) \/ Goto(w, "patch", read)
    BY <2>1, <2>2, <2>4, <2>5, ApplyHop
  <2> QED
    BY <2>1, <2>3, <2>5, VisitHop
<1>2. CASE CreateManifest(w, reply)
  BY <1>2, VisitHop DEF CreateManifest, hubVars, Applying
<1>3. CASE PatchManifest(w, reply)
  BY <1>3, VisitHop DEF PatchManifest, hubVars, Applying
<1> QED
  BY <1>1, <1>2, <1>3

LEMMA UpdateWorkStatusHop ==
    ASSUME TypeInv, NEW w \in Work, NEW reply \in Reply, UpdateWorkStatus(w, reply)
    PROVE  HopAlone(w)
<1> DEFINE j == job[w]
           next == [j EXCEPT !.todo = j.ok \ j.seen, !.keep = j.ok \cap j.seen,
                             !.stale = j.seen \ Manifests(j.snap.spec)]
<1>1. pc[w] \in Applying /\ UNCHANGED <<cache, aw>>
  BY DEF UpdateWorkStatus, spokeVars, Applying
<1>2. CASE ~Accepted(w, reply)
  BY <1>1, <1>2, EndHop DEF UpdateWorkStatus
<1>3. CASE Accepted(w, reply)
  <2>1. job[w].fresh /\ HubStores(w, j.snap, FALSE)
    BY <1>3 DEF UpdateWorkStatus, Accepted
  <2>2. Goto(w, "sync", next) \/ Return(w, TRUE)
    BY <1>3 DEF UpdateWorkStatus
  <2>3. next.snap = j.snap /\ next.fresh = j.fresh
    BY DEF TypeInv, TypeOK, Job
  <2> HIDE DEF next
  <2>4. Stores(w, j.snap) /\ AnchorRests(w) /\ \A v \in Work \ {w} : HopRest(v)
    BY <1>1, <2>1, <2>2, StoreHop
  <2>5. Ends(w) \/ Goes(w, "sync")
    BY <2>2, <2>3, GotoAt, ReturnAt DEF Ends, Goes
  <2> QED
    BY <1>1, <2>1, <2>4, <2>5 DEF HopAlone, Hop, HopReport
<1> QED
  BY <1>2, <1>3

LEMMA GetNewManifestHop ==
    ASSUME TypeInv, NEW w \in Work, NEW r \in Resource, NEW reply \in Reply,
           GetNewManifest(w, r, reply)
    PROVE  HopAlone(w)
<1> DEFINE found == [job[w] EXCEPT !.todo = @ \ {r}, !.keep = @ \cup {r}]
           gone == [job[w] EXCEPT !.todo = @ \ {r}]
<1>1. pc[w] \in Applying /\ "sync" \in Applying /\ UNCHANGED <<hub, cache, watch, aw>>
  BY DEF GetNewManifest, hubVars, spokeVars, Applying
<1>2. /\ found.snap = job[w].snap /\ found.fresh = job[w].fresh
      /\ gone.snap = job[w].snap /\ gone.fresh = job[w].fresh
  BY DEF Job, TypeInv, TypeOK
<1>3. Return(w, FALSE) \/ Goto(w, "sync", found) \/ Goto(w, "sync", gone)
  BY DEF GetNewManifest, ReadReply
<1> HIDE DEF found, gone
<1>4. CASE Return(w, FALSE)
  BY <1>1, <1>4, EndHop
<1>5. CASE Goto(w, "sync", found) \/ Goto(w, "sync", gone)
  BY <1>1, <1>2, <1>5, ApplyHop
<1> QED
  BY <1>3, <1>4, <1>5

LEMMA GetStaleManifestHop ==
    ASSUME TypeInv, NEW w \in Work, NEW r \in Resource, NEW reply \in Reply,
           GetStaleManifest(w, r, reply)
    PROVE  HopAlone(w)
<1> DEFINE next == [job[w] EXCEPT !.stale = @ \ {r}]
           failed == [next EXCEPT !.failed = TRUE]
           read == [next EXCEPT !.at = r, !.cur = res[r]]
           owned == IsOwner(res[r].owners, Me(w))
           others == RemainingOwners(res[r].owners, Me(w))
<1>1. pc[w] \in Applying /\ UNCHANGED <<hub, cache, watch, aw>>
  BY DEF GetStaleManifest, hubVars, spokeVars, Applying
<1>2. next.snap = job[w].snap /\ next.fresh = job[w].fresh
  BY DEF Job, TypeInv, TypeOK
<1>3. failed.snap = job[w].snap /\ failed.fresh = job[w].fresh
  BY DEF Job, TypeInv, TypeOK
<1>4. read.snap = job[w].snap /\ read.fresh = job[w].fresh
  BY DEF Job, TypeInv, TypeOK
<1>5. /\ reply \in {"error", "answer"}
      /\ CASE reply = "error" -> Goto(w, "sync", failed)
           [] reply = "answer" /\ ~owned -> Goto(w, "sync", next)
           [] reply = "answer" /\ owned /\ others = {} -> Goto(w, "deleteObject", read)
           [] reply = "answer" /\ owned /\ others # {} -> Goto(w, "release", read)
  BY DEF GetStaleManifest, ReadReply
<1>6. {"sync", "deleteObject", "release"} \subseteq Applying
  BY DEF Applying
<1> HIDE DEF next, failed, read, owned, others
<1>7. \/ Goto(w, "sync", next) \/ Goto(w, "sync", failed)
      \/ Goto(w, "deleteObject", read) \/ Goto(w, "release", read)
  BY <1>5
<1> QED
  BY <1>1, <1>2, <1>3, <1>4, <1>6, <1>7, ApplyHop

LEMMA SweepHop ==
    ASSUME TypeInv, NEW w \in Work, NEW reply \in Reply,
           DeleteStaleManifest(w, reply) \/ ReleaseStaleManifest(w, reply)
    PROVE  HopAlone(w)
<1>1. PICK failed : Goto(w, "sync", [Done(w) EXCEPT !.failed = failed])
  BY DEF DeleteStaleManifest, ReleaseStaleManifest
<1> DEFINE j == [Done(w) EXCEPT !.failed = failed]
<1>2. j.snap = job[w].snap /\ j.fresh = job[w].fresh
  BY DEF Job, Done, TypeInv, TypeOK
<1> HIDE DEF j
<1>3. Goto(w, "sync", j)
  BY <1>1 DEF j
<1>4. pc[w] \in Applying /\ "sync" \in Applying /\ UNCHANGED <<hub, cache, watch, aw>>
  BY DEF DeleteStaleManifest, ReleaseStaleManifest, hubVars, Applying
<1> QED
  BY <1>2, <1>3, <1>4, ApplyHop

LEMMA UpdateAppliedWorkHop ==
    ASSUME TypeInv, NEW w \in Work, NEW reply \in Reply, UpdateAppliedWork(w, reply)
    PROVE  HopAlone(w)
<1>1. UNCHANGED <<hub, cache, watch>> /\ \E again : Return(w, again)
  BY DEF UpdateAppliedWork, Resync, hubVars
<1>2. AnchorRests(w) /\ \A v \in Work \ {w} : aw'[v] = aw[v]
  <2>1. aw[w] \in AppliedWork
    BY DEF TypeInv, TypeOK
  <2>2. [aw[w] EXCEPT !.recorded = job[w].keep].uid = aw[w].uid
    BY <2>1 DEF AppliedWork
  <2>3. aw' = aw \/ aw' = [aw EXCEPT ![w].recorded = job[w].keep]
    BY DEF UpdateAppliedWork
  <2> QED
    BY <2>2, <2>3 DEF AnchorRests, TypeInv, TypeOK
<1> QED
  BY <1>1, <1>2, ReturnHop DEF HopAlone, Hop, HopEnd

LEMMA DeleteAppliedWorkHop ==
    ASSUME TypeInv, NEW w \in Work, NEW reply \in Reply, DeleteAppliedWork(w, reply)
    PROVE  HopAlone(w)
<1>1. pc[w] = "collect" /\ UNCHANGED <<hub, cache, watch>>
  BY DEF DeleteAppliedWork, hubVars
<1>2. /\ \A v \in Work \ {w} : aw'[v] = aw[v]
      /\ AnchorRests(w) \/ aw'[w].uid = 0
      /\ reply = "answer" => aw'[w].uid = 0
  BY DEF DeleteAppliedWork, NoAppliedWork, AnchorRests, TypeInv, TypeOK
<1>3. CASE Return(w, TRUE)
  BY <1>1, <1>2, <1>3, ReturnHop DEF HopAlone, Hop, HopCollect
<1>4. CASE reply = "answer" /\ Goto(w, "unfinalize", job[w])
  BY <1>1, <1>2, <1>4, GotoHop DEF HopAlone, Hop, HopCollect
<1> QED
  BY <1>3, <1>4 DEF DeleteAppliedWork

LEMMA RemoveFinalizerHop ==
    ASSUME TypeInv, NEW w \in Work, NEW reply \in Reply, RemoveFinalizer(w, reply)
    PROVE  HopAlone(w)
<1>1. /\ pc[w] = "unfinalize" /\ UNCHANGED <<cache, aw>>
      /\ \E again : Return(w, again)
  BY DEF RemoveFinalizer, spokeVars
<1>2. CASE ~Accepted(w, reply)
  BY <1>1, <1>2, EndHop DEF RemoveFinalizer
<1>3. CASE Accepted(w, reply)
  <2>1. job[w].fresh /\ HubStores(w, NoWork, TRUE)
    BY <1>3 DEF RemoveFinalizer, Accepted
  <2>2. Ends(w)
    BY <1>1, ReturnAt DEF Ends
  <2> QED
    BY <1>1, <2>1, <2>2, StoreHop DEF HopAlone, Hop, HopLetGo
<1> QED
  BY <1>2, <1>3

LEMMA StepHop ==
    ASSUME TypeInv, NEW w \in Work, NEW reply \in Reply, Step(w, reply)
    PROVE  HopAlone(w)
BY GetAppliedWorkHop, CreateAppliedWorkHop, AddFinalizerHop, ManifestHop,
   UpdateWorkStatusHop, GetNewManifestHop, GetStaleManifestHop, SweepHop,
   UpdateAppliedWorkHop, DeleteAppliedWorkHop, RemoveFinalizerHop DEF Step

LEMMA AbandonSyncHop ==
    ASSUME TypeInv, NEW w \in Work, AbandonSync(w)
    PROVE  HopAlone(w)
BY EndHop DEF AbandonSync, hubVars, spokeVars

LEMMA CacheSyncHop ==
    ASSUME TypeInv, NEW w \in Work, CacheSync(w)
    PROVE  HopAlone(w)
BY DEF CacheSync, hubVars, spokeVars, HopAlone, Hop, HopDeliver, HopRest, CopiesRest,
       AnchorRests, Goes, TypeInv, TypeOK

LEMMA UserHop ==
    ASSUME TypeInv, NEW w \in Work, User(w)
    PROVE  HopAlone(w)
<1> DEFINE j == [job[w] EXCEPT !.fresh = FALSE]
<1>1. /\ hub[w] \in WorkObject
      /\ j.snap = job[w].snap /\ ~j.fresh
  BY DEF TypeInv, TypeOK, Job
<1> HIDE DEF j
<1>2. ASSUME NEW x, UserStores(w, x)
      PROVE  /\ hub'[w] = x /\ watch'[w] # "current" /\ cache'[w] = cache[w]
             /\ pc'[w] = pc[w] /\ job'[w].snap = job[w].snap /\ ~job'[w].fresh
             /\ AnchorRests(w)
             /\ \A v \in Work \ {w} : HopRest(v)
  <2>1. UNCHANGED <<cache, pc, aw>> /\ HubStores(w, x, TRUE) /\ job' = [job EXCEPT ![w] = j]
    BY <1>2 DEF UserStores, spokeVars, j
  <2> QED
    BY <1>1, <2>1 DEF HubStores, HopRest, CopiesRest, AnchorRests, Goes, TypeInv, TypeOK
<1>3. CASE CreateWork(w)
  <2>1. PICK spec \in Workload : UserStores(w, [phase |-> "live", fin |-> FALSE, spec |-> spec])
    BY <1>3 DEF CreateWork
  <2> QED
    BY <1>2, <1>3, <2>1 DEF CreateWork, HopAlone, Hop, HopUser
<1>4. CASE EditWork(w)
  <2>1. PICK spec \in Workload : UserStores(w, [hub[w] EXCEPT !.spec = spec])
    BY <1>4 DEF EditWork
  <2> DEFINE x == [hub[w] EXCEPT !.spec = spec]
  <2>2. x.phase = hub[w].phase /\ x.fin = hub[w].fin
    BY <1>1 DEF WorkObject
  <2> HIDE DEF x
  <2>3. UserStores(w, x)
    BY <2>1 DEF x
  <2> QED
    BY <1>2, <1>4, <2>2, <2>3 DEF EditWork, HopAlone, Hop, HopUser
<1>5. CASE DeleteWork(w)
  <2> DEFINE x == [hub[w] EXCEPT !.phase = "deleting"]
  <2>1. x.phase = "deleting" /\ x.fin = hub[w].fin
    BY <1>1 DEF WorkObject
  <2>2. \/ hub[w].fin /\ UserStores(w, x)
        \/ ~hub[w].fin /\ UserStores(w, NoWork)
    BY <1>5 DEF DeleteWork
  <2> HIDE DEF x
  <2> QED
    BY <1>2, <1>5, <2>1, <2>2 DEF DeleteWork, HopAlone, Hop, HopUser
<1> QED
  BY <1>3, <1>4, <1>5 DEF User

\* What goes on away from the reconciles.
LEMMA AsideHop ==
    ASSUME TypeInv, \/ Tamper \/ Restart
                    \/ \E r \in Resource : GarbageCollect(r)
                    \/ UNCHANGED vars
    PROVE  Hops
<1>1. CASE UNCHANGED <<hub, cache, watch, pc, job, aw>>
  BY <1>1 DEF Hops, HopRest, CopiesRest, AnchorRests, Goes
<1>2. ASSUME NEW w \in Work, TamperDeleteAppliedWork(w)
      PROVE  HopAlone(w)
  BY <1>2 DEF TamperDeleteAppliedWork, ThirdParty, NoAppliedWork, HopAlone, Hop, HopTamper,
              HopRest, CopiesRest, AnchorRests, Goes, hubVars, TypeInv, TypeOK
<1>3. CASE Restart
  BY <1>3 DEF Restart, NoJob, Hops, HopRestart, AnchorRests, Ends, hubVars, spokeVars
<1>4. CASE Tamper /\ \A w \in Work : ~TamperDeleteAppliedWork(w)
  BY <1>1, <1>4 DEF Tamper, TamperDeleteObject, TamperEditObject, TamperCreateObject,
                    ThirdParty, hubVars
<1>5. CASE (\E r \in Resource : GarbageCollect(r)) \/ UNCHANGED vars
  BY <1>1, <1>5 DEF GarbageCollect, hubVars, vars
<1> QED
  BY <1>2, <1>3, <1>4, <1>5 DEF Hops

LEMMA NextHops == TypeInv /\ [Next]_vars => Hops
BY ReconcileHop, AbandonSyncHop, CacheSyncHop, UserHop, StepHop, AsideHop DEF Next, Hops

-----------------------------------------------------------------------------
(* The order of finalizer and AppliedWork. That the AppliedWork of a Work   *)
(* with the finalizer can be missing only late in its deletion, and that a  *)
(* reconcile that collects was not overtaken by the Work's next life, is no *)
(* matter of one read: it rests on what the cache has come to know.         *)

\* The cache knows that the Work is on its way out.
Doomed(w) == cache[w].phase = "deleting" /\ cache[w].fin

OrderInv(w) ==
    /\ hub[w].fin /\ aw[w].uid = 0 => Doomed(w) /\ pc[w] \notin Ensuring
    /\ pc[w] \in Collecting => job[w].snap.fin
    /\ pc[w] \in Collecting /\ hub[w].fin => Doomed(w)
    /\ pc[w] \in Collecting /\ aw[w].uid # 0 => hub[w].phase = "deleting"
    /\ Doomed(w) /\ aw[w].uid # 0 => hub[w].phase = "deleting"
    /\ Doomed(w) /\ pc[w] \in Ensuring => hub[w].phase = "deleting"

LifecycleInv == \A w \in Work : OrderInv(w)

LEMMA InitLifecycleInv == Init => LifecycleInv
BY DEF Init, LifecycleInv, OrderInv, Doomed, NoWork, NoAppliedWork, Ensuring, Collecting

\* All that is known of one Work before a step.
Known(w) == /\ CopiesInv(w) /\ Relies(w, pc[w], job[w].snap)
            /\ Kept(hub[w]) \/ pc[w] = "finalize" => aw[w].uid # 0
            /\ pc[w] = "unfinalize" => aw[w].uid = 0
            /\ hub[w] \in WorkObject /\ cache[w] \in WorkObject /\ job[w].snap \in WorkObject
            /\ pc[w] \in PC

LEMMA KnownNow ==
    ASSUME TypeInv, FinalizerInv, UnguardInv, GuardInv, NEW w \in Work
    PROVE  Known(w)
BY DEF TypeInv, TypeOK, Job, FinalizerInv, UnguardInv, GuardInv, Known

LEMMA HopOrder ==
    ASSUME "deleteAppliedWork" \notin Tampering,
           NEW w \in Work, Known(w), Known(w)', OrderInv(w), Hop(w)
    PROVE  OrderInv(w)'
<1> USE DEF OrderInv, Known, Doomed, CopiesRest, AnchorRests, Goes, Ends, Stores, Kept,
            Ensuring, Applying, Collecting
<1>1. CASE HopRest(w)
  BY <1>1 DEF HopRest
<1>2. CASE HopBegin(w)
  BY <1>2 DEF HopBegin, EntryPoint, WorkObject
<1>3. CASE HopGet(w) \/ HopApply(w) \/ HopEnd(w)
  BY <1>3 DEF HopGet, HopApply, HopEnd
<1>4. CASE HopAnchor(w)
  BY <1>4 DEF HopAnchor
<1>5. CASE HopHold(w)
  BY <1>5 DEF HopHold, CopiesInv, Relies, WorkObject
<1>6. CASE HopReport(w)
  BY <1>6 DEF HopReport, CopiesInv
<1>7. CASE HopCollect(w)
  BY <1>7 DEF HopCollect
<1>8. CASE HopLetGo(w)
  BY <1>8 DEF HopLetGo, NoWork
<1>9. CASE HopDeliver(w)
  BY <1>9 DEF HopDeliver, CopiesInv, Relies, WorkObject
<1>10. CASE HopUser(w)
  BY <1>10 DEF HopUser, NoWork
<1>11. CASE HopRestart(w)
  BY <1>11 DEF HopRestart, CopiesInv, WorkObject
<1> QED
  BY <1>1, <1>2, <1>3, <1>4, <1>5, <1>6, <1>7, <1>8, <1>9, <1>10, <1>11 DEF Hop, HopTamper

LEMMA NextLifecycleInv ==
    ASSUME "deleteAppliedWork" \notin Tampering, TypeInv, FinalizerInv, OwnedInv, GuardInv,
           LifecycleInv, [Next]_vars
    PROVE  LifecycleInv'
<1>1. TypeInv' /\ FinalizerInv' /\ UnguardInv' /\ GuardInv' /\ Hops
  BY NextTypeInv, NextFinalizerInv, NextUnguardInv, NextGuardInv, NextHops DEF OwnedInv
<1>2. \A w \in Work : Known(w)
  BY KnownNow DEF OwnedInv
<1>3. \A w \in Work : Known(w)'
  BY <1>1 DEF TypeInv, TypeOK, Job, FinalizerInv, UnguardInv, GuardInv, Known
<1>4. \A w \in Work : Hop(w)
  BY <1>1 DEF Hops, HopAlone, Hop
<1> QED
  BY <1>2, <1>3, <1>4, HopOrder DEF LifecycleInv

\* The inductive invariant of the refinement.
LInv == TypeInv /\ FinalizerInv /\ OwnedInv /\ GuardInv /\ LifecycleInv

LEMMA LifecycleInvariant ==
    ASSUME "deleteAppliedWork" \notin Tampering
    PROVE  SafeSpec => []LInv
<1>1. Init => LInv
  BY InitTypeInv, InitFinalizerInv, InitOwnedInv, InitGuardInv, InitLifecycleInv DEF LInv
<1>2. LInv /\ [Next]_vars => LInv'
  BY NextTypeInv, NextFinalizerInv, NextUnguardInv, NextOwnersInv, NextGuardInv,
     NextLifecycleInv DEF LInv, OwnedInv
<1> QED
  BY <1>1, <1>2, PTL DEF SafeSpec

-----------------------------------------------------------------------------
(* Objects. A step that writes one writes nothing else that the abstract    *)
(* specification can see.                                                   *)

ObjectStep == \E r \in Resource : /\ UNCHANGED <<hub, aw>>
                                  /\ \A q \in Resource \ {r} : res'[q] = res[q]

LEMMA NextObject == TypeInv /\ [Next]_vars => UNCHANGED res \/ ObjectStep
<1> SUFFICES ASSUME TypeInv, [Next]_vars PROVE UNCHANGED res \/ ObjectStep
  OBVIOUS
<1>1. ASSUME NEW r \in Resource, NEW x, res' = [res EXCEPT ![r] = x], UNCHANGED <<hub, aw>>
      PROVE  ObjectStep
  BY <1>1 DEF ObjectStep, TypeInv, TypeOK
<1>2. ASSUME NEW w \in Work, NEW reply \in Reply,
             \/ CreateManifest(w, reply) \/ PatchManifest(w, reply)
             \/ DeleteStaleManifest(w, reply) \/ ReleaseStaleManifest(w, reply)
      PROVE  UNCHANGED res \/ ObjectStep
  <2>1. UNCHANGED <<hub, aw>>
    BY <1>2 DEF CreateManifest, PatchManifest, DeleteStaleManifest, ReleaseStaleManifest,
                hubVars
  <2>2. job[w].at \in Resource
    BY <1>2 DEF CreateManifest, PatchManifest, DeleteStaleManifest, ReleaseStaleManifest,
                TypeInv, JobShape, Shape, Manifests
  <2>3. UNCHANGED res \/ \E x : res' = [res EXCEPT ![job[w].at] = x]
    BY <1>2 DEF CreateManifest, PatchManifest, DeleteStaleManifest, ReleaseStaleManifest
  <2> QED
    BY <1>1, <2>1, <2>2, <2>3
<1>3. ASSUME NEW w \in Work, NEW reply \in Reply, Step(w, reply)
      PROVE  UNCHANGED res \/ ObjectStep
  BY <1>2, <1>3
     DEF Step, spokeVars, GetAppliedWork, CreateAppliedWork, AddFinalizer, GetManifest,
         UpdateWorkStatus, GetNewManifest, GetStaleManifest, UpdateAppliedWork,
         DeleteAppliedWork, RemoveFinalizer
<1>4. ASSUME NEW w \in Work, Reconcile(w) \/ AbandonSync(w) \/ CacheSync(w) \/ User(w)
      PROVE  UNCHANGED res
  BY <1>4 DEF Reconcile, AbandonSync, CacheSync, User, CreateWork, EditWork, DeleteWork,
              UserStores, spokeVars
<1>5. ASSUME NEW r \in Resource, GarbageCollect(r)
      PROVE  ObjectStep
  BY <1>1, <1>5 DEF GarbageCollect, hubVars
<1>6. CASE Tamper
  BY <1>1, <1>6 DEF Tamper, TamperDeleteObject, TamperEditObject, TamperCreateObject,
                    TamperDeleteAppliedWork, ThirdParty, hubVars
<1>7. CASE Restart \/ UNCHANGED vars
  BY <1>7 DEF Restart, spokeVars, vars
<1> QED
  BY <1>3, <1>4, <1>5, <1>6, <1>7 DEF Next

-----------------------------------------------------------------------------
(* The refinement mapping, and what it takes for a step to look like one    *)
(* of WorkLifecycle.                                                        *)

\* The Works whose AppliedWorks own an object.
Owning(r) == {o.work : o \in LiveOwners(res[r])}

SameHub(w) == hub'[w].phase = hub[w].phase /\ hub'[w].fin = hub[w].fin
SameAnchor(w) == (aw'[w].uid # 0) <=> (aw[w].uid # 0)

LEMMA MapStutter ==
    ASSUME \A w \in Work : SameHub(w) /\ SameAnchor(w),
           \A r \in Resource : Owning(r)' = Owning(r)
    PROVE  UNCHANGED Lifecycle!vars
<1>1. UNCHANGED [w \in Work |-> hub[w].phase] /\ UNCHANGED [w \in Work |-> hub[w].fin]
  BY DEF SameHub
<1>2. UNCHANGED [w \in Work |-> aw[w].uid # 0]
  BY DEF SameAnchor
<1>3. UNCHANGED [r \in Resource |-> {o.work : o \in LiveOwners(res[r])}]
  BY DEF Owning
<1> QED
  BY <1>1, <1>2, <1>3 DEF Lifecycle!vars

LEMMA MapAnchor ==
    ASSUME NEW w \in Work, ~hub[w].fin, aw[w].uid = 0, aw'[w].uid # 0,
           \A v \in Work : SameHub(v),
           \A v \in Work \ {w} : SameAnchor(v),
           \A r \in Resource : Owning(r)' = Owning(r)
    PROVE  Lifecycle!Anchor(w)
<1>1. UNCHANGED [v \in Work |-> hub[v].phase] /\ UNCHANGED [v \in Work |-> hub[v].fin]
  BY DEF SameHub
<1>2. [v \in Work |-> aw[v].uid # 0]' = [[v \in Work |-> aw[v].uid # 0] EXCEPT ![w] = TRUE]
  BY DEF SameAnchor
<1>3. UNCHANGED [r \in Resource |-> {o.work : o \in LiveOwners(res[r])}]
  BY DEF Owning
<1> QED
  BY <1>1, <1>2, <1>3 DEF Lifecycle!Anchor

\* The steps that change only the Work on the hub.
HubAlone(w) == /\ hub[w].fin \in BOOLEAN /\ hub'[w].fin \in BOOLEAN
               /\ \A v \in Work \ {w} : SameHub(v)
               /\ \A v \in Work : SameAnchor(v)
               /\ \A r \in Resource : Owning(r)' = Owning(r)

LEMMA MapHub ==
    ASSUME NEW w \in Work, HubAlone(w)
    PROVE  /\ [v \in Work |-> hub[v].phase]'
                  = [[v \in Work |-> hub[v].phase] EXCEPT ![w] = hub'[w].phase]
           /\ [v \in Work |-> hub[v].fin]'
                  = [[v \in Work |-> hub[v].fin] EXCEPT ![w] = hub'[w].fin]
           /\ hub'[w].phase = hub[w].phase => UNCHANGED [v \in Work |-> hub[v].phase]
           /\ hub'[w].fin = hub[w].fin => UNCHANGED [v \in Work |-> hub[v].fin]
           /\ UNCHANGED [v \in Work |-> aw[v].uid # 0]
           /\ UNCHANGED [r \in Resource |-> {o.work : o \in LiveOwners(res[r])}]
<1>1. /\ [v \in Work |-> hub[v].phase]'
             = [[v \in Work |-> hub[v].phase] EXCEPT ![w] = hub'[w].phase]
      /\ [v \in Work |-> hub[v].fin]'
             = [[v \in Work |-> hub[v].fin] EXCEPT ![w] = hub'[w].fin]
  BY DEF HubAlone, SameHub
<1>2. /\ hub'[w].phase = hub[w].phase => UNCHANGED [v \in Work |-> hub[v].phase]
      /\ hub'[w].fin = hub[w].fin => UNCHANGED [v \in Work |-> hub[v].fin]
  BY DEF HubAlone, SameHub
<1>3. UNCHANGED [v \in Work |-> aw[v].uid # 0]
  BY DEF HubAlone, SameAnchor
<1>4. UNCHANGED [r \in Resource |-> {o.work : o \in LiveOwners(res[r])}]
  BY DEF HubAlone, Owning
<1> QED
  BY <1>1, <1>2, <1>3, <1>4

LEMMA MapUser ==
    ASSUME NEW w \in Work, HubAlone(w), hub'[w].fin = hub[w].fin,
           \/ hub[w].phase = "absent" /\ hub'[w].phase = "live"
           \/ /\ hub[w].phase = "live"
              /\ hub'[w].phase = IF hub[w].fin THEN "deleting" ELSE "absent"
    PROVE  Lifecycle!Ask(w) \/ Lifecycle!Withdraw(w)
BY MapHub DEF Lifecycle!Ask, Lifecycle!Withdraw

LEMMA MapHold ==
    ASSUME NEW w \in Work, HubAlone(w),
           hub[w].phase = "live" /\ ~hub[w].fin /\ aw[w].uid # 0,
           hub'[w].phase = "live" /\ hub'[w].fin
    PROVE  Lifecycle!Hold(w)
BY MapHub DEF HubAlone, Lifecycle!Hold

LEMMA MapLetGo ==
    ASSUME NEW w \in Work, HubAlone(w),
           hub[w].phase = "deleting" /\ hub[w].fin /\ aw[w].uid = 0,
           hub'[w].phase = "absent" /\ ~hub'[w].fin
    PROVE  Lifecycle!LetGo(w)
BY MapHub DEF HubAlone, Lifecycle!LetGo

LEMMA MapCollect ==
    ASSUME NEW w \in Work, hub[w].phase = "deleting", aw[w].uid # 0, aw'[w].uid = 0,
           \A v \in Work : SameHub(v),
           \A v \in Work \ {w} : SameAnchor(v),
           \A r \in Resource : Owning(r)' = Owning(r) \ {w}
    PROVE  Lifecycle!Collect(w)
<1>1. UNCHANGED [v \in Work |-> hub[v].phase] /\ UNCHANGED [v \in Work |-> hub[v].fin]
  BY DEF SameHub
<1>2. [v \in Work |-> aw[v].uid # 0]' = [[v \in Work |-> aw[v].uid # 0] EXCEPT ![w] = FALSE]
  BY DEF SameAnchor
<1>3. [r \in Resource |-> {o.work : o \in LiveOwners(res[r])}]'
    = [r \in Resource |-> [q \in Resource |-> {o.work : o \in LiveOwners(res[q])}][r] \ {w}]
  BY DEF Owning
<1> QED
  BY <1>1, <1>2, <1>3 DEF Lifecycle!Collect

LEMMA MapDeploy ==
    ASSUME NEW r \in Resource,
           \A v \in Work : SameHub(v) /\ SameAnchor(v),
           \A q \in Resource \ {r} : Owning(q)' = Owning(q),
           Owning(r)' \subseteq {w \in Work : hub[w].fin /\ aw[w].uid # 0}
    PROVE  Lifecycle!Deploy(r)
<1>1. UNCHANGED [v \in Work |-> hub[v].phase] /\ UNCHANGED [v \in Work |-> hub[v].fin]
  BY DEF SameHub
<1>2. UNCHANGED [v \in Work |-> aw[v].uid # 0]
  BY DEF SameAnchor
<1>3. [q \in Resource |-> {o.work : o \in LiveOwners(res[q])}]'
    = [[q \in Resource |-> {o.work : o \in LiveOwners(res[q])}] EXCEPT ![r] = Owning(r)']
  BY DEF Owning
<1>4. Owning(r)' \in SUBSET {w \in Work : /\ [v \in Work |-> hub[v].fin][w]
                                          /\ [v \in Work |-> aw[v].uid # 0][w]}
  OBVIOUS
<1> QED
  BY <1>1, <1>2, <1>3, <1>4 DEF Lifecycle!Deploy

\* Who owns an object, while the object is left as it is.
LEMMA OwningRests ==
    ASSUME UNCHANGED res, \A v \in Work : AnchorRests(v), TypeInv, NEW r \in Resource
    PROVE  Owning(r)' = Owning(r)
BY DEF Owning, LiveOwners, AnchorRests, TypeInv, TypeOK, Object, Owner

LEMMA OwningAnchored ==
    ASSUME UNCHANGED res, TypeInv, OwnedInv, NEW w \in Work,
           aw[w].uid = 0, aw'[w].uid = lastUid + 1,
           \A v \in Work \ {w} : AnchorRests(v), NEW r \in Resource
    PROVE  Owning(r)' = Owning(r)
<1>1. \A o \in res[r].owners : o.work \in Work /\ o.uid \in Nat \ {0} /\ o.uid <= lastUid
  BY DEF TypeInv, TypeOK, Object, Owner, OwnedInv, OwnersInv, RefInv
<1>2. lastUid \in Nat
  BY DEF TypeInv, TypeOK
<1>3. \A o \in res[r].owners : aw'[o.work].uid = o.uid <=> aw[o.work].uid = o.uid
  BY <1>1, <1>2 DEF AnchorRests
<1> QED
  BY <1>3 DEF Owning, LiveOwners

LEMMA OwningCollected ==
    ASSUME UNCHANGED res, TypeInv, NEW w \in Work, aw'[w].uid = 0,
           \A v \in Work \ {w} : AnchorRests(v), NEW r \in Resource
    PROVE  Owning(r)' = Owning(r) \ {w}
<1>1. \A o \in res[r].owners : o.work \in Work /\ o.uid # 0
  BY DEF TypeInv, TypeOK, Object, Owner
<1>2. \A o \in res[r].owners :
          aw'[o.work].uid = o.uid <=> aw[o.work].uid = o.uid /\ o.work # w
  BY <1>1 DEF AnchorRests
<1> QED
  BY <1>2 DEF Owning, LiveOwners

\* A step that writes an object deploys it.
LEMMA ObjectDeploys ==
    ASSUME TypeInv, TypeInv', OwnersInv', ObjectStep
    PROVE  \E r \in Resource : Lifecycle!Deploy(r)
<1>1. PICK r \in Resource : /\ UNCHANGED <<hub, aw>>
                            /\ \A q \in Resource \ {r} : res'[q] = res[q]
  BY DEF ObjectStep
<1>2. \A v \in Work : SameHub(v) /\ SameAnchor(v)
  BY <1>1 DEF SameHub, SameAnchor
<1>3. \A q \in Resource \ {r} : Owning(q)' = Owning(q)
  BY <1>1 DEF Owning, LiveOwners
<1>4. ASSUME NEW o \in res'[r].owners, aw'[o.work].uid = o.uid
      PROVE  o.work \in Work /\ hub[o.work].fin /\ aw[o.work].uid # 0
  <2>1. o.work \in Work /\ o.uid # 0
    BY DEF TypeInv, TypeOK, Object, Owner
  <2> QED
    BY <1>1, <1>4, <2>1 DEF OwnersInv, RefInv
<1>5. Owning(r)' \subseteq {w \in Work : hub[w].fin /\ aw[w].uid # 0}
  BY <1>4 DEF Owning, LiveOwners
<1> QED
  BY <1>2, <1>3, <1>5, MapDeploy

\* A hop of one Work is a step of WorkLifecycle for that Work, or none.
LEMMA HopFollows ==
    ASSUME "deleteAppliedWork" \notin Tampering,
           LInv, TypeInv', UNCHANGED res, AppliedWorkStep, NEW w \in Work, HopAlone(w)
    PROVE  [Lifecycle!Next]_(Lifecycle!vars)
<1>1. Known(w) /\ OrderInv(w)
  BY KnownNow DEF LInv, LifecycleInv, OwnedInv
<1>2. \A v \in Work \ {w} : SameHub(v) /\ SameAnchor(v) /\ AnchorRests(v)
  BY DEF HopAlone, HopRest, CopiesRest, AnchorRests, SameHub, SameAnchor
<1>3. ASSUME SameHub(w), AnchorRests(w)
      PROVE  UNCHANGED Lifecycle!vars
  <2>1. \A r \in Resource : Owning(r)' = Owning(r)
    BY <1>2, <1>3, OwningRests DEF LInv
  <2>2. \A v \in Work : SameHub(v) /\ SameAnchor(v)
    BY <1>2, <1>3 DEF AnchorRests, SameAnchor
  <2> QED
    BY <2>1, <2>2, MapStutter
<1>4. ASSUME AnchorRests(w)
      PROVE  HubAlone(w)
  <2>1. \A r \in Resource : Owning(r)' = Owning(r)
    BY <1>2, <1>4, OwningRests DEF LInv
  <2>2. hub[w].fin \in BOOLEAN /\ hub'[w].fin \in BOOLEAN
    BY DEF LInv, TypeInv, TypeOK, WorkObject
  <2> QED
    BY <1>2, <1>4, <2>1, <2>2 DEF HubAlone, AnchorRests, SameAnchor
<1>5. CASE HopRest(w) \/ HopBegin(w) \/ HopGet(w) \/ HopApply(w) \/ HopEnd(w)
           \/ HopDeliver(w) \/ HopRestart(w)
  BY <1>3, <1>5 DEF HopRest, HopBegin, HopGet, HopApply, HopEnd, HopDeliver, HopRestart,
                    CopiesRest, SameHub
<1>6. CASE HopAnchor(w)
  <2>1. pc[w] = "create" /\ SameHub(w)
    BY <1>6 DEF HopAnchor, CopiesRest, SameHub
  <2>2. CASE AnchorRests(w)
    BY <1>3, <2>1, <2>2
  <2>3. CASE ~AnchorRests(w)
    <3>1. aw[w].uid = 0 /\ aw'[w].uid # 0
      BY <1>6, <2>3 DEF HopAnchor, AnchorRests
    <3>2. aw'[w].uid = lastUid + 1
      BY <3>1 DEF AppliedWorkStep
    <3>3. ~hub[w].fin
      BY <1>1, <2>1, <3>1 DEF OrderInv, Ensuring
    <3>4. \A r \in Resource : Owning(r)' = Owning(r)
      BY <1>2, <3>1, <3>2, OwningAnchored DEF LInv
    <3>5. Lifecycle!Anchor(w)
      BY <1>2, <2>1, <3>1, <3>3, <3>4, MapAnchor
    <3> QED
      BY <3>5 DEF Lifecycle!Next
  <2> QED
    BY <2>2, <2>3
<1>7. CASE HopHold(w)
  <2>1. /\ AnchorRests(w) /\ hub[w] = job[w].snap
        /\ hub[w].phase = "live" /\ ~hub[w].fin /\ aw[w].uid # 0
        /\ hub'[w] = [hub[w] EXCEPT !.fin = TRUE]
    BY <1>1, <1>7 DEF HopHold, Stores, Known, CopiesInv, Relies, Ensuring
  <2>2. hub'[w].phase = "live" /\ hub'[w].fin
    BY <1>1, <2>1 DEF Known, WorkObject
  <2>3. Lifecycle!Hold(w)
    BY <1>4, <2>1, <2>2, MapHold
  <2> QED
    BY <2>3 DEF Lifecycle!Next
<1>8. CASE HopReport(w)
  BY <1>1, <1>3, <1>8 DEF HopReport, Stores, Known, CopiesInv, SameHub
<1>9. CASE HopCollect(w)
  <2>1. pc[w] = "collect" /\ SameHub(w)
    BY <1>9 DEF HopCollect, CopiesRest, SameHub
  <2>2. CASE AnchorRests(w)
    BY <1>3, <2>1, <2>2
  <2>3. CASE ~AnchorRests(w)
    <3>1. aw[w].uid # 0 /\ aw'[w].uid = 0
      BY <1>9, <2>3 DEF HopCollect, AnchorRests
    <3>2. hub[w].phase = "deleting"
      BY <1>1, <2>1, <3>1 DEF OrderInv, Collecting
    <3>3. \A r \in Resource : Owning(r)' = Owning(r) \ {w}
      BY <1>2, <3>1, OwningCollected DEF LInv
    <3>4. Lifecycle!Collect(w)
      BY <1>2, <2>1, <3>1, <3>2, <3>3, MapCollect
    <3> QED
      BY <3>4 DEF Lifecycle!Next
  <2> QED
    BY <2>2, <2>3
<1>10. CASE HopLetGo(w)
  <2>1. /\ AnchorRests(w) /\ hub[w] = job[w].snap
        /\ hub[w].phase = "deleting" /\ hub[w].fin /\ aw[w].uid = 0
        /\ hub'[w].phase = "absent" /\ ~hub'[w].fin
    BY <1>1, <1>10 DEF HopLetGo, Stores, NoWork, Known, CopiesInv, Relies, OrderInv,
                       Collecting
  <2>2. Lifecycle!LetGo(w)
    BY <1>4, <2>1, MapLetGo
  <2> QED
    BY <2>2 DEF Lifecycle!Next
<1>11. CASE HopUser(w)
  <2>1. AnchorRests(w) /\ HubAlone(w)
    BY <1>4, <1>11 DEF HopUser
  <2>2. CASE SameHub(w)
    BY <1>3, <2>1, <2>2
  <2>3. CASE ~SameHub(w)
    <3>1. /\ hub'[w].fin = hub[w].fin
          /\ \/ hub[w].phase = "absent" /\ hub'[w].phase = "live"
             \/ /\ hub[w].phase = "live"
                /\ hub'[w].phase = IF hub[w].fin THEN "deleting" ELSE "absent"
      BY <1>1, <1>11, <2>1, <2>3 DEF HopUser, NoWork, SameHub, Known, CopiesInv, HubAlone
    <3>2. Lifecycle!Ask(w) \/ Lifecycle!Withdraw(w)
      BY <2>1, <3>1, MapUser
    <3> QED
      BY <3>2 DEF Lifecycle!Next
  <2> QED
    BY <2>2, <2>3
<1> QED
  BY <1>5, <1>6, <1>7, <1>8, <1>9, <1>10, <1>11 DEF HopAlone, Hop, HopTamper

LEMMA StepFollows ==
    ASSUME "deleteAppliedWork" \notin Tampering, LInv, LInv', [Next]_vars
    PROVE  [Lifecycle!Next]_(Lifecycle!vars)
<1>1. (UNCHANGED res \/ ObjectStep) /\ Hops /\ AppliedWorkStep
  BY NextObject, NextHops, NextAppliedWork DEF LInv
<1>2. CASE ObjectStep
  <2>1. \E r \in Resource : Lifecycle!Deploy(r)
    BY <1>2, ObjectDeploys DEF LInv, OwnedInv
  <2> QED
    BY <2>1 DEF Lifecycle!Next
<1>3. CASE UNCHANGED res /\ \E w \in Work : HopAlone(w)
  BY <1>1, <1>3, HopFollows DEF LInv
<1>4. CASE UNCHANGED res /\ \A w \in Work : HopRest(w) \/ HopRestart(w)
  <2>1. \A w \in Work : SameHub(w) /\ SameAnchor(w) /\ AnchorRests(w)
    BY <1>4 DEF HopRest, HopRestart, CopiesRest, AnchorRests, SameHub, SameAnchor
  <2>2. \A r \in Resource : Owning(r)' = Owning(r)
    BY <1>4, <2>1, OwningRests DEF LInv
  <2> QED
    BY <2>1, <2>2, MapStutter
<1> QED
  BY <1>1, <1>2, <1>3, <1>4 DEF Hops

LEMMA InitFollows == Init => Lifecycle!Init
<1> SUFFICES ASSUME Init PROVE Lifecycle!Init
  OBVIOUS
<1>1. /\ [w \in Work |-> hub[w].phase] = [w \in Work |-> "absent"]
      /\ [w \in Work |-> hub[w].fin] = [w \in Work |-> FALSE]
  BY DEF Init, NoWork
<1>2. \A w \in Work : (aw[w].uid # 0) = FALSE
  BY DEF Init, NoAppliedWork
<1>3. [w \in Work |-> aw[w].uid # 0] = [w \in Work |-> FALSE]
  BY <1>2
<1>4. \A r \in Resource : {o.work : o \in LiveOwners(res[r])} = {}
  BY DEF Init, NoObject, LiveOwners
<1> QED
  BY <1>1, <1>3, <1>4 DEF Lifecycle!Init

\* Where nobody else deletes an AppliedWork, the controller follows the protocol
\* of WorkLifecycle: whatever it does, through stale copies, failing calls and
\* restarts, is a step of that protocol or changes nothing it can see.
THEOREM LifecycleIsImplemented ==
    ASSUME "deleteAppliedWork" \notin Tampering
    PROVE  SafeSpec => FollowsLifecycle
<1>1. Init => Lifecycle!Init
  BY InitFollows
<1>2. LInv /\ LInv' /\ [Next]_vars => [Lifecycle!Next]_(Lifecycle!vars)
  BY StepFollows
<1> QED
  BY <1>1, <1>2, LifecycleInvariant, PTL DEF SafeSpec, FollowsLifecycle, Lifecycle!Spec
=============================================================================
