---------------------- MODULE ApplyWorkObjects_proofs ----------------------
(***************************************************************************)
(* What the controller does to the objects on the spoke, for any numbers   *)
(* of Works, resources, workers and disturbances.                          *)
(***************************************************************************)
EXTENDS ApplyWorkFinalizer_proofs

USE BuiltInAssumption, AbsentAssumption, MaxConcurrentAssumption, BudgetAssumption

-----------------------------------------------------------------------------
(* The object at hand. An object is patched, deleted or released only after *)
(* it was read with an owner.                                               *)

Holding == {"patch", "deleteObject", "release"}
HeldInv == \A w \in Work : pc[w] \in Holding => Managed(job[w].cur)

\* A reconcile keeps its object, or takes or drops one.
Keeps(w) == pc'[w] = pc[w] /\ job'[w].cur = job[w].cur
Takes(w) == pc'[w] \in Holding => Managed(job'[w].cur)
OneTakes(w) == Takes(w) /\ \A v \in Work \ {w} : Keeps(v)

LEMMA GotoTakes ==
    ASSUME TypeInv, NEW w \in Work, NEW label, NEW j, Goto(w, label, j),
           label \in Holding => Managed(j.cur)
    PROVE  OneTakes(w)
BY DEF Goto, OneTakes, Takes, Keeps, TypeInv, TypeOK

LEMMA ReturnTakes ==
    ASSUME TypeInv, NEW w \in Work, NEW again, Return(w, again)
    PROVE  OneTakes(w)
BY DEF Return, OneTakes, Takes, Keeps, Holding, TypeInv, TypeOK

LEMMA GetManifestTakes ==
    ASSUME TypeInv, NEW w \in Work, NEW r \in Resource, NEW reply \in Reply,
           GetManifest(w, r, reply)
    PROVE  OneTakes(w)
<1> DEFINE read == [job[w] EXCEPT !.at = r, !.cur = res[r]]
<1>1. read.cur = res[r]
  BY DEF TypeInv, TypeOK, Job
<1>2. \/ Goto(w, "createObject", read)
      \/ Goto(w, "patch", read) /\ Managed(res[r])
      \/ Goto(w, "apply", Applied(w, r)) \/ Goto(w, "apply", NotApplied(w, r))
  BY DEF GetManifest, ReadReply, Managed
<1> HIDE DEF read
<1> QED
  BY <1>1, <1>2, GotoTakes DEF Holding

LEMMA GetStaleManifestTakes ==
    ASSUME TypeInv, NEW w \in Work, NEW r \in Resource, NEW reply \in Reply,
           GetStaleManifest(w, r, reply)
    PROVE  OneTakes(w)
<1> DEFINE next == [job[w] EXCEPT !.stale = @ \ {r}]
           failed == [next EXCEPT !.failed = TRUE]
           read == [next EXCEPT !.at = r, !.cur = res[r]]
           owned == IsOwner(res[r].owners, Me(w))
           others == RemainingOwners(res[r].owners, Me(w))
<1>1. read.cur = res[r]
  BY DEF TypeInv, TypeOK, Job
<1>2. /\ reply \in {"error", "answer"}
      /\ CASE reply = "error" -> Goto(w, "sync", failed)
           [] reply = "answer" /\ ~owned -> Goto(w, "sync", next)
           [] reply = "answer" /\ owned /\ others = {} -> Goto(w, "deleteObject", read)
           [] reply = "answer" /\ owned /\ others # {} -> Goto(w, "release", read)
  BY DEF GetStaleManifest, ReadReply
<1>3. owned => Managed(res[r])
  BY DEF IsOwner, SameOwner, Managed
<1> HIDE DEF next, failed, read, owned, others
<1>4. \/ Goto(w, "sync", failed) \/ Goto(w, "sync", next)
      \/ owned /\ Goto(w, "deleteObject", read)
      \/ owned /\ Goto(w, "release", read)
  BY <1>2
<1> QED
  BY <1>1, <1>3, <1>4, GotoTakes DEF Holding

LEMMA StepTakes ==
    ASSUME TypeInv, NEW w \in Work, NEW reply \in Reply, Step(w, reply)
    PROVE  OneTakes(w)
<1>1. ASSUME NEW label \in {"create", "finalize", "apply", "sync", "unfinalize"}, NEW j,
             Goto(w, label, j)
      PROVE  OneTakes(w)
  BY <1>1, GotoTakes DEF Holding
<1>2. ASSUME NEW again, Return(w, again)
      PROVE  OneTakes(w)
  BY <1>2, ReturnTakes
<1>3. job[w].snap.fin \in BOOLEAN
  BY DEF TypeInv, TypeOK, Job, WorkObject
<1>4. CASE GetAppliedWork(w, reply) \/ CreateAppliedWork(w, reply) \/ AddFinalizer(w, reply)
  BY <1>1, <1>2, <1>3, <1>4 DEF GetAppliedWork, CreateAppliedWork, AddFinalizer,
                                StartApply, ReadReply
<1>5. CASE CreateManifest(w, reply) \/ PatchManifest(w, reply) \/ UpdateWorkStatus(w, reply)
  BY <1>1, <1>2, <1>5 DEF CreateManifest, PatchManifest, UpdateWorkStatus
<1>6. CASE \/ \E r \in Resource : GetNewManifest(w, r, reply)
           \/ DeleteStaleManifest(w, reply) \/ ReleaseStaleManifest(w, reply)
  BY <1>1, <1>2, <1>6 DEF GetNewManifest, DeleteStaleManifest, ReleaseStaleManifest,
                          ReadReply
<1>7. CASE \/ UpdateAppliedWork(w, reply) \/ DeleteAppliedWork(w, reply)
           \/ RemoveFinalizer(w, reply)
  BY <1>1, <1>2, <1>7 DEF UpdateAppliedWork, DeleteAppliedWork, RemoveFinalizer, Resync
<1> QED
  BY <1>4, <1>5, <1>6, <1>7, GetManifestTakes, GetStaleManifestTakes DEF Step

LEMMA NextHeldInv == TypeInv /\ HeldInv /\ [Next]_vars => HeldInv'
<1> SUFFICES ASSUME TypeInv, HeldInv, [Next]_vars PROVE HeldInv'
  OBVIOUS
<1>1. ASSUME NEW w \in Work, OneTakes(w)
      PROVE  HeldInv'
  BY <1>1 DEF OneTakes, Takes, Keeps, HeldInv
<1>2. ASSUME \A w \in Work : Keeps(w)
      PROVE  HeldInv'
  BY <1>2 DEF Keeps, HeldInv
<1>3. ASSUME NEW w \in Work, Reconcile(w)
      PROVE  OneTakes(w)
  <2>1. EntryPoint(cache[w]) \notin Holding
    BY DEF EntryPoint, TypeInv, TypeOK, WorkObject, Holding
  <2>2. /\ pc' = [pc EXCEPT ![w] = EntryPoint(cache[w])]
        /\ \A v \in Work \ {w} : job'[v] = job[v]
    BY <1>3 DEF Reconcile, TypeInv, TypeOK
  <2> QED
    BY <2>1, <2>2 DEF OneTakes, Takes, Keeps, TypeInv, TypeOK
<1>4. ASSUME NEW w \in Work, User(w)
      PROVE  \A v \in Work : Keeps(v)
  <2> DEFINE j == [job[w] EXCEPT !.fresh = FALSE]
  <2>1. j.cur = job[w].cur
    BY DEF TypeInv, TypeOK, Job
  <2>2. UNCHANGED pc /\ job' = [job EXCEPT ![w] = j]
    BY <1>4 DEF User, CreateWork, EditWork, DeleteWork, UserStores
  <2> HIDE DEF j
  <2> QED
    BY <2>1, <2>2 DEF Keeps, TypeInv, TypeOK
<1>5. ASSUME NEW w \in Work, AbandonSync(w)
      PROVE  OneTakes(w)
  BY <1>5, ReturnTakes DEF AbandonSync
<1>6. CASE (\E w \in Work : CacheSync(w)) \/ (\E r \in Resource : GarbageCollect(r)) \/ Tamper
           \/ UNCHANGED vars
  <2>1. UNCHANGED <<pc, job>>
    BY <1>6 DEF CacheSync, GarbageCollect, Tamper, TamperDeleteObject, TamperEditObject,
                TamperCreateObject, TamperDeleteAppliedWork, ThirdParty, vars
  <2> QED
    BY <1>2, <2>1 DEF Keeps
<1>7. CASE Restart
  BY <1>7 DEF Restart, HeldInv, Holding
<1> QED
  BY <1>1, <1>2, <1>3, <1>4, <1>5, <1>6, <1>7, StepTakes DEF Next

-----------------------------------------------------------------------------
(* Unmanaged objects.                                                       *)

Untouched(r) == Exists(res[r]) /\ ~Managed(res[r]) /\ res'[r] # res[r]
                    => \/ budget'["tamper"] < budget["tamper"]
                       \/ \E w \in Work : job[w].at = r /\ Managed(job[w].cur)

LEMMA NextUntouched ==
    ASSUME TypeInv, HeldInv, [Next]_vars, NEW r \in Resource
    PROVE  Untouched(r)
<1>1. CASE UNCHANGED res
  BY <1>1 DEF Untouched
<1>2. ASSUME NEW w \in Work, NEW reply \in Reply, CreateManifest(w, reply)
      PROVE  Untouched(r)
  BY <1>2 DEF CreateManifest, Untouched, TypeInv, TypeOK
<1>3. ASSUME NEW w \in Work, NEW reply \in Reply,
             \/ PatchManifest(w, reply) \/ DeleteStaleManifest(w, reply)
             \/ ReleaseStaleManifest(w, reply)
      PROVE  Untouched(r)
  <2>1. Managed(job[w].cur)
    BY <1>3 DEF PatchManifest, DeleteStaleManifest, ReleaseStaleManifest, HeldInv, Holding
  <2>2. job[w].at # r => res'[r] = res[r]
    <3>1. \/ UNCHANGED res
          \/ \E x : res' = [res EXCEPT ![job[w].at] = x]
      BY <1>3 DEF PatchManifest, DeleteStaleManifest, ReleaseStaleManifest
    <3> QED
      BY <3>1 DEF TypeInv, TypeOK
  <2> QED
    BY <2>1, <2>2 DEF Untouched
<1>4. ASSUME NEW w \in Work, NEW reply \in Reply, Step(w, reply)
      PROVE  Untouched(r)
  BY <1>1, <1>2, <1>3, <1>4
     DEF Step, spokeVars, GetAppliedWork, CreateAppliedWork, AddFinalizer, GetManifest,
         UpdateWorkStatus, GetNewManifest, GetStaleManifest, UpdateAppliedWork,
         DeleteAppliedWork, RemoveFinalizer
<1>5. ASSUME NEW q \in Resource, GarbageCollect(q)
      PROVE  Untouched(r)
  BY <1>5 DEF GarbageCollect, LiveOwners, Untouched, Managed, TypeInv, TypeOK
<1>6. CASE Tamper
  BY <1>6 DEF Tamper, TamperDeleteObject, TamperEditObject, TamperCreateObject,
              TamperDeleteAppliedWork, ThirdParty, Spend, Untouched, TypeInv, TypeOK, Disturbance
<1>7. ASSUME NEW w \in Work, Reconcile(w) \/ AbandonSync(w) \/ CacheSync(w) \/ User(w)
      PROVE  UNCHANGED res
  BY <1>7 DEF Reconcile, AbandonSync, CacheSync, User, CreateWork, EditWork, DeleteWork,
              UserStores, spokeVars
<1>8. CASE Restart \/ UNCHANGED vars
  BY <1>1, <1>8 DEF Restart, spokeVars, vars
<1> QED
  BY <1>1, <1>4, <1>5, <1>6, <1>7, <1>8 DEF Next

LEMMA HeldInvariant == SafeSpec => [](TypeInv /\ HeldInv)
<1>1. Init => TypeInv /\ HeldInv
  BY InitTypeInv DEF Init, HeldInv, Holding
<1>2. TypeInv /\ HeldInv /\ [Next]_vars => (TypeInv /\ HeldInv)'
  BY NextTypeInv, NextHeldInv
<1> QED
  BY <1>1, <1>2, PTL DEF SafeSpec

\* An object without an owner is written by third parties only, or by a call
\* that was decided on when a managed object had its name.
THEOREM OthersAreLeftAlone == SafeSpec => UnmanagedUntouched
<1>1. TypeInv /\ HeldInv /\ [Next]_vars => [\A r \in Resource : Untouched(r)]_vars
  BY NextUntouched
<1>2. [\A r \in Resource : Untouched(r)]_vars
        => [\A r \in Resource :
               Exists(res[r]) /\ ~Managed(res[r]) /\ res'[r] # res[r]
                   => \/ budget'["tamper"] < budget["tamper"]
                      \/ \E w \in Work : job[w].at = r /\ Managed(job[w].cur)]_vars
  BY DEF Untouched
<1> QED
  BY <1>1, <1>2, HeldInvariant, PTL DEF SafeSpec, UnmanagedUntouched

-----------------------------------------------------------------------------
(* How the locals of a reconcile change with each step of it.               *)

Writing == {"apply", "createObject", "patch"}
Sweeping == {"sync", "deleteObject", "release"}

Ends(w) == pc'[w] = "idle" /\ job'[w] = NoJob

\* The reconcile goes on with the manifests it started with, and for the same
\* AppliedWork.
GoesOn(w) == /\ job'[w].snap.spec = job[w].snap.spec
             /\ job'[w].fresh = job[w].fresh
SameAnchor(w) == job'[w].uid = job[w].uid /\ aw'[w].uid = aw[w].uid

EnsureMoves(w) ==
    /\ pc[w] \in Ensuring
    /\ pc'[w] \in {"create", "finalize", "apply"}
    /\ GoesOn(w)
    /\ job'[w].ok = job[w].ok
    /\ \/ pc'[w] = "create"
       \/ job'[w].uid # 0 => job'[w].uid = aw'[w].uid
       \/ pc[w] = "finalize" /\ SameAnchor(w)
WriteMoves(w) ==
    /\ pc[w] \in Writing
    /\ pc'[w] \in Writing
    /\ GoesOn(w)
    /\ SameAnchor(w)
SweepMoves(w) ==
    /\ pc[w] \in Sweeping \cup {"apply"}
    /\ pc'[w] \in Sweeping
    /\ pc[w] = "apply" => pc'[w] = "sync"
    /\ GoesOn(w)
    /\ SameAnchor(w)
CollectMoves(w) ==
    /\ pc[w] = "collect"
    /\ pc'[w] = "unfinalize"
    /\ GoesOn(w)

LEMMA ReturnEnds ==
    ASSUME TypeInv, NEW w \in Work, NEW again, Return(w, again)
    PROVE  Ends(w)
BY DEF Return, Ends, TypeInv, TypeOK

LEMMA JobNow ==
    ASSUME TypeInv, NEW w \in Work
    PROVE  /\ job[w] \in Job
           /\ aw[w] \in AppliedWork
           /\ lastUid \in Nat
BY DEF TypeInv, TypeOK

LEMMA EnsureLocal ==
    ASSUME TypeInv, NEW w \in Work, NEW reply \in Reply,
           GetAppliedWork(w, reply) \/ CreateAppliedWork(w, reply) \/ AddFinalizer(w, reply)
    PROVE  Ends(w) \/ EnsureMoves(w)
<1>1. CASE GetAppliedWork(w, reply)
  <2> DEFINE j == [job[w] EXCEPT !.uid = aw[w].uid, !.seen = aw[w].recorded,
                                 !.todo = Manifests(job[w].snap.spec)]
  <2>1. /\ j.snap = job[w].snap /\ j.fresh = job[w].fresh /\ j.ok = job[w].ok
        /\ j.uid = aw[w].uid
    BY JobNow DEF Job
  <2>2. pc[w] = "get" /\ UNCHANGED aw
    BY <1>1 DEF GetAppliedWork, spokeVars
  <2>3. Return(w, TRUE) \/ Goto(w, "create", job[w]) \/ Goto(w, "apply", j)
    BY <1>1 DEF GetAppliedWork, StartApply, ReadReply
  <2> HIDE DEF j
  <2> QED
    BY <2>1, <2>2, <2>3, ReturnEnds, GotoAt DEF EnsureMoves, GoesOn, Ensuring
<1>2. CASE CreateAppliedWork(w, reply)
  <2> DEFINE uid == IF reply # "error" /\ aw[w].uid = 0 THEN lastUid + 1 ELSE 0
             j == [job[w] EXCEPT !.uid = uid, !.seen = {},
                                 !.todo = Manifests(job[w].snap.spec)]
             k == [job[w] EXCEPT !.uid = uid]
  <2>1. /\ j.snap = job[w].snap /\ j.fresh = job[w].fresh /\ j.ok = job[w].ok
        /\ k.snap = job[w].snap /\ k.fresh = job[w].fresh /\ k.ok = job[w].ok
        /\ j.uid = uid /\ k.uid = uid
    BY JobNow DEF Job
  <2>2. pc[w] = "create" /\ (uid # 0 => aw'[w].uid = uid)
    BY <1>2 DEF CreateAppliedWork, TypeInv, TypeOK
  <2>3. Return(w, TRUE) \/ Goto(w, "apply", j) \/ Goto(w, "finalize", k)
    <3>1. job[w].snap.fin \in BOOLEAN
      BY JobNow DEF Job, WorkObject
    <3> QED
      BY <1>2, <3>1 DEF CreateAppliedWork, StartApply
  <2> HIDE DEF uid, j, k
  <2> QED
    BY <2>1, <2>2, <2>3, ReturnEnds, GotoAt DEF EnsureMoves, GoesOn, Ensuring
<1>3. CASE AddFinalizer(w, reply)
  <2> DEFINE work == [job[w].snap EXCEPT !.fin = TRUE]
             j == [job[w] EXCEPT !.snap = work, !.todo = Manifests(work.spec)]
  <2>1. /\ j.snap.spec = job[w].snap.spec /\ j.fresh = job[w].fresh
        /\ j.ok = job[w].ok /\ j.uid = job[w].uid
    BY JobNow DEF Job, WorkObject
  <2>2. pc[w] = "finalize" /\ UNCHANGED aw
    BY <1>3 DEF AddFinalizer, spokeVars
  <2>3. Return(w, TRUE) \/ Goto(w, "apply", j)
    BY <1>3 DEF AddFinalizer
  <2> HIDE DEF j
  <2> QED
    BY <2>1, <2>2, <2>3, ReturnEnds, GotoAt DEF EnsureMoves, GoesOn, SameAnchor, Ensuring
<1> QED
  BY <1>1, <1>2, <1>3

LEMMA WriteLocal ==
    ASSUME TypeInv, NEW w \in Work, NEW reply \in Reply,
           \/ \E r \in Resource : GetManifest(w, r, reply)
           \/ CreateManifest(w, reply)
           \/ PatchManifest(w, reply)
    PROVE  WriteMoves(w)
<1>1. pc[w] \in Writing /\ UNCHANGED aw
  BY DEF GetManifest, CreateManifest, PatchManifest, spokeVars, Writing
<1>2. ASSUME NEW label \in Writing, NEW j, Goto(w, label, j),
             j.snap = job[w].snap, j.fresh = job[w].fresh, j.uid = job[w].uid
      PROVE  WriteMoves(w)
  BY <1>1, <1>2, GotoAt DEF WriteMoves, GoesOn, SameAnchor
<1>3. ASSUME NEW r, Goto(w, "apply", Applied(w, r)) \/ Goto(w, "apply", NotApplied(w, r))
      PROVE  WriteMoves(w)
  <2>1. /\ Applied(w, r).snap = job[w].snap /\ Applied(w, r).fresh = job[w].fresh
        /\ Applied(w, r).uid = job[w].uid
        /\ NotApplied(w, r).snap = job[w].snap /\ NotApplied(w, r).fresh = job[w].fresh
        /\ NotApplied(w, r).uid = job[w].uid
    BY JobNow DEF Applied, NotApplied, Job
  <2>2. "apply" \in Writing
    BY DEF Writing
  <2> QED
    BY <1>2, <1>3, <2>1, <2>2
<1>4. ASSUME NEW r \in Resource, GetManifest(w, r, reply)
      PROVE  WriteMoves(w)
  <2> DEFINE read == [job[w] EXCEPT !.at = r, !.cur = res[r]]
  <2>1. \/ Goto(w, "createObject", read) \/ Goto(w, "patch", read)
        \/ Goto(w, "apply", Applied(w, r)) \/ Goto(w, "apply", NotApplied(w, r))
    BY <1>4 DEF GetManifest, ReadReply, Managed
  <2>2. read.snap = job[w].snap /\ read.fresh = job[w].fresh /\ read.uid = job[w].uid
    BY JobNow DEF Job
  <2> HIDE DEF read
  <2> QED
    BY <1>2, <1>3, <2>1, <2>2 DEF Writing
<1>5. CASE CreateManifest(w, reply) \/ PatchManifest(w, reply)
  BY <1>3, <1>5 DEF CreateManifest, PatchManifest
<1> QED
  BY <1>4, <1>5

LEMMA UpdateWorkStatusLocal ==
    ASSUME TypeInv, NEW w \in Work, NEW reply \in Reply, UpdateWorkStatus(w, reply)
    PROVE  \/ Ends(w)
           \/ /\ SweepMoves(w)
              /\ job'[w].stale \cap Manifests(job[w].snap.spec) = {}
<1> DEFINE j == job[w]
           wanted == Manifests(j.snap.spec)
           next == [j EXCEPT !.todo = j.ok \ j.seen, !.keep = j.ok \cap j.seen,
                             !.stale = j.seen \ wanted]
<1>1. Return(w, TRUE) \/ Goto(w, "sync", next)
  BY DEF UpdateWorkStatus
<1>2. /\ next.snap = j.snap /\ next.fresh = j.fresh /\ next.uid = j.uid
      /\ next.stale = j.seen \ wanted
  BY JobNow DEF Job
<1>3. pc[w] = "apply" /\ UNCHANGED aw
  BY DEF UpdateWorkStatus, spokeVars
<1> HIDE DEF next, wanted
<1>4. CASE Goto(w, "sync", next)
  <2>1. pc'[w] = "sync" /\ job'[w] = next
    BY <1>4, GotoAt
  <2>2. SweepMoves(w)
    BY <1>2, <1>3, <2>1 DEF SweepMoves, GoesOn, SameAnchor, Sweeping
  <2>3. job'[w].stale \cap wanted = {}
    BY <1>2, <2>1
  <2> QED
    BY <2>2, <2>3 DEF wanted
<1> QED
  BY <1>1, <1>4, ReturnEnds

LEMMA SweepLocal ==
    ASSUME TypeInv, NEW w \in Work, NEW reply \in Reply,
           \/ \E r \in Resource : GetNewManifest(w, r, reply) \/ GetStaleManifest(w, r, reply)
           \/ DeleteStaleManifest(w, reply) \/ ReleaseStaleManifest(w, reply)
    PROVE  \/ Ends(w)
           \/ /\ SweepMoves(w)
              /\ pc[w] # "apply"
              /\ job'[w].stale \subseteq job[w].stale
              /\ pc'[w] = "deleteObject" => job'[w].at \in job[w].stale
<1>1. pc[w] \in Sweeping /\ UNCHANGED aw
  BY DEF GetNewManifest, GetStaleManifest, DeleteStaleManifest, ReleaseStaleManifest,
         spokeVars, Sweeping
<1> DEFINE Goal == \/ Ends(w)
                   \/ /\ SweepMoves(w)
                      /\ pc[w] # "apply"
                      /\ job'[w].stale \subseteq job[w].stale
                      /\ pc'[w] = "deleteObject" => job'[w].at \in job[w].stale
<1>2. ASSUME NEW label \in Sweeping, NEW j, Goto(w, label, j),
             j.snap = job[w].snap, j.fresh = job[w].fresh, j.uid = job[w].uid,
             j.stale \subseteq job[w].stale,
             label = "deleteObject" => j.at \in job[w].stale
      PROVE  Goal
  <2>1. pc'[w] = label /\ job'[w] = j
    BY <1>2, GotoAt
  <2>2. pc[w] # "apply"
    BY <1>1 DEF Sweeping
  <2> QED
    BY <1>1, <1>2, <2>1, <2>2 DEF SweepMoves, GoesOn, SameAnchor
<1>3. ASSUME NEW r \in Resource, GetNewManifest(w, r, reply)
      PROVE  Goal
  <2> DEFINE found == [job[w] EXCEPT !.todo = @ \ {r}, !.keep = @ \cup {r}]
             gone == [job[w] EXCEPT !.todo = @ \ {r}]
  <2>1. /\ found.snap = job[w].snap /\ found.fresh = job[w].fresh /\ found.uid = job[w].uid
        /\ found.stale = job[w].stale
        /\ gone.snap = job[w].snap /\ gone.fresh = job[w].fresh /\ gone.uid = job[w].uid
        /\ gone.stale = job[w].stale
    BY JobNow DEF Job
  <2>2. Return(w, FALSE) \/ Goto(w, "sync", found) \/ Goto(w, "sync", gone)
    BY <1>3 DEF GetNewManifest, ReadReply
  <2>3. "sync" \in Sweeping
    BY DEF Sweeping
  <2> HIDE DEF found, gone
  <2>4. CASE Return(w, FALSE)
    BY <2>4, ReturnEnds
  <2>5. CASE Goto(w, "sync", found)
    BY <1>2, <2>1, <2>3, <2>5
  <2>6. CASE Goto(w, "sync", gone)
    BY <1>2, <2>1, <2>3, <2>6
  <2> QED
    BY <2>2, <2>4, <2>5, <2>6
<1>4. ASSUME NEW r \in Resource, GetStaleManifest(w, r, reply)
      PROVE  Goal
  <2> DEFINE next == [job[w] EXCEPT !.stale = @ \ {r}]
             failed == [next EXCEPT !.failed = TRUE]
             read == [next EXCEPT !.at = r, !.cur = res[r]]
  <2>1. /\ next.snap = job[w].snap /\ next.fresh = job[w].fresh /\ next.uid = job[w].uid
        /\ next.stale \subseteq job[w].stale
        /\ failed.snap = job[w].snap /\ failed.fresh = job[w].fresh
        /\ failed.uid = job[w].uid /\ failed.stale \subseteq job[w].stale
        /\ read.snap = job[w].snap /\ read.fresh = job[w].fresh /\ read.uid = job[w].uid
        /\ read.stale \subseteq job[w].stale /\ read.at = r
    BY JobNow DEF Job
  <2>2. r \in job[w].stale
    BY <1>4 DEF GetStaleManifest
  <2>3. \/ Goto(w, "sync", failed) \/ Goto(w, "sync", next)
        \/ Goto(w, "deleteObject", read) \/ Goto(w, "release", read)
    BY <1>4 DEF GetStaleManifest, ReadReply
  <2>4. "sync" \in Sweeping /\ "deleteObject" \in Sweeping /\ "release" \in Sweeping
    BY DEF Sweeping
  <2> HIDE DEF next, failed, read
  <2>5. CASE Goto(w, "sync", failed)
    BY <1>2, <2>1, <2>4, <2>5
  <2>6. CASE Goto(w, "sync", next)
    BY <1>2, <2>1, <2>4, <2>6
  <2>7. CASE Goto(w, "deleteObject", read)
    BY <1>2, <2>1, <2>2, <2>4, <2>7
  <2>8. CASE Goto(w, "release", read)
    BY <1>2, <2>1, <2>4, <2>8
  <2> QED
    BY <2>3, <2>5, <2>6, <2>7, <2>8
<1>5. CASE DeleteStaleManifest(w, reply) \/ ReleaseStaleManifest(w, reply)
  <2>1. PICK f : Goto(w, "sync", [Done(w) EXCEPT !.failed = f])
    <3>1. CASE DeleteStaleManifest(w, reply)
      BY <3>1 DEF DeleteStaleManifest
    <3>2. CASE ReleaseStaleManifest(w, reply)
      BY <3>2 DEF ReleaseStaleManifest
    <3> QED
      BY <1>5, <3>1, <3>2
  <2> DEFINE j == [Done(w) EXCEPT !.failed = f]
  <2>2. /\ j.snap = job[w].snap /\ j.fresh = job[w].fresh /\ j.uid = job[w].uid
        /\ j.stale = job[w].stale
    BY JobNow DEF Done, Job
  <2>3. "sync" \in Sweeping
    BY DEF Sweeping
  <2> HIDE DEF j
  <2> QED
    BY <1>2, <2>1, <2>2, <2>3 DEF j
<1> QED
  BY <1>3, <1>4, <1>5

LEMMA LastLocal ==
    ASSUME TypeInv, NEW w \in Work,
           \/ AbandonSync(w)
           \/ \E reply \in Reply : \/ UpdateAppliedWork(w, reply)
                                  \/ DeleteAppliedWork(w, reply)
                                  \/ RemoveFinalizer(w, reply)
    PROVE  Ends(w) \/ CollectMoves(w)
<1>1. \/ \E again : Return(w, again)
      \/ pc[w] = "collect" /\ Goto(w, "unfinalize", job[w])
  BY DEF AbandonSync, UpdateAppliedWork, DeleteAppliedWork, RemoveFinalizer, Resync
<1> QED
  BY <1>1, ReturnEnds, GotoAt DEF CollectMoves, GoesOn

-----------------------------------------------------------------------------
(* The manifests of a Work, in its copies. A status that is about the Work   *)
(* as it is, is about the copies too: the cache and a reconcile in progress. *)

CopyInv(w) ==
    /\ job[w].fresh => cache[w].spec = job[w].snap.spec
    /\ status[w].observed => /\ hub[w].fin
                             /\ cache[w].spec = hub[w].spec
                             /\ pc[w] # "idle" => job[w].snap.spec = hub[w].spec
    /\ pc[w] \in Sweeping => job[w].stale \cap Manifests(job[w].snap.spec) = {}
    /\ pc[w] = "deleteObject" => job[w].at \notin Manifests(job[w].snap.spec)

HubKept(w) == /\ hub'[w].phase = hub[w].phase
              /\ hub'[w].spec = hub[w].spec
              /\ hub[w].fin => hub'[w].fin
              /\ cache'[w] = cache[w]

\* What a reconcile writes on the hub.
StatusSet(w) == /\ pc[w] = "apply"
                /\ job[w].fresh
                /\ hub[w] = job[w].snap
                /\ status'[w].applied => job[w].ok = Manifests(job[w].snap.spec)
                /\ HubKept(w)
WorkGone(w) == hub'[w] = NoWork /\ status'[w] = NoStatus /\ Ends(w)
StepWrites(w) == \/ HubKept(w) /\ status'[w] = status[w]
                 \/ StatusSet(w)
                 \/ WorkGone(w) /\ cache'[w] = cache[w]

LEMMA StepHub ==
    ASSUME TypeInv, FinalizerInv, NEW w \in Work, NEW reply \in Reply, Step(w, reply)
    PROVE  StepWrites(w)
<1>1. ASSUME UNCHANGED <<hub, status, cache>>
      PROVE  StepWrites(w)
  BY <1>1 DEF StepWrites, HubKept
<1>2. job[w].fresh => hub[w] = job[w].snap
  BY DEF FinalizerInv, CopiesInv
<1>3. CASE AddFinalizer(w, reply)
  <2>1. CASE UNCHANGED hub
    BY <1>1, <1>3, <2>1 DEF AddFinalizer
  <2>2. CASE Accepted(w, reply) /\ HubStores(w, [job[w].snap EXCEPT !.fin = TRUE], FALSE)
    <3>1. hub'[w] = [hub[w] EXCEPT !.fin = TRUE] /\ UNCHANGED <<status, cache>>
      BY <1>2, <1>3, <2>2 DEF AddFinalizer, Accepted, HubStores, TypeInv, TypeOK
    <3> QED
      BY <3>1 DEF StepWrites, HubKept, TypeInv, TypeOK, WorkObject
  <2> QED
    BY <1>3, <2>1, <2>2 DEF AddFinalizer
<1>4. CASE UpdateWorkStatus(w, reply)
  <2>1. CASE ~Accepted(w, reply)
    BY <1>1, <1>4, <2>1 DEF UpdateWorkStatus
  <2>2. CASE Accepted(w, reply)
    <3>1. hub'[w] = hub[w] /\ hub[w] = job[w].snap /\ job[w].fresh /\ UNCHANGED cache
      BY <1>2, <1>4, <2>2 DEF UpdateWorkStatus, Accepted, HubStores, TypeInv, TypeOK
    <3>2. status'[w].applied => job[w].ok = Manifests(job[w].snap.spec)
      <4> DEFINE all == job[w].ok = Manifests(job[w].snap.spec)
      <4>1. status'[w] = [observed |-> TRUE, applied |-> all, ok |-> job[w].ok]
        BY <1>4, <2>2 DEF UpdateWorkStatus, TypeInv, TypeOK
      <4> HIDE DEF all
      <4>2. status'[w].applied = all
        BY <4>1
      <4>3. status'[w].applied => all
        BY <4>2, Zenon
      <4> QED
        BY <4>3 DEF all
    <3> QED
      BY <1>4, <3>1, <3>2 DEF StepWrites, StatusSet, HubKept, UpdateWorkStatus
  <2> QED
    BY <2>1, <2>2
<1>5. CASE RemoveFinalizer(w, reply)
  <2>1. CASE ~Accepted(w, reply)
    BY <1>1, <1>5, <2>1 DEF RemoveFinalizer
  <2>2. CASE Accepted(w, reply)
    <3>1. hub'[w] = NoWork /\ status'[w] = NoStatus /\ UNCHANGED cache
      BY <1>5, <2>2 DEF RemoveFinalizer, HubStores, TypeInv, TypeOK
    <3> QED
      BY <1>5, <3>1, ReturnEnds DEF StepWrites, WorkGone, RemoveFinalizer
  <2> QED
    BY <2>1, <2>2
<1> QED
  BY <1>1, <1>3, <1>4, <1>5
     DEF Step, hubVars, GetAppliedWork, CreateAppliedWork, GetManifest, CreateManifest,
         PatchManifest, GetNewManifest, GetStaleManifest, DeleteStaleManifest,
         ReleaseStaleManifest, UpdateAppliedWork, DeleteAppliedWork

LEMMA StepCopy ==
    ASSUME TypeInv, FinalizerInv, NEW w \in Work, CopyInv(w),
           NEW reply \in Reply, Step(w, reply)
    PROVE  CopyInv(w)'
<1>1. /\ \/ Ends(w)
         \/ pc[w] # "idle" /\ GoesOn(w)
      /\ pc'[w] \in Sweeping => job'[w].stale \cap Manifests(job'[w].snap.spec) = {}
      /\ pc'[w] = "deleteObject" => job'[w].at \notin Manifests(job'[w].snap.spec)
  <2>1. CASE GetAppliedWork(w, reply) \/ CreateAppliedWork(w, reply) \/ AddFinalizer(w, reply)
    BY <2>1, EnsureLocal DEF EnsureMoves, Ensuring, Sweeping, Ends
  <2>2. CASE \/ \E r \in Resource : GetManifest(w, r, reply)
             \/ CreateManifest(w, reply) \/ PatchManifest(w, reply)
    BY <2>2, WriteLocal DEF WriteMoves, Writing, Sweeping
  <2>3. CASE UpdateWorkStatus(w, reply)
    BY <2>3, UpdateWorkStatusLocal DEF SweepMoves, Sweeping, Ends, GoesOn, UpdateWorkStatus
  <2>4. CASE \/ \E r \in Resource : \/ GetNewManifest(w, r, reply)
                                    \/ GetStaleManifest(w, r, reply)
             \/ DeleteStaleManifest(w, reply) \/ ReleaseStaleManifest(w, reply)
    BY <2>4, SweepLocal DEF CopyInv, SweepMoves, Sweeping, Ends, GoesOn
  <2>5. CASE \/ UpdateAppliedWork(w, reply) \/ DeleteAppliedWork(w, reply)
             \/ RemoveFinalizer(w, reply)
    BY <2>5, LastLocal DEF CollectMoves, Sweeping, Ends
  <2> QED
    BY <2>1, <2>2, <2>3, <2>4, <2>5 DEF Step
<1>2. StepWrites(w)
  BY StepHub
<1>3. Ends(w) => ~job'[w].fresh /\ pc'[w] = "idle"
  BY DEF Ends, NoJob
<1>4. CASE HubKept(w) /\ status'[w] = status[w]
  BY <1>1, <1>3, <1>4 DEF CopyInv, HubKept, GoesOn
<1>5. CASE StatusSet(w)
  <2>1. hub[w].fin
    BY <1>5, ReliesNow DEF StatusSet, Relies, Applying
  <2> QED
    BY <1>1, <1>3, <1>5, <2>1 DEF CopyInv, StatusSet, HubKept, GoesOn
<1>6. CASE WorkGone(w)
  BY <1>3, <1>6 DEF CopyInv, WorkGone, NoStatus, Sweeping
<1> QED
  BY <1>2, <1>4, <1>5, <1>6 DEF StepWrites

\* What a user does to a Work: the copies are outdated, and so is the status.
Edited(w) == /\ ~status'[w].observed
             /\ cache'[w] = cache[w] /\ pc'[w] = pc[w]
             /\ job'[w] = [job[w] EXCEPT !.fresh = FALSE]

LEMMA UserEdits ==
    ASSUME TypeInv, FinalizerInv, NEW w \in Work, CopyInv(w), User(w)
    PROVE  Edited(w)
<1>1. \E x : UserStores(w, x)
  BY DEF User, CreateWork, EditWork, DeleteWork
<1>2. ~status'[w].observed
  <2>1. CASE CreateWork(w)
    BY <2>1 DEF CreateWork, CopyInv, FinalizerInv, CopiesInv
  <2>2. CASE EditWork(w)
    BY <2>2 DEF EditWork, TypeInv, TypeOK, Status
  <2>3. CASE DeleteWork(w)
    BY <2>3 DEF DeleteWork, NoStatus, TypeInv, TypeOK, Status
  <2> QED
    BY <2>1, <2>2, <2>3 DEF User
<1> QED
  BY <1>1, <1>2 DEF Edited, UserStores, TypeInv, TypeOK

LEMMA NextCopyInv ==
    ASSUME TypeInv, FinalizerInv, NEW w \in Work, \A v \in Work : v = w,
           CopyInv(w), [Next]_vars
    PROVE  CopyInv(w)'
<1>1. CASE Reconcile(w)
  <2>1. /\ UNCHANGED <<hub, status, cache>>
        /\ pc'[w] = EntryPoint(cache[w])
        /\ EntryPoint(cache[w]) # "idle" => job'[w].snap = cache[w]
        /\ EntryPoint(cache[w]) = "idle" => job'[w] = job[w]
    BY <1>1 DEF Reconcile, hubVars, TypeInv, TypeOK, NoJob
  <2>2. EntryPoint(cache[w]) \notin Sweeping
    BY DEF EntryPoint, TypeInv, TypeOK, WorkObject, Sweeping
  <2> QED
    BY <2>1, <2>2 DEF CopyInv, Sweeping
<1>2. CASE AbandonSync(w)
  <2>1. UNCHANGED <<hub, status, cache>> /\ pc'[w] = "idle" /\ ~job'[w].fresh
    BY <1>2, ReturnAt DEF AbandonSync, hubVars
  <2> QED
    BY <2>1 DEF CopyInv, Sweeping
<1>3. CASE CacheSync(w)
  <2>1. /\ UNCHANGED <<hub, status, pc, job>>
        /\ cache'[w] = hub[w]
    BY <1>3 DEF CacheSync, hubVars, TypeInv, TypeOK
  <2>2. job[w].fresh => hub[w] = job[w].snap
    BY DEF FinalizerInv, CopiesInv
  <2> QED
    BY <2>1, <2>2 DEF CopyInv
<1>4. CASE User(w)
  <2> DEFINE j == [job[w] EXCEPT !.fresh = FALSE]
  <2>1. Edited(w)
    BY <1>4, UserEdits
  <2>2. ~j.fresh /\ j.snap = job[w].snap /\ j.stale = job[w].stale /\ j.at = job[w].at
    BY JobNow DEF Job
  <2>3. job'[w] = j /\ pc'[w] = pc[w] /\ ~status'[w].observed
    BY <2>1 DEF Edited
  <2> HIDE DEF j
  <2> QED
    BY <2>2, <2>3 DEF CopyInv
<1>5. CASE \E reply \in Reply : Step(w, reply)
  BY <1>5, StepCopy
<1>6. CASE (\E r \in Resource : GarbageCollect(r)) \/ Tamper \/ UNCHANGED vars
  <2>1. UNCHANGED <<hub, status, cache, pc, job>>
    BY <1>6 DEF GarbageCollect, Tamper, TamperDeleteObject, TamperEditObject,
                TamperCreateObject, TamperDeleteAppliedWork, ThirdParty, hubVars, vars
  <2> QED
    BY <2>1 DEF CopyInv
<1>7. CASE Restart
  <2>1. /\ UNCHANGED <<hub, status>> /\ cache' = hub
        /\ pc'[w] = "idle" /\ ~job'[w].fresh
    BY <1>7 DEF Restart, hubVars, NoJob
  <2> QED
    BY <2>1 DEF CopyInv, Sweeping
<1> QED
  BY <1>1, <1>2, <1>3, <1>4, <1>5, <1>6, <1>7 DEF Next

-----------------------------------------------------------------------------
(* Until a third party acts, a reconcile that has a UID has that of the      *)
(* AppliedWork there is.                                                     *)

Unspent == budget["tamper"] = Budget["tamper"]
BudgetInv == budget["tamper"] <= Budget["tamper"]

LEMMA NextBudget ==
    ASSUME TypeInv, BudgetInv, [Next]_vars
    PROVE  BudgetInv' /\ (Unspent' => Unspent /\ ~Tamper)
<1>1. budget["tamper"] \in Nat /\ Budget["tamper"] \in Nat
  BY DEF TypeInv, TypeOK, Disturbance
<1>2. ASSUME NEW kind, Spend(kind), kind # "tamper"
      PROVE  budget'["tamper"] = budget["tamper"]
  BY <1>2 DEF Spend, TypeInv, TypeOK, Disturbance
<1>3. ASSUME NEW name, NEW reply, Call(name, reply)
      PROVE  budget'["tamper"] = budget["tamper"]
  BY <1>2, <1>3 DEF Call
<1>4. Tamper => budget'["tamper"] < budget["tamper"]
  <2>1. Tamper => Spend("tamper")
    BY DEF Tamper, TamperDeleteObject, TamperEditObject, TamperCreateObject,
           TamperDeleteAppliedWork, ThirdParty
  <2> QED
    BY <1>1, <2>1 DEF Spend, TypeInv, TypeOK, Disturbance
<1>5. ASSUME NEW w \in Work, NEW reply \in Reply, Step(w, reply)
      PROVE  budget'["tamper"] = budget["tamper"]
  <2>1. \E name : Call(name, reply)
    BY <1>5 DEF Step, GetAppliedWork, CreateAppliedWork, AddFinalizer, GetManifest,
                CreateManifest, PatchManifest, UpdateWorkStatus, GetNewManifest,
                GetStaleManifest, DeleteStaleManifest, ReleaseStaleManifest,
                UpdateAppliedWork, DeleteAppliedWork, RemoveFinalizer
  <2> QED
    BY <1>3, <2>1
<1>6. ASSUME NEW w \in Work, User(w)
      PROVE  budget'["tamper"] = budget["tamper"]
  BY <1>2, <1>6 DEF User, CreateWork, EditWork, DeleteWork
<1>7. ASSUME \/ \E w \in Work : Reconcile(w) \/ AbandonSync(w) \/ CacheSync(w)
             \/ \E r \in Resource : GarbageCollect(r)
             \/ UNCHANGED vars
      PROVE  budget'["tamper"] = budget["tamper"]
  BY <1>7 DEF Reconcile, AbandonSync, CacheSync, GarbageCollect, vars
<1>8. ASSUME Restart
      PROVE  budget'["tamper"] = budget["tamper"]
  BY <1>2, <1>8 DEF Restart
<1>9. \/ Tamper
      \/ budget'["tamper"] = budget["tamper"]
  BY <1>5, <1>6, <1>7, <1>8 DEF Next
<1>10. CASE Tamper
  BY <1>1, <1>4, <1>10, NextTypeInv DEF BudgetInv, Unspent, TypeInv, TypeOK, Disturbance
<1>11. CASE ~Tamper /\ budget'["tamper"] = budget["tamper"]
  BY <1>11 DEF BudgetInv, Unspent
<1> QED
  BY <1>9, <1>10, <1>11

-----------------------------------------------------------------------------
(* What a step leaves as it is. Edits by users touch other locals than the   *)
(* anchor and the object in hand.                                            *)

Rests(w) == /\ pc'[w] = pc[w] /\ job'[w].uid = job[w].uid
            /\ job'[w].at = job[w].at /\ job'[w].cur = job[w].cur

LEMMA StepRests ==
    ASSUME TypeInv, NEW w \in Work, NEW reply \in Reply, Step(w, reply)
    PROVE  \A v \in Work \ {w} : Rests(v)
<1>1. ASSUME NEW label, NEW j, Goto(w, label, j)
      PROVE  \A v \in Work \ {w} : Rests(v)
  BY <1>1 DEF Goto, Rests, TypeInv, TypeOK
<1>2. ASSUME NEW again, Return(w, again)
      PROVE  \A v \in Work \ {w} : Rests(v)
  BY <1>2 DEF Return, Rests, TypeInv, TypeOK
<1>3. job[w].snap.fin \in BOOLEAN
  BY DEF TypeInv, TypeOK, Job, WorkObject
<1>4. CASE GetAppliedWork(w, reply) \/ CreateAppliedWork(w, reply) \/ AddFinalizer(w, reply)
  BY <1>1, <1>2, <1>3, <1>4 DEF GetAppliedWork, CreateAppliedWork, AddFinalizer,
                                StartApply, ReadReply
<1>5. CASE \/ \E r \in Resource : GetManifest(w, r, reply)
           \/ CreateManifest(w, reply) \/ PatchManifest(w, reply)
           \/ UpdateWorkStatus(w, reply)
  BY <1>1, <1>2, <1>5 DEF GetManifest, CreateManifest, PatchManifest, UpdateWorkStatus,
                          ReadReply, Managed
<1>6. ASSUME NEW r \in Resource, GetStaleManifest(w, r, reply)
      PROVE  \A v \in Work \ {w} : Rests(v)
  <2>1. \E label, j : Goto(w, label, j)
    BY <1>6 DEF GetStaleManifest, ReadReply
  <2> QED
    BY <1>1, <2>1
<1>7. CASE \/ \E r \in Resource : GetNewManifest(w, r, reply)
           \/ DeleteStaleManifest(w, reply) \/ ReleaseStaleManifest(w, reply)
  BY <1>1, <1>2, <1>7 DEF GetNewManifest, DeleteStaleManifest, ReleaseStaleManifest,
                          ReadReply
<1>8. CASE \/ UpdateAppliedWork(w, reply) \/ DeleteAppliedWork(w, reply)
           \/ RemoveFinalizer(w, reply)
  BY <1>1, <1>2, <1>8 DEF UpdateAppliedWork, DeleteAppliedWork, RemoveFinalizer, Resync
<1> QED
  BY <1>4, <1>5, <1>6, <1>7, <1>8 DEF Step

LEMMA StepAnchors ==
    ASSUME TypeInv, NEW w \in Work, NEW reply \in Reply, Step(w, reply)
    PROVE  \A v \in Work \ {w} : aw'[v] = aw[v]
<1>1. \/ CreateAppliedWork(w, reply) \/ UpdateAppliedWork(w, reply)
      \/ DeleteAppliedWork(w, reply) \/ UNCHANGED aw
  BY DEF Step, spokeVars, GetAppliedWork, AddFinalizer, GetManifest, CreateManifest,
         PatchManifest, UpdateWorkStatus, GetNewManifest, GetStaleManifest,
         DeleteStaleManifest, ReleaseStaleManifest, RemoveFinalizer
<1> QED
  BY <1>1 DEF CreateAppliedWork, UpdateAppliedWork, DeleteAppliedWork, TypeInv, TypeOK

\* The steps that are not the reconcile's own calls.
Aside(w) == \/ Reconcile(w) \/ AbandonSync(w) \/ CacheSync(w) \/ User(w)

LEMMA AsideRests ==
    ASSUME TypeInv, NEW w \in Work, Aside(w), NEW v \in Work
    PROVE  \/ Rests(v)
           \/ pc[v] \notin Holding /\ pc'[v] \notin Applying \cup {"finalize"}
<1>1. pc \in [Work -> PC] /\ job \in [Work -> Job]
  BY DEF TypeInv, TypeOK
<1>2. CASE Reconcile(w)
  <2>1. EntryPoint(cache[w]) \notin Applying \cup {"finalize"}
    BY DEF EntryPoint, TypeInv, TypeOK, WorkObject, Applying
  <2>2. /\ pc' = [pc EXCEPT ![w] = EntryPoint(cache[w])]
        /\ pc[w] \notin Holding
        /\ \A u \in Work \ {w} : job'[u] = job[u]
    BY <1>1, <1>2 DEF Reconcile, Holding
  <2> QED
    BY <1>1, <2>1, <2>2 DEF Rests
<1>3. CASE AbandonSync(w)
  BY <1>1, <1>3 DEF AbandonSync, Return, Rests, Holding, Applying
<1>4. CASE CacheSync(w)
  BY <1>4 DEF CacheSync, Rests
<1>5. CASE User(w)
  <2> DEFINE j == [job[w] EXCEPT !.fresh = FALSE]
  <2>1. j.uid = job[w].uid /\ j.at = job[w].at /\ j.cur = job[w].cur
    BY <1>1 DEF Job
  <2>2. UNCHANGED pc /\ job' = [job EXCEPT ![w] = j]
    BY <1>5 DEF User, CreateWork, EditWork, DeleteWork, UserStores
  <2> HIDE DEF j
  <2> QED
    BY <1>1, <2>1, <2>2 DEF Rests
<1> QED
  BY <1>2, <1>3, <1>4, <1>5 DEF Aside

LEMMA OthersRest ==
    ASSUME TypeInv, NEW v \in Work,
           \/ Tamper
           \/ \E r \in Resource : GarbageCollect(r)
           \/ UNCHANGED vars
    PROVE  Rests(v)
BY DEF Tamper, TamperDeleteObject, TamperEditObject, TamperCreateObject,
       TamperDeleteAppliedWork, ThirdParty, GarbageCollect, vars, Rests

\* A reconcile works for the AppliedWork that exists, until a third party has
\* deleted one.
Keyed(w) == pc[w] \in Applying \cup {"finalize"} /\ job[w].uid # 0
                => aw[w].uid = job[w].uid
Anchored(w) == Unspent => Keyed(w)

LEMMA NextKeyed ==
    ASSUME TypeInv, NEW w \in Work, Keyed(w), [Next]_vars,
           \A v \in Work : ~TamperDeleteAppliedWork(v)
    PROVE  Keyed(w)'
<1> SUFFICES ASSUME pc'[w] \in Applying \cup {"finalize"}, job'[w].uid # 0
             PROVE  aw'[w].uid = job'[w].uid
  BY DEF Keyed
<1>1. ASSUME pc'[w] = pc[w], SameAnchor(w)
      PROVE  aw'[w].uid = job'[w].uid
  BY <1>1 DEF Keyed, SameAnchor
<1>2. Ends(w) => FALSE
  BY DEF Ends, Applying
<1>3. ASSUME NEW reply \in Reply, Step(w, reply)
      PROVE  aw'[w].uid = job'[w].uid
  <2>1. CASE GetAppliedWork(w, reply) \/ CreateAppliedWork(w, reply) \/ AddFinalizer(w, reply)
    BY <1>2, <2>1, EnsureLocal DEF EnsureMoves, SameAnchor, Keyed, Applying
  <2>2. CASE \/ \E r \in Resource : GetManifest(w, r, reply)
             \/ CreateManifest(w, reply) \/ PatchManifest(w, reply)
    BY <2>2, WriteLocal DEF WriteMoves, SameAnchor, Keyed, Writing, Applying
  <2>3. CASE UpdateWorkStatus(w, reply)
    BY <1>2, <2>3, UpdateWorkStatusLocal DEF SweepMoves, SameAnchor, Keyed, Sweeping, Applying
  <2>4. CASE \/ \E r \in Resource : \/ GetNewManifest(w, r, reply)
                                    \/ GetStaleManifest(w, r, reply)
             \/ DeleteStaleManifest(w, reply) \/ ReleaseStaleManifest(w, reply)
    BY <1>2, <2>4, SweepLocal DEF SweepMoves, SameAnchor, Keyed, Sweeping, Applying
  <2>5. CASE \/ UpdateAppliedWork(w, reply) \/ DeleteAppliedWork(w, reply)
             \/ RemoveFinalizer(w, reply)
    BY <1>2, <2>5, LastLocal DEF CollectMoves, Applying
  <2> QED
    BY <1>3, <2>1, <2>2, <2>3, <2>4, <2>5 DEF Step
<1>4. ASSUME NEW v \in Work, v # w, NEW reply \in Reply, Step(v, reply)
      PROVE  aw'[w].uid = job'[w].uid
  BY <1>1, <1>4, StepRests, StepAnchors DEF Rests, SameAnchor
<1>5. ASSUME NEW v \in Work, Aside(v)
      PROVE  aw'[w].uid = job'[w].uid
  <2>1. UNCHANGED aw
    BY <1>5 DEF Aside, Reconcile, AbandonSync, CacheSync, User, CreateWork, EditWork,
                DeleteWork, UserStores, spokeVars
  <2>2. Rests(w) \/ pc'[w] \notin Applying \cup {"finalize"}
    BY <1>5, AsideRests
  <2> QED
    BY <1>1, <2>1, <2>2 DEF Rests, SameAnchor
<1>6. CASE Tamper \/ (\E r \in Resource : GarbageCollect(r)) \/ UNCHANGED vars
  <2>1. UNCHANGED aw
    BY <1>6 DEF Tamper, TamperDeleteObject, TamperEditObject, TamperCreateObject,
                GarbageCollect, vars
  <2> QED
    BY <1>1, <1>6, <2>1, OthersRest DEF Rests, SameAnchor
<1>7. CASE Restart
  BY <1>7 DEF Restart, Applying
<1> QED
  BY <1>3, <1>4, <1>5, <1>6, <1>7 DEF Next, Aside

LEMMA NextAnchored ==
    ASSUME TypeInv, NEW w \in Work, BudgetInv, Anchored(w), [Next]_vars
    PROVE  Anchored(w)'
BY NextBudget, NextKeyed DEF Anchored, Tamper

-----------------------------------------------------------------------------
(* The objects, while a single Work owns them and no third party acts: each  *)
(* is as some reconcile of that Work wrote it.                               *)

Deployed(o, c) == [content |-> c, owners |-> {o}, last |-> {o}, hash |-> {<<o, c>>}]
Anchor(w) == [work |-> w, uid |-> aw[w].uid]

SingleInv == \A r \in Resource :
                 Exists(res[r]) => \E o \in Owner, c \in Content : res[r] = Deployed(o, c)

\* The object in hand is still as it was read, unless it is gone.
HandInv(w) == /\ pc[w] # "release"
              /\ pc[w] = "patch" /\ Exists(res[job[w].at]) => res[job[w].at] = job[w].cur

\* What a step does to an object: nothing, or one of these.
Written(w, r) == /\ pc[w] \in {"createObject", "patch"}
                 /\ pc[w] = "createObject" => ~Exists(res[r])
                 /\ r = job[w].at
                 /\ job[w].uid # 0
                 /\ res'[r] = Deployed(Me(w), Wanted(w))
Removed(w, r) == pc[w] = "deleteObject" /\ r = job[w].at /\ res'[r] = NoObject
Collected(w, r) == /\ UNCHANGED <<hub, status, pc, job, aw>>
                   /\ res'[r] = NoObject
                   /\ \A c : res[r] # Deployed(Anchor(w), c)
ObjectStep(w) == \A r \in Resource :
    res'[r] = res[r] \/ Written(w, r) \/ Removed(w, r) \/ Collected(w, r)

\* A reconcile that did not write its manifest does not take it for applied.
Attempt(w) == \/ Written(w, job[w].at)
              \/ Goto(w, "apply", NotApplied(w, job[w].at))

LEMMA PatchOfOne ==
    ASSUME NEW o \in Owner, NEW me \in Owner, o.work = me.work, NEW r, NEW c, NEW d,
           NEW merged \in MergedOwners({o}, me)
    PROVE  Patched(r, d, me, merged, Deployed(o, c), Deployed(o, c)) = Deployed(me, d)
<1>1. SameOwner({o}, me) = {o}
  BY DEF SameOwner
<1>2. merged = {me}
  BY <1>1 DEF MergedOwners
<1>3. PatchedOwners(r, merged, Deployed(o, c), Deployed(o, c)) = {me}
  BY <1>2 DEF PatchedOwners, Deployed
<1> QED
  BY <1>2, <1>3 DEF Patched, Deployed

LEMMA CreateObjects ==
    ASSUME TypeInv, NEW w \in Work, NEW reply \in Reply, CreateManifest(w, reply)
    PROVE  ObjectStep(w) /\ Attempt(w)
<1> DEFINE q == job[w].at
           created == reply # "error" /\ ~Exists(res[q]) /\ job[w].uid # 0
<1>1. /\ pc[w] = "createObject"
      /\ res' = IF created THEN [res EXCEPT ![q] = Deployed(Me(w), Wanted(w))] ELSE res
  BY DEF CreateManifest, Deployed
<1>2. ASSUME NEW r \in Resource, res'[r] # res[r]
      PROVE  created /\ r = q /\ res'[r] = Deployed(Me(w), Wanted(w))
  BY <1>1, <1>2 DEF TypeInv, TypeOK
<1>3. ASSUME created
      PROVE  Written(w, q)
  <2>1. q \in Resource
    BY <1>1 DEF TypeInv, JobShape, Shape, Manifests
  <2> QED
    BY <1>1, <1>3, <2>1 DEF Written, TypeInv, TypeOK
<1>4. created \/ Goto(w, "apply", NotApplied(w, q))
  BY DEF CreateManifest
<1> QED
  BY <1>1, <1>2, <1>3, <1>4 DEF ObjectStep, Written, Attempt

LEMMA PatchObjects ==
    ASSUME TypeInv, NEW w \in Work, \A v \in Work : v = w, SingleInv, HandInv(w),
           NEW reply \in Reply, PatchManifest(w, reply)
    PROVE  ObjectStep(w) /\ Attempt(w)
<1> DEFINE q == job[w].at
<1>1. pc[w] = "patch" /\ q \in Resource
  BY DEF PatchManifest, TypeInv, JobShape, Shape, Manifests
<1>2. ASSUME UNCHANGED res
      PROVE  ObjectStep(w)
  BY <1>2 DEF ObjectStep
<1>3. ASSUME Patchable(w),
             NEW merged \in MergedOwners(job[w].cur.owners, Me(w)),
             res' = [res EXCEPT ![q] = Patched(q, Wanted(w), Me(w), merged, job[w].cur, @)]
      PROVE  ObjectStep(w) /\ Written(w, q)
  <2>1. Exists(res[q]) /\ job[w].uid # 0 /\ Me(w) \in Owner
    BY <1>3, MeType DEF Patchable, TypeInv
  <2>2. PICK o \in Owner, c \in Content : res[q] = Deployed(o, c)
    BY <1>1, <2>1 DEF SingleInv
  <2>3. job[w].cur = Deployed(o, c)
    BY <1>1, <2>1, <2>2 DEF HandInv
  <2>4. merged \in MergedOwners({o}, Me(w)) /\ o.work = Me(w).work
    BY <1>3, <2>3 DEF Deployed, Me, Owner
  <2>5. Patched(q, Wanted(w), Me(w), merged, job[w].cur, res[q]) = Deployed(Me(w), Wanted(w))
    BY <2>1, <2>2, <2>3, <2>4, PatchOfOne
  <2>6. res' = [res EXCEPT ![q] = Deployed(Me(w), Wanted(w))]
    BY <1>3, <2>5
  <2>7. ASSUME NEW r \in Resource, res'[r] # res[r]
        PROVE  r = q /\ res'[r] = Deployed(Me(w), Wanted(w))
    BY <2>6, <2>7 DEF TypeInv, TypeOK
  <2>8. res'[q] = Deployed(Me(w), Wanted(w))
    BY <1>1, <2>6 DEF TypeInv, TypeOK
  <2> QED
    BY <1>1, <2>1, <2>7, <2>8 DEF ObjectStep, Written
<1>4. \/ UNCHANGED res /\ Goto(w, "apply", NotApplied(w, q))
      \/ /\ Patchable(w)
         /\ \E merged \in MergedOwners(job[w].cur.owners, Me(w)) :
               res' = [res EXCEPT ![q] = Patched(q, Wanted(w), Me(w), merged, job[w].cur, @)]
  BY DEF PatchManifest
<1> QED
  BY <1>2, <1>3, <1>4 DEF Attempt

LEMMA DeleteObjects ==
    ASSUME TypeInv, NEW w \in Work, NEW reply \in Reply, DeleteStaleManifest(w, reply)
    PROVE  ObjectStep(w)
BY DEF DeleteStaleManifest, ObjectStep, Removed, TypeInv, TypeOK

LEMMA CollectObjects ==
    ASSUME TypeInv, NEW w \in Work, \A v \in Work : v = w, SingleInv,
           NEW q \in Resource, GarbageCollect(q)
    PROVE  ObjectStep(w) /\ \A r \in Resource : res'[r] \in {res[r], NoObject}
<1>1. Exists(res[q])
  BY DEF GarbageCollect, LiveOwners, TypeInv, TypeOK, NoObject
<1>2. PICK o \in Owner, c \in Content : res[q] = Deployed(o, c)
  BY <1>1 DEF SingleInv
<1>3. res[q].owners = {o} /\ LiveOwners(res[q]) = {} /\ aw[o.work].uid # o.uid
  BY <1>2 DEF Deployed, GarbageCollect, LiveOwners
<1>4. ASSUME NEW d
      PROVE  res[q] # Deployed(Anchor(w), d)
  <2>1. o.work = w
    BY DEF Owner
  <2>2. {o} # {Anchor(w)}
    BY <1>3, <2>1 DEF Anchor
  <2> QED
    BY <1>3, <2>2 DEF Deployed
<1>5. UNCHANGED <<hub, status, pc, job, aw>>
  BY DEF GarbageCollect, hubVars
<1>6. res' = [res EXCEPT ![q] = NoObject]
  BY <1>3 DEF GarbageCollect
<1>7. ASSUME NEW r \in Resource, res'[r] # res[r]
      PROVE  r = q /\ res'[r] = NoObject
  BY <1>6, <1>7 DEF TypeInv, TypeOK
<1> QED
  BY <1>4, <1>5, <1>7 DEF ObjectStep, Collected

LEMMA NextObjects ==
    ASSUME TypeInv, NEW w \in Work, \A v \in Work : v = w, SingleInv, HandInv(w),
           [Next]_vars, ~Tamper
    PROVE  ObjectStep(w)
<1>1. CASE UNCHANGED res
  BY <1>1 DEF ObjectStep
<1>2. ASSUME NEW reply \in Reply, Step(w, reply)
      PROVE  ObjectStep(w)
  <2>1. CASE ReleaseStaleManifest(w, reply)
    BY <2>1 DEF ReleaseStaleManifest, HandInv
  <2>2. CASE \/ GetAppliedWork(w, reply) \/ CreateAppliedWork(w, reply)
             \/ AddFinalizer(w, reply) \/ UpdateWorkStatus(w, reply)
             \/ \E r \in Resource : \/ GetManifest(w, r, reply)
                                    \/ GetNewManifest(w, r, reply)
                                    \/ GetStaleManifest(w, r, reply)
             \/ UpdateAppliedWork(w, reply) \/ DeleteAppliedWork(w, reply)
             \/ RemoveFinalizer(w, reply)
    <3>1. UNCHANGED res
      BY <2>2 DEF spokeVars, GetAppliedWork, CreateAppliedWork, AddFinalizer, GetManifest,
                  UpdateWorkStatus, GetNewManifest, GetStaleManifest, UpdateAppliedWork,
                  DeleteAppliedWork, RemoveFinalizer
    <3> QED
      BY <1>1, <3>1
  <2> QED
    BY <1>2, <2>1, <2>2, CreateObjects, PatchObjects, DeleteObjects DEF Step
<1>3. CASE Reconcile(w) \/ AbandonSync(w) \/ CacheSync(w) \/ User(w) \/ Restart
           \/ UNCHANGED vars
  <2>1. UNCHANGED res
    BY <1>3 DEF Reconcile, AbandonSync, CacheSync, User, CreateWork, EditWork, DeleteWork,
                UserStores, Restart, spokeVars, vars
  <2> QED
    BY <1>1, <2>1
<1> QED
  BY <1>2, <1>3, CollectObjects DEF Next

LEMMA NextSingle ==
    ASSUME TypeInv, NEW w \in Work, SingleInv, ObjectStep(w)
    PROVE  SingleInv'
<1> SUFFICES ASSUME NEW r \in Resource, Exists(res'[r])
             PROVE  \E o \in Owner, c \in Content : res'[r] = Deployed(o, c)
  BY DEF SingleInv
<1>1. CASE res'[r] = res[r]
  BY <1>1 DEF SingleInv
<1>2. CASE Written(w, r)
  <2>1. job[w].at \in Manifests(job[w].snap.spec)
    BY <1>2 DEF Written, TypeInv, JobShape, Shape
  <2>2. Wanted(w) \in Content
    BY <2>1, JobNow DEF Wanted, Manifests, Job, WorkObject, Workload
  <2>3. Me(w) \in Owner
    BY <1>2, MeType DEF Written, TypeInv
  <2> QED
    BY <1>2, <2>2, <2>3 DEF Written
<1>3. res'[r] # NoObject
  BY DEF Exists, NoObject
<1> QED
  BY <1>1, <1>2, <1>3 DEF ObjectStep, Removed, Collected

LEMMA GetManifestHand ==
    ASSUME TypeInv, NEW w \in Work, NEW r \in Resource, NEW reply \in Reply,
           GetManifest(w, r, reply)
    PROVE  HandInv(w)'
<1> DEFINE read == [job[w] EXCEPT !.at = r, !.cur = res[r]]
<1>1. UNCHANGED res
  BY DEF GetManifest, spokeVars
<1>2. \/ Goto(w, "createObject", read) \/ Goto(w, "patch", read)
      \/ Goto(w, "apply", Applied(w, r)) \/ Goto(w, "apply", NotApplied(w, r))
  BY DEF GetManifest, ReadReply, Managed
<1>3. read.at = r /\ read.cur = res[r]
  BY JobNow DEF Job
<1> HIDE DEF read
<1> QED
  BY <1>1, <1>2, <1>3, GotoAt DEF HandInv

\* An object with a single owner is deleted when that owner gives it up.
LEMMA GetStaleManifestHand ==
    ASSUME TypeInv, NEW w \in Work, SingleInv, NEW r \in Resource, NEW reply \in Reply,
           GetStaleManifest(w, r, reply)
    PROVE  pc'[w] \in {"sync", "deleteObject"}
<1> DEFINE next == [job[w] EXCEPT !.stale = @ \ {r}]
           failed == [next EXCEPT !.failed = TRUE]
           read == [next EXCEPT !.at = r, !.cur = res[r]]
           others == RemainingOwners(res[r].owners, Me(w))
<1>1. \/ Goto(w, "sync", failed) \/ Goto(w, "sync", next)
      \/ Goto(w, "deleteObject", read)
      \/ others # {}
  BY DEF GetStaleManifest, ReadReply
<1>2. res[r].owners = {} \/ \E o : res[r].owners = {o}
  <2>1. CASE Exists(res[r])
    <3>1. PICK o \in Owner, c \in Content : res[r] = Deployed(o, c)
      BY <2>1 DEF SingleInv
    <3> QED
      BY <3>1 DEF Deployed
  <2>2. CASE ~Exists(res[r])
    BY <2>2 DEF TypeInv, TypeOK, NoObject
  <2> QED
    BY <2>1, <2>2
<1>3. others = {}
  BY <1>2 DEF RemainingOwners, SameOwner
<1> HIDE DEF next, failed, read, others
<1> QED
  BY <1>1, <1>3, GotoAt

LEMMA NextHand ==
    ASSUME TypeInv, NEW w \in Work, \A v \in Work : v = w, SingleInv, HandInv(w),
           [Next]_vars, ~Tamper
    PROVE  HandInv(w)'
<1>1. ASSUME pc'[w] \notin {"patch", "release"}
      PROVE  HandInv(w)'
  BY <1>1 DEF HandInv
<1>2. ASSUME pc'[w] = pc[w], job'[w].at = job[w].at, job'[w].cur = job[w].cur, UNCHANGED res
      PROVE  HandInv(w)'
  BY <1>2 DEF HandInv
<1>3. ASSUME NEW reply \in Reply, Step(w, reply)
      PROVE  HandInv(w)'
  <2>1. CASE GetAppliedWork(w, reply) \/ CreateAppliedWork(w, reply) \/ AddFinalizer(w, reply)
    BY <1>1, <2>1, EnsureLocal DEF EnsureMoves, Ends
  <2>2. CASE CreateManifest(w, reply) \/ PatchManifest(w, reply)
    BY <1>1, <2>2, GotoAt DEF CreateManifest, PatchManifest
  <2>3. CASE UpdateWorkStatus(w, reply)
    BY <1>1, <2>3, UpdateWorkStatusLocal DEF SweepMoves, Ends, UpdateWorkStatus
  <2>4. CASE \E r \in Resource : GetNewManifest(w, r, reply)
    BY <1>1, <2>4, GotoAt, ReturnAt DEF GetNewManifest, ReadReply
  <2>5. CASE DeleteStaleManifest(w, reply) \/ ReleaseStaleManifest(w, reply)
    BY <1>1, <2>5, GotoAt DEF DeleteStaleManifest, ReleaseStaleManifest
  <2>6. CASE \/ UpdateAppliedWork(w, reply) \/ DeleteAppliedWork(w, reply)
             \/ RemoveFinalizer(w, reply)
    BY <1>1, <2>6, LastLocal DEF CollectMoves, Ends
  <2> QED
    BY <1>1, <1>3, <2>1, <2>2, <2>3, <2>4, <2>5, <2>6, GetManifestHand, GetStaleManifestHand
       DEF Step
<1>4. CASE Reconcile(w)
  <2>1. EntryPoint(cache[w]) \notin {"patch", "release"}
    BY DEF EntryPoint, TypeInv, TypeOK, WorkObject
  <2> QED
    BY <1>1, <1>4, <2>1 DEF Reconcile, TypeInv, TypeOK
<1>5. CASE AbandonSync(w)
  BY <1>1, <1>5, ReturnAt DEF AbandonSync
<1>6. CASE User(w)
  <2>1. job'[w] = [job[w] EXCEPT !.fresh = FALSE] /\ UNCHANGED <<pc, res>>
    BY <1>6 DEF User, CreateWork, EditWork, DeleteWork, UserStores, spokeVars,
                TypeInv, TypeOK
  <2>2. job'[w].at = job[w].at /\ job'[w].cur = job[w].cur
    BY <2>1, JobNow DEF Job
  <2> QED
    BY <1>2, <2>1, <2>2
<1>7. CASE CacheSync(w) \/ UNCHANGED vars
  BY <1>2, <1>7 DEF CacheSync, spokeVars, vars
<1>8. ASSUME NEW q \in Resource, GarbageCollect(q)
      PROVE  HandInv(w)'
  <2>1. UNCHANGED <<pc, job>> /\ \A r \in Resource : res'[r] \in {res[r], NoObject}
    BY <1>8, CollectObjects DEF GarbageCollect
  <2>2. pc[w] = "patch" => job[w].at \in Resource
    BY DEF TypeInv, JobShape, Shape, Manifests
  <2>3. ~Exists(NoObject)
    BY DEF Exists, NoObject
  <2> QED
    BY <2>1, <2>2, <2>3 DEF HandInv
<1>9. CASE Restart
  BY <1>1, <1>9 DEF Restart
<1> QED
  BY <1>3, <1>4, <1>5, <1>6, <1>7, <1>8, <1>9 DEF Next

-----------------------------------------------------------------------------
(* What a reconcile takes for applied, it has applied.                       *)

TriedInv(w) ==
    /\ pc[w] \in Ensuring => job[w].ok = {}
    /\ pc[w] \in Writing => \A r \in job[w].ok :
                                /\ job[w].uid # 0
                                /\ res[r] = Deployed(Me(w), job[w].snap.spec[r])

\* The resources a step of the reconcile adds to what it has applied.
Adds(w) == \A r \in job'[w].ok \ job[w].ok :
               /\ job[w].uid # 0
               /\ res'[r] = Deployed(Me(w), job[w].snap.spec[r])

LEMMA MeIsAnchor ==
    ASSUME Unspent, NEW w \in Work, Anchored(w), pc[w] \in Applying, job[w].uid # 0
    PROVE  Me(w) = Anchor(w) /\ aw[w].uid # 0
BY DEF Anchored, Keyed, Me, Anchor

LEMMA TriedStays ==
    ASSUME Unspent, TypeInv, NEW w \in Work, Anchored(w), TriedInv(w), ObjectStep(w),
           pc[w] \in Writing, NEW r \in job[w].ok
    PROVE  job[w].uid # 0 /\ res'[r] = Deployed(Me(w), job[w].snap.spec[r])
<1>1. job[w].uid # 0 /\ res[r] = Deployed(Me(w), job[w].snap.spec[r])
  BY DEF TriedInv
<1>2. Me(w) = Anchor(w)
  BY <1>1, MeIsAnchor DEF Writing, Applying
<1>3. ~Collected(w, r) /\ ~Removed(w, r)
  BY <1>1, <1>2 DEF Collected, Removed, Writing
<1>4. r \in Resource
  BY JobNow DEF Job
<1> QED
  BY <1>1, <1>3, <1>4 DEF ObjectStep, Written, Wanted

LEMMA VisitAdds ==
    ASSUME TypeInv, NEW w \in Work, NEW r \in Resource,
           \/ Goto(w, "apply", NotApplied(w, r))
           \/ /\ Goto(w, "apply", Applied(w, r))
              /\ job[w].uid # 0
              /\ res'[r] = Deployed(Me(w), job[w].snap.spec[r])
    PROVE  Adds(w)
<1>1. NotApplied(w, r).ok = job[w].ok /\ Applied(w, r).ok = job[w].ok \cup {r}
  BY JobNow DEF NotApplied, Applied, Job
<1> QED
  BY <1>1, GotoAt DEF Adds

LEMMA GetManifestAdds ==
    ASSUME TypeInv, NEW w \in Work, SingleInv, NEW r \in Resource, NEW reply \in Reply,
           GetManifest(w, r, reply)
    PROVE  Adds(w)
<1> DEFINE read == [job[w] EXCEPT !.at = r, !.cur = res[r]]
           hash == {<<Me(w), job[w].snap.spec[r]>>}
<1>1. \/ Goto(w, "createObject", read) \/ Goto(w, "patch", read)
      \/ Goto(w, "apply", NotApplied(w, r))
      \/ Goto(w, "apply", Applied(w, r)) /\ res[r].hash = hash /\ Managed(res[r])
  BY DEF GetManifest, ReadReply, Managed
<1>2. CASE Goto(w, "createObject", read) \/ Goto(w, "patch", read)
  <2>1. read.ok = job[w].ok
    BY JobNow DEF Job
  <2> HIDE DEF read
  <2> QED
    BY <1>2, <2>1, GotoAt DEF Adds
<1>3. CASE Goto(w, "apply", Applied(w, r)) /\ res[r].hash = hash /\ Managed(res[r])
  <2>1. Exists(res[r])
    BY <1>3 DEF Managed, TypeInv, TypeOK, NoObject
  <2>2. PICK o \in Owner, c \in Content : res[r] = Deployed(o, c)
    BY <2>1 DEF SingleInv
  <2>3. <<o, c>> = <<Me(w), job[w].snap.spec[r]>>
    <3>1. res[r].hash = {<<o, c>>}
      BY <2>2 DEF Deployed
    <3>2. {<<o, c>>} = hash
      BY <1>3, <3>1
    <3> QED
      BY <3>2
  <2>4. o = Me(w) /\ c = job[w].snap.spec[r] /\ job[w].uid # 0
    BY <2>3 DEF Owner, Me
  <2>5. res'[r] = Deployed(Me(w), job[w].snap.spec[r])
    BY <2>2, <2>4 DEF GetManifest, spokeVars
  <2> QED
    BY <1>3, <2>4, <2>5, VisitAdds
<1> QED
  BY <1>1, <1>2, <1>3, VisitAdds

LEMMA WriteAdds ==
    ASSUME TypeInv, NEW w \in Work, \A v \in Work : v = w, SingleInv, HandInv(w),
           NEW reply \in Reply,
           \/ \E r \in Resource : GetManifest(w, r, reply)
           \/ CreateManifest(w, reply)
           \/ PatchManifest(w, reply)
    PROVE  Adds(w)
<1>1. CASE CreateManifest(w, reply) \/ PatchManifest(w, reply)
  <2>1. Attempt(w)
    BY <1>1, CreateObjects, PatchObjects
  <2>2. \/ Goto(w, "apply", Applied(w, job[w].at))
        \/ Goto(w, "apply", NotApplied(w, job[w].at))
    BY <1>1 DEF CreateManifest, PatchManifest
  <2>3. job[w].at \in Resource
    BY <1>1 DEF CreateManifest, PatchManifest, TypeInv, JobShape, Shape, Manifests
  <2> QED
    BY <2>1, <2>2, <2>3, VisitAdds DEF Attempt, Written, Wanted
<1> QED
  BY <1>1, GetManifestAdds

LEMMA NextTried ==
    ASSUME Unspent, TypeInv, NEW w \in Work, \A v \in Work : v = w, Anchored(w),
           SingleInv, HandInv(w), TriedInv(w), [Next]_vars, ~Tamper
    PROVE  TriedInv(w)'
<1>1. ObjectStep(w)
  BY NextObjects
<1>2. ASSUME pc'[w] \notin Ensuring \cup Writing
      PROVE  TriedInv(w)'
  BY <1>2 DEF TriedInv
<1>3. ASSUME pc'[w] = pc[w], job'[w].uid = job[w].uid, job'[w].ok = job[w].ok,
             job'[w].snap.spec = job[w].snap.spec
      PROVE  TriedInv(w)'
  <2>1. Me(w)' = Me(w)
    BY <1>3 DEF Me
  <2> QED
    BY <1>1, <1>3, <2>1, TriedStays DEF TriedInv
<1>4. Ends(w) => pc'[w] \notin Ensuring \cup Writing
  BY DEF Ends, Ensuring, Writing
<1>5. ASSUME NEW reply \in Reply, Step(w, reply)
      PROVE  TriedInv(w)'
  <2>1. CASE GetAppliedWork(w, reply) \/ CreateAppliedWork(w, reply) \/ AddFinalizer(w, reply)
    BY <1>2, <1>4, <2>1, EnsureLocal DEF EnsureMoves, TriedInv
  <2>2. CASE \/ \E r \in Resource : GetManifest(w, r, reply)
             \/ CreateManifest(w, reply) \/ PatchManifest(w, reply)
    <3>1. WriteMoves(w) /\ Adds(w)
      BY <2>2, WriteLocal, WriteAdds
    <3>2. Me(w)' = Me(w)
      BY <3>1 DEF WriteMoves, SameAnchor, Me
    <3>3. ASSUME NEW r \in job'[w].ok
          PROVE  /\ job'[w].uid # 0
                 /\ res'[r] = Deployed(Me(w)', job'[w].snap.spec[r])
      <4>1. job[w].uid # 0 /\ res'[r] = Deployed(Me(w), job[w].snap.spec[r])
        BY <1>1, <3>1, TriedStays DEF WriteMoves, Adds
      <4> QED
        BY <3>1, <3>2, <4>1 DEF WriteMoves, GoesOn, SameAnchor
    <3>4. pc'[w] \notin Ensuring
      BY <3>1 DEF WriteMoves, Writing, Ensuring
    <3> QED
      BY <3>3, <3>4 DEF TriedInv
  <2>3. CASE UpdateWorkStatus(w, reply)
    BY <1>2, <1>4, <2>3, UpdateWorkStatusLocal DEF SweepMoves, Sweeping, Ensuring, Writing
  <2>4. CASE \/ \E r \in Resource : \/ GetNewManifest(w, r, reply)
                                    \/ GetStaleManifest(w, r, reply)
             \/ DeleteStaleManifest(w, reply) \/ ReleaseStaleManifest(w, reply)
    BY <1>2, <1>4, <2>4, SweepLocal DEF SweepMoves, Sweeping, Ensuring, Writing
  <2>5. CASE \/ UpdateAppliedWork(w, reply) \/ DeleteAppliedWork(w, reply)
             \/ RemoveFinalizer(w, reply)
    BY <1>2, <1>4, <2>5, LastLocal DEF CollectMoves, Ensuring, Writing
  <2> QED
    BY <1>5, <2>1, <2>2, <2>3, <2>4, <2>5 DEF Step
<1>6. CASE Reconcile(w)
  <2>1. pc'[w] = EntryPoint(cache[w]) /\ (pc'[w] # "idle" => job'[w].ok = {})
    BY <1>6 DEF Reconcile, TypeInv, TypeOK, NoJob
  <2>2. EntryPoint(cache[w]) \notin Writing
    BY DEF EntryPoint, TypeInv, TypeOK, WorkObject, Writing
  <2> QED
    BY <2>1, <2>2 DEF TriedInv, Ensuring
<1>7. CASE AbandonSync(w) \/ Restart
  <2>1. pc'[w] = "idle"
    BY <1>7, ReturnAt DEF AbandonSync, Restart
  <2> QED
    BY <1>2, <2>1 DEF Ensuring, Writing
<1>8. CASE User(w)
  <2>1. job'[w] = [job[w] EXCEPT !.fresh = FALSE] /\ UNCHANGED pc
    BY <1>8 DEF User, CreateWork, EditWork, DeleteWork, UserStores, TypeInv, TypeOK
  <2>2. /\ job'[w].uid = job[w].uid /\ job'[w].ok = job[w].ok
        /\ job'[w].snap = job[w].snap
    BY <2>1, JobNow DEF Job
  <2> QED
    BY <1>3, <2>1, <2>2
<1>9. CASE CacheSync(w) \/ (\E r \in Resource : GarbageCollect(r)) \/ UNCHANGED vars
  BY <1>3, <1>9 DEF CacheSync, GarbageCollect, vars
<1> QED
  BY <1>5, <1>6, <1>7, <1>8, <1>9 DEF Next

-----------------------------------------------------------------------------
(* What the status of the Work says of its objects.                         *)

Told(w) == hub[w].phase = "live" /\ status[w].observed /\ status[w].applied
ToldInv(w) == Told(w) => \A r \in Manifests(hub[w].spec) :
                            /\ aw[w].uid # 0
                            /\ res[r] = Deployed(Anchor(w), hub[w].spec[r])

AnchorStep(w) == aw[w].uid # 0 => aw'[w].uid = aw[w].uid \/ pc[w] = "collect"

LEMMA NextAnchor ==
    ASSUME TypeInv, NEW w \in Work, \A v \in Work : v = w, [Next]_vars, ~Tamper
    PROVE  AnchorStep(w)
<1>1. ASSUME NEW reply \in Reply, Step(w, reply)
      PROVE  AnchorStep(w)
  <2>1. CASE CreateAppliedWork(w, reply)
    BY <2>1 DEF CreateAppliedWork, AnchorStep
  <2>2. CASE UpdateAppliedWork(w, reply)
    <3>1. UNCHANGED aw \/ aw' = [aw EXCEPT ![w].recorded = job[w].keep]
      BY <2>2 DEF UpdateAppliedWork
    <3>2. aw'[w].uid = aw[w].uid
      BY <3>1, JobNow DEF TypeInv, TypeOK, AppliedWork
    <3> QED
      BY <3>2 DEF AnchorStep
  <2>3. CASE DeleteAppliedWork(w, reply)
    BY <2>3 DEF DeleteAppliedWork, AnchorStep
  <2> QED
    BY <1>1, <2>1, <2>2, <2>3
       DEF Step, AnchorStep, spokeVars, GetAppliedWork, AddFinalizer, GetManifest,
           CreateManifest, PatchManifest, UpdateWorkStatus, GetNewManifest,
           GetStaleManifest, DeleteStaleManifest, ReleaseStaleManifest, RemoveFinalizer
<1>2. CASE \/ Reconcile(w) \/ AbandonSync(w) \/ CacheSync(w) \/ User(w)
           \/ \E r \in Resource : GarbageCollect(r)
           \/ Restart \/ UNCHANGED vars
  <2>1. UNCHANGED aw
    BY <1>2 DEF Reconcile, AbandonSync, CacheSync, User, CreateWork, EditWork, DeleteWork,
                UserStores, GarbageCollect, Restart, spokeVars, vars
  <2> QED
    BY <2>1 DEF AnchorStep
<1> QED
  BY <1>1, <1>2 DEF Next

\* Nothing that happens to an object makes a status false that was true.
LEMMA ToldStays ==
    ASSUME Unspent, TypeInv, FinalizerInv, NEW w \in Work, CopyInv(w), Anchored(w),
           ToldInv(w), Told(w), ObjectStep(w), AnchorStep(w), NEW r \in Manifests(hub[w].spec)
    PROVE  /\ aw'[w].uid = aw[w].uid /\ aw[w].uid # 0
           /\ res'[r] = Deployed(Anchor(w), hub[w].spec[r])
<1>1. aw[w].uid # 0 /\ res[r] = Deployed(Anchor(w), hub[w].spec[r])
  BY DEF ToldInv
<1>2. hub[w].fin /\ (pc[w] # "idle" => job[w].snap.spec = hub[w].spec)
  BY DEF CopyInv, Told
<1>3. aw'[w].uid = aw[w].uid
  BY <1>1, <1>2, ReliesNow DEF AnchorStep, Told, Relies, Collecting, Kept
<1>4. r \in Resource /\ Exists(res[r])
  BY <1>1 DEF Manifests, Deployed, Exists
<1>5. CASE Written(w, r)
  <2>1. pc[w] = "patch"
    BY <1>4, <1>5 DEF Written
  <2>2. Me(w) = Anchor(w)
    BY <1>5, <2>1, MeIsAnchor DEF Written, Applying
  <2> QED
    BY <1>1, <1>2, <1>3, <1>5, <2>1, <2>2 DEF Written, Wanted
<1>6. ~Removed(w, r)
  BY <1>2 DEF Removed, CopyInv
<1>7. ~Collected(w, r)
  BY <1>1 DEF Collected
<1> QED
  BY <1>1, <1>3, <1>4, <1>5, <1>6, <1>7 DEF ObjectStep

LEMMA UpdateWorkStatusTold ==
    ASSUME Unspent, TypeInv, NEW w \in Work, Anchored(w), TriedInv(w),
           NEW reply \in Reply, UpdateWorkStatus(w, reply), StatusSet(w)
    PROVE  ToldInv(w)'
<1> SUFFICES ASSUME status'[w].applied, NEW r \in Manifests(hub'[w].spec)
             PROVE  /\ aw'[w].uid # 0
                    /\ res'[r] = Deployed([work |-> w, uid |-> aw'[w].uid], hub'[w].spec[r])
  BY DEF ToldInv, Told, Anchor
<1>1. hub'[w].spec = job[w].snap.spec /\ job[w].ok = Manifests(job[w].snap.spec)
  BY DEF StatusSet, HubKept
<1>2. job[w].uid # 0 /\ res[r] = Deployed(Me(w), job[w].snap.spec[r])
  BY <1>1 DEF StatusSet, TriedInv, Writing
<1>3. Me(w) = Anchor(w) /\ aw[w].uid # 0
  BY <1>2, MeIsAnchor DEF StatusSet, Applying
<1>4. UNCHANGED <<aw, res>>
  BY DEF UpdateWorkStatus, spokeVars
<1> QED
  BY <1>1, <1>2, <1>3, <1>4 DEF Anchor

LEMMA NextTold ==
    ASSUME Unspent, TypeInv, FinalizerInv, NEW w \in Work, \A v \in Work : v = w,
           CopyInv(w), Anchored(w), SingleInv, HandInv(w), TriedInv(w), ToldInv(w),
           [Next]_vars, ~Tamper
    PROVE  ToldInv(w)'
<1>1. ObjectStep(w) /\ AnchorStep(w)
  BY NextObjects, NextAnchor
<1>2. ASSUME hub'[w].phase = hub[w].phase, hub'[w].spec = hub[w].spec, status'[w] = status[w]
      PROVE  ToldInv(w)'
  <2> SUFFICES ASSUME Told(w), NEW r \in Manifests(hub[w].spec)
               PROVE  /\ aw'[w].uid # 0
                      /\ res'[r] = Deployed([work |-> w, uid |-> aw'[w].uid], hub[w].spec[r])
    BY <1>2 DEF ToldInv, Told, Anchor
  <2> QED
    BY <1>1, ToldStays DEF Anchor
<1>3. ASSUME NEW reply \in Reply, Step(w, reply)
      PROVE  ToldInv(w)'
  <2>1. StepWrites(w)
    BY <1>3, StepHub
  <2>2. CASE WorkGone(w)
    BY <2>2 DEF WorkGone, NoWork, ToldInv, Told
  <2>3. CASE StatusSet(w)
    <3>1. CASE UpdateWorkStatus(w, reply)
      BY <2>3, <3>1, UpdateWorkStatusTold
    <3>2. CASE \E r \in Resource : GetManifest(w, r, reply)
      BY <1>2, <3>2 DEF GetManifest, hubVars
    <3> QED
      BY <1>3, <2>3, <3>1, <3>2
         DEF StatusSet, Step, GetAppliedWork, CreateAppliedWork, AddFinalizer, CreateManifest,
             PatchManifest, GetNewManifest, GetStaleManifest, DeleteStaleManifest,
             ReleaseStaleManifest, UpdateAppliedWork, DeleteAppliedWork, RemoveFinalizer
  <2> QED
    BY <1>2, <2>1, <2>2, <2>3 DEF StepWrites, HubKept
<1>4. CASE User(w)
  BY <1>4, UserEdits DEF Edited, ToldInv, Told
<1>5. CASE \/ Reconcile(w) \/ AbandonSync(w) \/ CacheSync(w)
           \/ \E r \in Resource : GarbageCollect(r)
           \/ Restart \/ UNCHANGED vars
  <2>1. UNCHANGED <<hub, status>>
    BY <1>5 DEF Reconcile, AbandonSync, CacheSync, GarbageCollect, Restart, hubVars, vars
  <2> QED
    BY <1>2, <2>1
<1> QED
  BY <1>3, <1>4, <1>5 DEF Next

-----------------------------------------------------------------------------
(* All of it together.                                                      *)

ObjectsInv(w) ==
    Unspent => SingleInv /\ HandInv(w) /\ TriedInv(w) /\ ToldInv(w)
TruthInv(w) == BudgetInv /\ CopyInv(w) /\ Anchored(w) /\ ObjectsInv(w)

LEMMA InitTruthInv ==
    ASSUME Init, NEW w \in Work
    PROVE  TruthInv(w)
<1>1. BudgetInv /\ CopyInv(w) /\ Anchored(w)
  BY DEF Init, BudgetInv, CopyInv, Anchored, Keyed, NoStatus, NoJob, Sweeping, Applying, Disturbance
<1>2. ObjectsInv(w)
  BY DEF Init, ObjectsInv, SingleInv, HandInv, TriedInv, ToldInv, Told, NoObject, NoWork,
         Exists, Ensuring, Writing
<1> QED
  BY <1>1, <1>2 DEF TruthInv

LEMMA NextTruthInv ==
    ASSUME TypeInv, FinalizerInv, NEW w \in Work, \A v \in Work : v = w,
           TruthInv(w), [Next]_vars
    PROVE  TruthInv(w)'
<1>1. BudgetInv' /\ CopyInv(w)' /\ Anchored(w)'
  BY NextBudget, NextCopyInv, NextAnchored DEF TruthInv
<1>2. ASSUME Unspent'
      PROVE  (SingleInv /\ HandInv(w) /\ TriedInv(w) /\ ToldInv(w))'
  <2>1. Unspent /\ ~Tamper
    BY <1>2, NextBudget DEF TruthInv
  <2>2. /\ CopyInv(w) /\ Anchored(w)
        /\ SingleInv /\ HandInv(w) /\ TriedInv(w) /\ ToldInv(w)
    BY <2>1 DEF TruthInv, ObjectsInv
  <2> QED
    BY <2>1, <2>2, NextObjects, NextSingle, NextHand, NextTried, NextTold
<1> QED
  BY <1>1, <1>2 DEF TruthInv, ObjectsInv

\* Where there is a single Work, its status never says Applied of a manifest
\* that is not on the spoke as the Work has it, owned by its AppliedWork, until
\* a third party has acted: whatever calls fail or are lost, whenever the Work
\* is edited or deleted and made anew, and wherever the process is restarted.
THEOREM AppliedMeansDelivered ==
    ASSUME \A v, w \in Work : v = w
    PROVE  SafeSpec => []AppliedIsTrue
<1> DEFINE Inv == \A w \in Work : TruthInv(w)
<1>1. Init => Inv
  BY InitTruthInv
<1>2. TypeInv /\ FinalizerInv /\ Inv /\ [Next]_vars => Inv'
  BY NextTruthInv
<1>3. Inv => AppliedIsTrue
  <2> SUFFICES ASSUME NEW w \in Work, TruthInv(w), Told(w), Unspent,
                      NEW r \in Manifests(hub[w].spec)
               PROVE  Delivered(w, r)
    BY DEF AppliedIsTrue, Told, Unspent
  <2>1. res[r] = Deployed(Anchor(w), hub[w].spec[r])
    BY DEF TruthInv, ObjectsInv, ToldInv
  <2> QED
    BY <2>1 DEF Delivered, Deployed, Anchor
<1> HIDE DEF Inv
<1> QED
  BY <1>1, <1>2, <1>3, OwnedInvariant, PTL DEF SafeSpec
=============================================================================
