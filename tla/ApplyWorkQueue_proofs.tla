----------------------- MODULE ApplyWorkQueue_proofs -----------------------
(***************************************************************************)
(* No Work is forgotten by the work queue, provided that the lookup of a   *)
(* newly applied resource never fails: generateDiff's error is the one that*)
(* Reconcile does not return.                                              *)
(***************************************************************************)
EXTENDS ApplyWorkFinalizer_proofs

USE BuiltInAssumption, AbsentAssumption, MaxConcurrentAssumption, BudgetAssumption

Remembered(w) == hub[w].phase # "absent" => w \in queue \/ pc[w] # "idle" \/ watch[w] = "event"

\* A key is dropped for good only by a reconcile that found nothing to do: the
\* cache has no Work, and if the hub has one its creation is still to come.
QueueInv ==
    \A w \in Work :
        /\ Remembered(w)
        /\ hub[w].phase = "deleting" => hub[w].fin
        /\ cache[w].phase = "deleting" => cache[w].fin
        /\ cache[w].phase = "absent" /\ hub[w].phase # "absent" => watch[w] = "event"

\* The steps of w that leave hub, cache and watch alone keep the key if they
\* do not end the reconcile, or put it back.
LEMMA KeyKept ==
    ASSUME TypeInv, QueueInv, UNCHANGED <<hub, cache, watch>>, NEW w \in Work,
           \/ \E label \in PC \ {"idle"} : \E j : Goto(w, label, j)
           \/ Return(w, TRUE)
    PROVE  QueueInv'
<1>1. \A v \in Work \ {w} : pc'[v] = pc[v] /\ (v \in queue => v \in queue')
  BY DEF Goto, Return, TypeInv, TypeOK
<1>2. pc'[w] # "idle" \/ w \in queue'
  BY DEF Goto, Return, TypeInv, TypeOK
<1> QED
  BY <1>1, <1>2 DEF QueueInv, Remembered

\* A write to the hub that neither creates, marks nor removes the Work.
LEMMA KeyKeptByWrite ==
    ASSUME TypeInv, QueueInv, UNCHANGED cache, NEW w \in Work, NEW x,
           HubStores(w, x, FALSE), x.phase = hub[w].phase, hub[w].fin => x.fin,
           \/ \E label \in PC \ {"idle"} : \E j : Goto(w, label, j)
           \/ Return(w, TRUE)
    PROVE  QueueInv'
<1>1. \A v \in Work \ {w} : /\ pc'[v] = pc[v] /\ (v \in queue => v \in queue')
                            /\ hub'[v] = hub[v] /\ watch'[v] = watch[v]
  BY DEF Goto, Return, HubStores, TypeInv, TypeOK
<1>2. pc'[w] # "idle" \/ w \in queue'
  BY DEF Goto, Return, TypeInv, TypeOK
<1>3. hub'[w] = x /\ (watch[w] = "event" => watch'[w] = "event")
  BY DEF HubStores, TypeInv, TypeOK
<1> QED
  BY <1>1, <1>2, <1>3 DEF QueueInv, Remembered

\* A user's write sends an event.
LEMMA KeyKeptByUser ==
    ASSUME TypeInv, QueueInv, NEW w \in Work, NEW x, UserStores(w, x),
           x.phase = "deleting" => x.fin
    PROVE  QueueInv'
<1>1. \A v \in Work \ {w} : hub'[v] = hub[v] /\ watch'[v] = watch[v]
  BY DEF UserStores, HubStores, TypeInv, TypeOK
<1>2. hub'[w] = x /\ watch'[w] = "event" /\ UNCHANGED <<cache, queue, pc>>
  BY DEF UserStores, HubStores, TypeInv, TypeOK
<1> QED
  BY <1>1, <1>2 DEF QueueInv, Remembered

LEMMA StepQueueInv ==
    ASSUME "getNewManifest" \notin FaultyCalls,
           TypeInv, FinalizerInv, QueueInv, NEW w \in Work, NEW reply \in Reply, Step(w, reply)
    PROVE  QueueInv'
<1>1. CASE \/ GetAppliedWork(w, reply) \/ CreateAppliedWork(w, reply)
           \/ DeleteAppliedWork(w, reply)
  <2>1. UNCHANGED <<hub, cache, watch>>
    BY <1>1 DEF GetAppliedWork, CreateAppliedWork, DeleteAppliedWork, hubVars
  <2>2. job[w].snap.fin \in BOOLEAN
    BY DEF TypeInv, TypeOK, Job, WorkObject
  <2>3. \/ Return(w, TRUE)
        \/ \E label \in {"create", "apply", "finalize", "unfinalize"} : \E j : Goto(w, label, j)
    BY <1>1, <2>2 DEF GetAppliedWork, CreateAppliedWork, DeleteAppliedWork, StartApply,
                      ReadReply
  <2> QED
    BY <2>1, <2>3, KeyKept DEF PC
<1>2. CASE AddFinalizer(w, reply)
  <2> DEFINE work == [job[w].snap EXCEPT !.fin = TRUE]
  <2>1. work.phase = job[w].snap.phase /\ work.fin
    BY ReliesNow DEF Job, WorkObject
  <2>2. UNCHANGED cache
    BY <1>2 DEF AddFinalizer
  <2>3. CASE Accepted(w, reply)
    <3>1. hub[w] = job[w].snap
      BY <2>3 DEF Accepted, FinalizerInv, CopiesInv
    <3>2. /\ HubStores(w, work, FALSE)
          /\ Return(w, TRUE) \/ \E j : Goto(w, "apply", j)
      BY <1>2, <2>3 DEF AddFinalizer
    <3> HIDE DEF work
    <3>3. "apply" \in PC \ {"idle"}
      BY DEF PC
    <3> QED
      BY <2>1, <2>2, <3>1, <3>2, <3>3, KeyKeptByWrite
  <2>4. CASE ~Accepted(w, reply)
    BY <1>2, <2>2, <2>4, KeyKept DEF AddFinalizer
  <2> QED
    BY <2>3, <2>4
<1>3. CASE \/ \E r \in Resource : GetManifest(w, r, reply)
           \/ CreateManifest(w, reply) \/ PatchManifest(w, reply)
  <2>1. UNCHANGED <<hub, cache, watch>>
    BY <1>3 DEF GetManifest, CreateManifest, PatchManifest, hubVars
  <2>2. \E label \in {"apply", "createObject", "patch"} : \E j : Goto(w, label, j)
    BY <1>3 DEF GetManifest, CreateManifest, PatchManifest, ReadReply, Managed
  <2> QED
    BY <2>1, <2>2, KeyKept DEF PC
<1>4. CASE UpdateWorkStatus(w, reply)
  <2>1. UNCHANGED cache
    BY <1>4 DEF UpdateWorkStatus
  <2>2. CASE Accepted(w, reply)
    <3>1. hub[w] = job[w].snap
      BY <2>2 DEF Accepted, FinalizerInv, CopiesInv
    <3>2. /\ HubStores(w, job[w].snap, FALSE)
          /\ Return(w, TRUE) \/ \E j : Goto(w, "sync", j)
      BY <1>4, <2>2 DEF UpdateWorkStatus
    <3>3. "sync" \in PC \ {"idle"}
      BY DEF PC
    <3> QED
      BY <2>1, <3>1, <3>2, <3>3, KeyKeptByWrite
  <2>3. CASE ~Accepted(w, reply)
    BY <1>4, <2>1, <2>3, KeyKept DEF UpdateWorkStatus
  <2> QED
    BY <2>2, <2>3
<1>5. ASSUME NEW r \in Resource, GetNewManifest(w, r, reply)
      PROVE  QueueInv'
  <2>1. UNCHANGED <<hub, cache, watch>> /\ reply = "answer"
    BY <1>5 DEF GetNewManifest, Call, hubVars
  <2>2. \E j : Goto(w, "sync", j)
    BY <1>5, <2>1 DEF GetNewManifest
  <2> QED
    BY <2>1, <2>2, KeyKept DEF PC
<1>6. ASSUME NEW r \in Resource, GetStaleManifest(w, r, reply)
      PROVE  QueueInv'
  <2>1. UNCHANGED <<hub, cache, watch>>
    BY <1>6 DEF GetStaleManifest, hubVars
  <2>2. \E label \in {"sync", "deleteObject", "release"} : \E j : Goto(w, label, j)
    BY <1>6 DEF GetStaleManifest, ReadReply
  <2> QED
    BY <2>1, <2>2, KeyKept DEF PC
<1>7. CASE \/ DeleteStaleManifest(w, reply) \/ ReleaseStaleManifest(w, reply)
           \/ UpdateAppliedWork(w, reply)
  <2>1. UNCHANGED <<hub, cache, watch>>
    BY <1>7 DEF DeleteStaleManifest, ReleaseStaleManifest, UpdateAppliedWork, hubVars
  <2>2. Return(w, TRUE) \/ \E j : Goto(w, "sync", j)
    BY <1>7 DEF DeleteStaleManifest, ReleaseStaleManifest, UpdateAppliedWork, Resync
  <2> QED
    BY <2>1, <2>2, KeyKept DEF PC
<1>8. CASE RemoveFinalizer(w, reply)
  <2>1. CASE Accepted(w, reply)
    <3>1. \A v \in Work \ {w} : /\ pc'[v] = pc[v] /\ (v \in queue => v \in queue')
                                /\ hub'[v] = hub[v] /\ watch'[v] = watch[v]
      BY <1>8, <2>1 DEF RemoveFinalizer, Return, HubStores, TypeInv, TypeOK
    <3>2. hub'[w].phase = "absent" /\ UNCHANGED cache
      BY <1>8, <2>1 DEF RemoveFinalizer, HubStores, NoWork, TypeInv, TypeOK
    <3> QED
      BY <3>1, <3>2 DEF QueueInv, Remembered
  <2>2. CASE ~Accepted(w, reply)
    BY <1>8, <2>2, KeyKept DEF RemoveFinalizer
  <2> QED
    BY <2>1, <2>2
<1> QED
  BY <1>1, <1>2, <1>3, <1>4, <1>5, <1>6, <1>7, <1>8 DEF Step

LEMMA NextQueueInv ==
    ASSUME "getNewManifest" \notin FaultyCalls
    PROVE  TypeInv /\ FinalizerInv /\ QueueInv /\ [Next]_vars => QueueInv'
<1> SUFFICES ASSUME TypeInv, FinalizerInv, QueueInv, [Next]_vars PROVE QueueInv'
  OBVIOUS
<1>1. ASSUME UNCHANGED <<hub, cache, watch, queue, pc>>
      PROVE  QueueInv'
  BY <1>1 DEF QueueInv, Remembered
<1>2. ASSUME NEW w \in Work, Reconcile(w)
      PROVE  QueueInv'
  <2>1. /\ UNCHANGED <<hub, cache, watch>>
        /\ \A v \in Work \ {w} : pc'[v] = pc[v] /\ (v \in queue => v \in queue')
        /\ pc'[w] = EntryPoint(cache[w])
    BY <1>2 DEF Reconcile, hubVars, TypeInv, TypeOK
  <2>2. pc'[w] = "idle" => cache[w].phase = "absent"
    BY <2>1 DEF EntryPoint, QueueInv, TypeInv, TypeOK, WorkObject
  <2> QED
    BY <2>1, <2>2 DEF QueueInv, Remembered
<1>3. ASSUME NEW w \in Work, AbandonSync(w)
      PROVE  QueueInv'
  BY <1>3, KeyKept DEF AbandonSync, hubVars
<1>4. ASSUME NEW w \in Work, CacheSync(w)
      PROVE  QueueInv'
  <2>1. /\ UNCHANGED <<hub, pc>>
        /\ \A v \in Work \ {w} : /\ cache'[v] = cache[v] /\ watch'[v] = watch[v]
                                 /\ v \in queue => v \in queue'
        /\ cache'[w] = hub[w]
        /\ w \in queue \/ watch[w] = "event" => w \in queue'
    BY <1>4 DEF CacheSync, hubVars, TypeInv, TypeOK
  <2> QED
    BY <2>1 DEF QueueInv, Remembered
<1>5. ASSUME NEW w \in Work, User(w)
      PROVE  QueueInv'
  <2>1. hub[w] \in WorkObject
    BY DEF TypeInv, TypeOK
  <2>2. CASE CreateWork(w)
    BY <2>2, KeyKeptByUser DEF CreateWork
  <2>3. CASE EditWork(w)
    <3>1. PICK spec \in Workload : UserStores(w, [hub[w] EXCEPT !.spec = spec])
      BY <2>3 DEF EditWork
    <3> DEFINE x == [hub[w] EXCEPT !.spec = spec]
    <3>2. x.fin = hub[w].fin /\ x.phase = hub[w].phase
      BY <2>1 DEF WorkObject
    <3>3. UserStores(w, x)
      BY <3>1
    <3> HIDE DEF x
    <3> QED
      BY <3>2, <3>3, KeyKeptByUser DEF QueueInv
  <2>4. CASE DeleteWork(w)
    <3> DEFINE x == [hub[w] EXCEPT !.phase = "deleting"]
    <3>1. x.fin = hub[w].fin /\ NoWork.phase = "absent"
      BY <2>1 DEF WorkObject, NoWork
    <3>2. (hub[w].fin /\ UserStores(w, x)) \/ UserStores(w, NoWork)
      BY <2>4 DEF DeleteWork
    <3> HIDE DEF x
    <3> QED
      BY <3>1, <3>2, KeyKeptByUser
  <2> QED
    BY <1>5, <2>2, <2>3, <2>4 DEF User
<1>6. CASE Restart
  <2>1. UNCHANGED hub /\ cache' = hub /\ queue' = {w \in Work : hub[w].phase # "absent"}
    BY <1>6 DEF Restart, hubVars
  <2> QED
    BY <2>1 DEF QueueInv, Remembered
<1>7. CASE Tamper \/ (\E r \in Resource : GarbageCollect(r)) \/ UNCHANGED vars
  BY <1>1, <1>7 DEF Tamper, TamperDeleteObject, TamperEditObject, TamperCreateObject,
                    TamperDeleteAppliedWork, ThirdParty, GarbageCollect, hubVars, vars
<1> QED
  BY <1>2, <1>3, <1>4, <1>5, <1>6, <1>7, StepQueueInv DEF Next

\* Whatever else fails, a Work that exists is queued, being reconciled or about
\* to be queued.
THEOREM NoWorkIsForgotten ==
    ASSUME "getNewManifest" \notin FaultyCalls
    PROVE  SafeSpec => []NeverForgotten
<1>1. Init => QueueInv
  BY DEF Init, QueueInv, Remembered, NoWork
<1>2. QueueInv => NeverForgotten
  BY DEF QueueInv, Remembered, NeverForgotten
<1> QED
  BY <1>1, <1>2, NextQueueInv, OwnedInvariant, PTL DEF SafeSpec
=============================================================================
