------------------------- MODULE Membership_proofs -------------------------
(***************************************************************************)
(* Join and Leave, for any numbers of Works, resources, workers, calls of  *)
(* Leave and disturbances.                                                 *)
(***************************************************************************)
EXTENDS Membership, ApplyWorkLifecycle_proofs

USE BuiltInAssumption, AbsentAssumption, MaxConcurrentAssumption, BudgetAssumption,
    MaxLeavesAssumption

-----------------------------------------------------------------------------
(* Types.                                                                  *)

MTypes == /\ TypeInv
          /\ joined \in BOOLEAN
          /\ later \subseteq Work
          /\ leaving \in Leaving
          /\ leaves \in 0..MaxLeaves

LEMMA NotLeavingType == NotLeaving \in Leaving
BY DEF NotLeaving, Leaving

LEMMA OutdateType ==
    ASSUME leaving \in Leaving, NEW w \in Work, Outdate(w)
    PROVE  leaving' \in Leaving
BY DEF Outdate, Leaving

\* Keys and budget do not bear on the rest of the types.
LEMMA QueueType ==
    ASSUME TypeInv, UNCHANGED <<hubVars, cache, watch, pc, job, spokeVars>>,
           queue' \subseteq Work, budget' \in [Disturbance -> Nat]
    PROVE  TypeInv'
BY DEF TypeInv, TypeOK, JobShape, Shape, hubVars, spokeVars, Exists

LEMMA LeaveWorkType ==
    ASSUME MTypes, NEW w \in Work, NEW reply \in Reply, LeaveWork(w, reply)
    PROVE  MTypes'
<1> DEFINE x == IF hub[w].phase = "live" THEN [hub[w] EXCEPT !.fin = FALSE] ELSE NoWork
           j == [job[w] EXCEPT !.fresh = FALSE]
<1>1. TypeInv /\ leaving \in Leaving /\ hub[w] \in WorkObject /\ job[w] \in Job
  BY DEF MTypes, TypeInv, TypeOK
<1>2. budget' \in [Disturbance -> Nat]
  BY <1>1, CallType DEF LeaveWork, TypeInv
<1>3. x \in WorkObject
  BY <1>1, NoWorkType DEF WorkObject
<1>4. j \in Job /\ j.todo = job[w].todo /\ j.snap = job[w].snap /\ j.at = job[w].at
  BY <1>1 DEF Job
<1>5. leaving' \in Leaving
  BY <1>1, NotLeavingType DEF LeaveWork, Leaving
<1>6. CASE UNCHANGED <<hubVars, watch, job>>
  <2>1. TypeInv'
    BY <1>1, <1>2, <1>6, QueueType DEF LeaveWork, TypeInv, TypeOK
  <2> QED
    BY <1>5, <2>1 DEF LeaveWork, MTypes
<1>7. CASE \E new \in BOOLEAN : /\ HubStores(w, x, new)
                                /\ status' \in {status, [status EXCEPT ![w] = NoStatus]}
                                /\ job' = [job EXCEPT ![w] = j]
  <2> HIDE DEF x, j
  <2>1. /\ hub' \in [Work -> WorkObject]
        /\ watch' \in [Work -> {"current", "behind", "event"}]
    BY <1>1, <1>3, <1>7, HubStoresType DEF TypeInv
  <2>2. status' \in [Work -> Status] /\ job' \in [Work -> Job]
    <3>1. NoStatus \in Status /\ status \in [Work -> Status] /\ job \in [Work -> Job]
      BY <1>1 DEF TypeInv, TypeOK, NoStatus, Status
    <3> QED
      BY <1>4, <1>7, <3>1
  <2>3. JobShape'
    <3>1. UNCHANGED pc /\ job'[w] = j /\ \A v \in Work \ {w} : job'[v] = job[v]
      BY <1>1, <1>7 DEF TypeInv, TypeOK, LeaveWork
    <3> QED
      BY <1>1, <1>4, <3>1 DEF TypeInv, JobShape, Shape
  <2>4. TypeInv'
    BY <1>1, <1>2, <2>1, <2>2, <2>3 DEF TypeInv, TypeOK, LeaveWork, spokeVars, Exists
  <2> QED
    BY <1>5, <2>4 DEF LeaveWork, MTypes
<1> QED
  BY <1>6, <1>7 DEF LeaveWork

LEMMA NextMTypes == MTypes /\ [MNext]_mvars => MTypes'
<1> SUFFICES ASSUME MTypes, [MNext]_mvars PROVE MTypes'
  OBVIOUS
<1>1. TypeInv /\ leaving \in Leaving
  BY DEF MTypes
<1>2. ASSUME UNCHANGED vars
      PROVE  TypeInv'
  BY <1>1, <1>2, NextTypeInv
<1>3. ASSUME Next
      PROVE  TypeInv'
  BY <1>1, <1>3, NextTypeInv
<1>4. ASSUME NEW w \in Work, JoinedReconcile(w)
      PROVE  MTypes'
  BY <1>1, <1>4, ReconcileType DEF JoinedReconcile, membership, MTypes
<1>5. ASSUME NEW w \in Work, Postpone(w) \/ Requeue(w)
      PROVE  MTypes'
  <2>1. TypeInv'
    BY <1>1, <1>5, QueueType DEF Postpone, Requeue, TypeInv, TypeOK
  <2> QED
    BY <1>5, <2>1 DEF Postpone, Requeue, MTypes
<1>6. ASSUME NEW w \in Work, UserWrites(w)
      PROVE  MTypes'
  BY <1>1, <1>6, UserType, OutdateType DEF UserWrites, MTypes
<1>7. ASSUME NEW w \in Work, (AbandonSync(w) \/ CacheSync(w)) /\ UNCHANGED membership
      PROVE  MTypes'
  BY <1>3, <1>7 DEF Next, membership, MTypes
<1>8. ASSUME NEW w \in Work, NEW reply \in Reply, Proceed(w, reply)
      PROVE  MTypes'
  <2>1. TypeInv'
    BY <1>3, <1>8 DEF Proceed, Next
  <2>2. leaving' \in Leaving
    BY <1>1, <1>8, OutdateType DEF Proceed
  <2> QED
    BY <1>8, <2>1, <2>2 DEF Proceed, MTypes
<1>9. ASSUME NEW reply \in Reply, ListWorks(reply)
      PROVE  MTypes'
  <2>1. budget' \in [Disturbance -> Nat]
    BY <1>1, <1>9, CallType DEF ListWorks, TypeInv
  <2>2. UNCHANGED <<hubVars, cache, watch, queue, pc, job, spokeVars>>
    BY <1>9 DEF ListWorks
  <2>3. TypeInv'
    BY <1>1, <2>1, <2>2, QueueType DEF TypeInv, TypeOK
  <2>4. leaving' \in Leaving
    <3> DEFINE todo == {w \in Work : cache[w].fin}
               fresh == {w \in Work : watch[w] = "current"}
               quiet == Busy = {} /\ \A w \in Work : watch[w] = "current"
    <3>1. quiet \in BOOLEAN /\ todo \subseteq Work /\ fresh \subseteq Work
      OBVIOUS
    <3> HIDE DEF todo, fresh, quiet
    <3>2. \/ leaving' = NotLeaving
          \/ leaving' = [pc |-> "update", todo |-> todo, fresh |-> fresh, quiet |-> quiet]
      BY <1>9 DEF ListWorks, todo, fresh, quiet
    <3> QED
      BY <3>1, <3>2, NotLeavingType DEF Leaving
  <2> QED
    BY <1>1, <1>9, <2>3, <2>4 DEF ListWorks, MTypes
<1>10. CASE Join \/ Leave \/ LeaveReturns
  <2>1. TypeInv'
    BY <1>2, <1>10 DEF Join, Leave, LeaveReturns
  <2>2. /\ [NotLeaving EXCEPT !.pc = "list"] \in Leaving
        /\ [leaving EXCEPT !.pc = "left", !.fresh = {}] \in Leaving
    BY <1>1 DEF NotLeaving, Leaving
  <2>3. leaving' \in Leaving
    BY <1>10, <2>2, NotLeavingType DEF Join, Leave, LeaveReturns
  <2>4. joined' \in BOOLEAN /\ later' \subseteq Work
    BY <1>10 DEF Join, Leave, LeaveReturns, MTypes
  <2>5. leaves' \in 0..MaxLeaves
    BY <1>10 DEF Join, Leave, LeaveReturns, MTypes
  <2> QED
    BY <2>1, <2>3, <2>4, <2>5 DEF MTypes
<1>11. CASE ((\E r \in Resource : GarbageCollect(r)) \/ Tamper) /\ UNCHANGED membership
  BY <1>3, <1>11 DEF Next, membership, MTypes
<1>12. CASE RestartJoined
  BY <1>3, <1>12, NotLeavingType DEF RestartJoined, Next, MTypes
<1>13. CASE UNCHANGED mvars
  BY <1>2, <1>13 DEF mvars, membership, MTypes
<1> QED
  BY <1>4, <1>5, <1>6, <1>7, <1>8, <1>9, <1>10, <1>11, <1>12, <1>13, LeaveWorkType DEF MNext

LEMMA InitMTypes == MInit => MTypes
BY InitTypeInv, NotLeavingType DEF MInit, MTypes

-----------------------------------------------------------------------------
(* What a step does to one Work: a hop of ApplyWorkLifecycle_proofs, or the *)
(* loss of the finalizer to Leave.                                          *)

HopLeave(w) ==
    /\ hub'[w] = IF hub[w].phase = "live" THEN [hub[w] EXCEPT !.fin = FALSE] ELSE NoWork
    /\ watch'[w] # "current" /\ cache'[w] = cache[w]
    /\ pc'[w] = pc[w] /\ job'[w].snap = job[w].snap /\ ~job'[w].fresh
    /\ AnchorRests(w)

LEMMA LeaveWorkHop ==
    ASSUME MTypes, NEW w \in Work, NEW reply \in Reply, LeaveWork(w, reply)
    PROVE  /\ HopRest(w) \/ HopLeave(w)
           /\ \A v \in Work \ {w} : HopRest(v)
<1> DEFINE x == IF hub[w].phase = "live" THEN [hub[w] EXCEPT !.fin = FALSE] ELSE NoWork
           j == [job[w] EXCEPT !.fresh = FALSE]
<1>1. TypeInv /\ job[w] \in Job
  BY DEF MTypes, TypeInv, TypeOK
<1>2. ~j.fresh /\ j.snap = job[w].snap
  BY <1>1 DEF Job
<1>3. UNCHANGED <<cache, pc, aw>>
  BY DEF LeaveWork, spokeVars
<1>4. CASE UNCHANGED <<hubVars, watch, job>>
  BY <1>3, <1>4 DEF hubVars, HopRest, CopiesRest, AnchorRests, Goes
<1>5. CASE \E new \in BOOLEAN : HubStores(w, x, new) /\ job' = [job EXCEPT ![w] = j]
  <2> HIDE DEF x, j
  <2>1. /\ hub'[w] = x /\ watch'[w] # "current" /\ job'[w] = j
        /\ \A v \in Work \ {w} : HopRest(v)
    BY <1>1, <1>3, <1>5
       DEF HubStores, HopRest, CopiesRest, AnchorRests, Goes, TypeInv, TypeOK
  <2> QED
    BY <1>2, <1>3, <2>1 DEF HopLeave, AnchorRests, x
<1> QED
  BY <1>4, <1>5 DEF LeaveWork

LEMMA MNextHops ==
    ASSUME MTypes, [MNext]_mvars, NEW v \in Work
    PROVE  Hop(v) \/ HopLeave(v)
<1>1. TypeInv
  BY DEF MTypes
<1>2. ASSUME Hops
      PROVE  Hop(v)
  BY <1>2 DEF Hops, HopAlone, Hop
<1>3. ASSUME UNCHANGED <<hub, cache, watch, pc, job, aw>>
      PROVE  Hop(v)
  BY <1>3 DEF Hop, HopRest, CopiesRest, AnchorRests, Goes
<1>4. ASSUME Next \/ UNCHANGED vars
      PROVE  Hop(v)
  BY <1>1, <1>2, <1>4, NextHops
<1>5. ASSUME NEW w \in Work, Postpone(w) \/ Requeue(w)
      PROVE  Hop(v)
  BY <1>3, <1>5 DEF Postpone, Requeue, hubVars, spokeVars
<1>6. ASSUME NEW w \in Work, \/ JoinedReconcile(w) \/ UserWrites(w)
                             \/ AbandonSync(w) \/ CacheSync(w)
      PROVE  Hop(v)
  BY <1>4, <1>6 DEF JoinedReconcile, UserWrites, Next
<1>7. ASSUME NEW w \in Work, NEW reply \in Reply, Proceed(w, reply)
      PROVE  Hop(v)
  BY <1>4, <1>7 DEF Proceed, Next
<1>8. ASSUME NEW reply \in Reply, ListWorks(reply)
      PROVE  Hop(v)
  BY <1>3, <1>8 DEF ListWorks, hubVars, spokeVars
<1>9. CASE Join \/ Leave \/ LeaveReturns \/ UNCHANGED mvars
  BY <1>4, <1>9 DEF Join, Leave, LeaveReturns, mvars
<1>10. CASE (\E r \in Resource : GarbageCollect(r)) \/ Tamper \/ RestartJoined
  BY <1>4, <1>10 DEF RestartJoined, Next
<1>11. ASSUME NEW w \in Work, NEW reply \in Reply, LeaveWork(w, reply)
       PROVE  Hop(v) \/ HopLeave(v)
  BY <1>11, LeaveWorkHop DEF Hop
<1> QED
  BY <1>5, <1>6, <1>7, <1>8, <1>9, <1>10, <1>11 DEF MNext

-----------------------------------------------------------------------------
(* The copies of a Work. Leave takes the finalizer off while a reconcile is *)
(* at work, so that less can be relied on than in ApplyWorkFinalizer_proofs: *)
(* a reconcile may apply manifests for a Work without the finalizer. What   *)
(* is left is that a Work is collected only if it is not wanted.            *)

CopyInv(w) ==
    /\ hub[w].phase = "absent" => ~hub[w].fin
    /\ watch[w] = "current" => cache[w] = hub[w]
    /\ job[w].fresh => hub[w] = job[w].snap
    /\ job[w].fresh /\ pc[w] \in Ensuring \cup Collecting => cache[w] = hub[w]
    /\ Doomed(w) => ~Kept(hub[w])
    /\ pc[w] \in Ensuring => job[w].snap.phase = "live"
    /\ pc[w] = "finalize" => ~job[w].snap.fin
    /\ pc[w] \in Collecting => job[w].snap.phase = "deleting" /\ ~Kept(hub[w])

CopyTypes(w) == /\ hub[w] \in WorkObject /\ cache[w] \in WorkObject
                /\ job[w].snap \in WorkObject

LEMMA HopCopy ==
    ASSUME NEW w \in Work, CopyTypes(w), CopyInv(w), Hop(w) \/ HopLeave(w)
    PROVE  CopyInv(w)'
<1> USE DEF CopyInv, CopyTypes, Doomed, CopiesRest, AnchorRests, Goes, Ends, Stores, Kept,
            Ensuring, Applying, Collecting
<1>1. CASE HopRest(w) \/ HopGet(w) \/ HopApply(w) \/ HopEnd(w)
  BY <1>1 DEF HopRest, HopGet, HopApply, HopEnd
<1>2. CASE HopBegin(w)
  BY <1>2 DEF HopBegin, EntryPoint, WorkObject
<1>3. CASE HopAnchor(w)
  BY <1>3 DEF HopAnchor, WorkObject
<1>4. CASE HopHold(w)
  BY <1>4 DEF HopHold, WorkObject
<1>5. CASE HopReport(w) \/ HopCollect(w)
  BY <1>5 DEF HopReport, HopCollect
<1>6. CASE HopLetGo(w)
  BY <1>6 DEF HopLetGo, NoWork
<1>7. CASE HopDeliver(w) \/ HopRestart(w)
  BY <1>7 DEF HopDeliver, HopRestart, WorkObject
<1>8. CASE HopUser(w)
  BY <1>8 DEF HopUser, NoWork
<1>9. CASE HopLeave(w)
  BY <1>9 DEF HopLeave, NoWork, WorkObject
<1>10. CASE HopTamper(w)
  BY <1>10 DEF HopTamper
<1> QED
  BY <1>1, <1>2, <1>3, <1>4, <1>5, <1>6, <1>7, <1>8, <1>9, <1>10 DEF Hop

CopiesInvariant == \A w \in Work : CopyInv(w)

LEMMA NextCopies == MTypes /\ CopiesInvariant /\ [MNext]_mvars => CopiesInvariant'
<1> SUFFICES ASSUME MTypes, CopiesInvariant, [MNext]_mvars, NEW w \in Work
             PROVE  CopyInv(w)'
  BY DEF CopiesInvariant
<1>1. CopyTypes(w)
  BY DEF MTypes, TypeInv, TypeOK, Job, CopyTypes
<1> QED
  BY <1>1, MNextHops, HopCopy DEF CopiesInvariant

LEMMA InitCopies == MInit => CopiesInvariant
BY DEF MInit, Init, CopiesInvariant, CopyInv, Doomed, NoWork, NoJob, Kept, Ensuring, Collecting

-----------------------------------------------------------------------------
(* The list of Leave. A listed copy that is still of the latest version has *)
(* the finalizer, since whoever writes the Work outdates it.                *)

FreshInv == \A w \in leaving.todo \cap leaving.fresh : hub[w].fin

\* A reconcile writes its Work only by a call that WritesWork tells.
LEMMA StepWrites ==
    ASSUME TypeInv, NEW w \in Work, NEW reply \in Reply, Step(w, reply)
    PROVE  /\ \A v \in Work \ {w} : hub'[v] = hub[v]
           /\ hub'[w] = hub[w] \/ (WritesWork(w) /\ Accepted(w, reply))
<1>1. hub \in [Work -> WorkObject]
  BY DEF TypeInv, TypeOK
<1>2. CASE UNCHANGED hub
  BY <1>2
<1>3. ASSUME WritesWork(w), Accepted(w, reply), NEW x, hub' = [hub EXCEPT ![w] = x]
      PROVE  /\ \A v \in Work \ {w} : hub'[v] = hub[v]
             /\ hub'[w] = hub[w] \/ (WritesWork(w) /\ Accepted(w, reply))
  BY <1>1, <1>3
<1>4. CASE AddFinalizer(w, reply) \/ UpdateWorkStatus(w, reply) \/ RemoveFinalizer(w, reply)
  <2>1. WritesWork(w)
    BY <1>4 DEF AddFinalizer, UpdateWorkStatus, RemoveFinalizer, WritesWork
  <2>2. \/ UNCHANGED hub
        \/ Accepted(w, reply) /\ \E x : hub' = [hub EXCEPT ![w] = x]
    BY <1>4 DEF AddFinalizer, UpdateWorkStatus, RemoveFinalizer, HubStores
  <2> QED
    BY <1>2, <1>3, <2>1, <2>2
<1>5. CASE \/ GetAppliedWork(w, reply) \/ CreateAppliedWork(w, reply)
           \/ \E r \in Resource : GetManifest(w, r, reply)
           \/ CreateManifest(w, reply) \/ PatchManifest(w, reply)
  BY <1>2, <1>5 DEF GetAppliedWork, CreateAppliedWork, GetManifest, CreateManifest,
                    PatchManifest, hubVars
<1>6. CASE \/ \E r \in Resource : GetNewManifest(w, r, reply) \/ GetStaleManifest(w, r, reply)
           \/ DeleteStaleManifest(w, reply) \/ ReleaseStaleManifest(w, reply)
           \/ UpdateAppliedWork(w, reply) \/ DeleteAppliedWork(w, reply)
  BY <1>2, <1>6 DEF GetNewManifest, GetStaleManifest, DeleteStaleManifest,
                    ReleaseStaleManifest, UpdateAppliedWork, DeleteAppliedWork, hubVars
<1> QED
  BY <1>4, <1>5, <1>6 DEF Step

\* What a step does to the list and to the finalizers.
Lists == /\ leaving'.todo \subseteq {w \in Work : cache[w].fin}
         /\ leaving'.fresh \subseteq {w \in Work : watch[w] = "current"}
         /\ UNCHANGED hub
Shortens == /\ leaving'.todo \subseteq leaving.todo
            /\ leaving'.fresh \subseteq leaving.fresh
            /\ \A w \in leaving'.todo \cap leaving'.fresh : hub'[w].fin = hub[w].fin
Forgets == leaving' = NotLeaving

LEMMA ListStep ==
    ASSUME MTypes, [MNext]_mvars
    PROVE  Lists \/ Shortens \/ Forgets
<1>1. TypeInv /\ leaving \in Leaving
  BY DEF MTypes
<1>2. ASSUME UNCHANGED <<hub, leaving>>
      PROVE  Shortens
  BY <1>2 DEF Shortens
<1>3. ASSUME NEW w \in Work, Outdate(w), \A v \in Work \ {w} : hub'[v] = hub[v]
      PROVE  Shortens
  <2>1. leaving'.todo = leaving.todo /\ leaving'.fresh = leaving.fresh \ {w}
    BY <1>1, <1>3 DEF Outdate, Leaving
  <2> QED
    BY <1>1, <1>3, <2>1 DEF Shortens, Leaving
<1>4. ASSUME NEW w \in Work, Reconcile(w) \/ AbandonSync(w) \/ CacheSync(w)
                             \/ Postpone(w) \/ Requeue(w)
      PROVE  UNCHANGED hub
  BY <1>4 DEF Reconcile, AbandonSync, CacheSync, Postpone, Requeue, hubVars
<1>5. ASSUME NEW w \in Work, \/ JoinedReconcile(w) \/ Postpone(w) \/ Requeue(w)
                             \/ (AbandonSync(w) \/ CacheSync(w)) /\ UNCHANGED membership
      PROVE  Shortens
  BY <1>2, <1>4, <1>5 DEF JoinedReconcile, Postpone, Requeue, membership
<1>6. ASSUME NEW w \in Work, UserWrites(w)
      PROVE  Shortens
  <2>1. \A v \in Work \ {w} : hub'[v] = hub[v]
    BY <1>1, <1>6 DEF UserWrites, User, CreateWork, EditWork, DeleteWork, UserStores, HubStores,
                      TypeInv, TypeOK
  <2> QED
    BY <1>3, <1>6, <2>1 DEF UserWrites
<1>7. ASSUME NEW w \in Work, NEW reply \in Reply, Proceed(w, reply)
      PROVE  Shortens
  <2>1. /\ \A v \in Work \ {w} : hub'[v] = hub[v]
        /\ hub'[w] = hub[w] \/ (WritesWork(w) /\ Accepted(w, reply))
    BY <1>1, <1>7, StepWrites DEF Proceed
  <2>2. CASE Outdate(w)
    BY <1>3, <2>1, <2>2
  <2>3. CASE ~(WritesWork(w) /\ Accepted(w, reply)) /\ UNCHANGED leaving
    BY <1>1, <2>1, <2>3 DEF Shortens, Leaving
  <2> QED
    BY <1>7, <2>2, <2>3 DEF Proceed
<1>8. ASSUME NEW w \in Work, NEW reply \in Reply, LeaveWork(w, reply)
      PROVE  Shortens \/ Forgets
  <2>1. \A v \in Work \ {w} : hub'[v] = hub[v]
    BY <1>1, <1>8 DEF LeaveWork, HubStores, hubVars, TypeInv, TypeOK
  <2>2. CASE leaving' = [leaving EXCEPT !.todo = @ \ {w}, !.fresh = @ \ {w}]
    BY <1>1, <2>1, <2>2 DEF Leaving, Shortens
  <2> QED
    BY <1>8, <2>2 DEF LeaveWork, Forgets
<1>9. ASSUME NEW reply \in Reply, ListWorks(reply)
      PROVE  Lists \/ Forgets
  BY <1>9 DEF ListWorks, Lists, Forgets, hubVars
<1>10. CASE Leave \/ LeaveReturns
  BY <1>1, <1>10 DEF Leave, LeaveReturns, NotLeaving, Leaving, Lists, Shortens, vars
<1>11. CASE Join \/ RestartJoined
  BY <1>11 DEF Join, RestartJoined, Forgets
<1>12. CASE ((\E r \in Resource : GarbageCollect(r)) \/ Tamper) /\ UNCHANGED membership
  BY <1>2, <1>12 DEF GarbageCollect, Tamper, TamperDeleteObject, TamperEditObject,
                     TamperCreateObject, TamperDeleteAppliedWork, ThirdParty, hubVars, membership
<1>13. CASE UNCHANGED mvars
  BY <1>2, <1>13 DEF mvars, vars, membership
<1> QED
  BY <1>5, <1>6, <1>7, <1>8, <1>9, <1>10, <1>11, <1>12, <1>13 DEF MNext

LEMMA NextFresh ==
    MTypes /\ CopiesInvariant /\ FreshInv /\ [MNext]_mvars => FreshInv'
<1> SUFFICES ASSUME MTypes, CopiesInvariant, FreshInv, [MNext]_mvars PROVE FreshInv'
  OBVIOUS
<1>1. CASE Lists
  BY <1>1 DEF Lists, FreshInv, CopiesInvariant, CopyInv
<1>2. CASE Shortens
  BY <1>2 DEF Shortens, FreshInv
<1>3. CASE Forgets
  BY <1>3 DEF Forgets, NotLeaving, FreshInv
<1> QED
  BY <1>1, <1>2, <1>3, ListStep

\* Every variable keeps its type, and a copy that Leave takes to be of the
\* latest version is one: its Work has the finalizer that Leave takes off.
THEOREM MembershipTypes == MSafeSpec => []MembershipTypeOK
<1> DEFINE Inv == MTypes /\ CopiesInvariant /\ FreshInv
<1>1. MInit => Inv
  BY InitMTypes, InitCopies DEF MInit, FreshInv, NotLeaving
<1>2. Inv /\ [MNext]_mvars => Inv'
  BY NextMTypes, NextCopies, NextFresh
<1>3. Inv => MembershipTypeOK
  BY DEF MTypes, TypeInv, FreshInv, MembershipTypeOK
<1> QED
  BY <1>1, <1>2, <1>3, PTL DEF MSafeSpec

-----------------------------------------------------------------------------
(* Leave at rest. If no reconcile was running when the Works were listed,   *)
(* none starts before the next Join; nobody else adds a finalizer; and the  *)
(* Works that have one are still on the list.                               *)

CleanInv ==
    /\ leaving.pc # "idle" => ~joined
    /\ leaving.pc = "left" => leaving.todo = {}
    /\ leaving.pc \in {"update", "left"} /\ leaving.quiet
           => Busy = {} /\ \A w \in Work : hub[w].fin => w \in leaving.todo

\* The steps that keep reconciles idle and put no finalizer on a Work that is
\* not listed, while Leave stays where it is.
Idles == /\ leaving'.pc = leaving.pc /\ leaving'.quiet = leaving.quiet
         /\ leaving'.todo \subseteq leaving.todo
         /\ UNCHANGED <<joined, pc>>
         /\ \A w \in Work :
                hub'[w].fin => hub[w].fin /\ (w \in leaving.todo => w \in leaving'.todo)

LEMMA IdlesClean == CleanInv /\ Idles => CleanInv'
BY DEF CleanInv, Idles, Busy

LEMMA UserFin ==
    ASSUME TypeInv, NEW w \in Work, User(w), NEW v \in Work, hub'[v].fin
    PROVE  hub[v].fin
<1>1. \A u \in Work \ {w} : hub'[u] = hub[u]
  BY UserHop DEF HopAlone, HopRest, CopiesRest
<1>2. hub'[w].fin => hub[w].fin
  BY DEF User, CreateWork, EditWork, DeleteWork, UserStores, HubStores, TypeInv, TypeOK,
         WorkObject, NoWork
<1> QED
  BY <1>1, <1>2

LEMMA NextClean ==
    MTypes /\ CopiesInvariant /\ CleanInv /\ [MNext]_mvars => CleanInv'
<1> SUFFICES ASSUME MTypes, CopiesInvariant, CleanInv, [MNext]_mvars PROVE CleanInv'
  OBVIOUS
<1>1. TypeInv /\ leaving \in Leaving
  BY DEF MTypes
<1>2. ASSUME UNCHANGED <<hub, pc, joined, leaving>>
      PROVE  CleanInv'
  BY <1>2, IdlesClean DEF Idles
<1>3. ASSUME NEW w \in Work, JoinedReconcile(w)
      PROVE  CleanInv'
  BY <1>3 DEF JoinedReconcile, CleanInv, membership
<1>4. ASSUME NEW w \in Work, Postpone(w) \/ Requeue(w)
      PROVE  CleanInv'
  BY <1>2, <1>4 DEF Postpone, Requeue, hubVars
<1>5. ASSUME NEW w \in Work, UserWrites(w)
      PROVE  CleanInv'
  <2>1. UNCHANGED <<joined, pc>>
    BY <1>5 DEF UserWrites, User, CreateWork, EditWork, DeleteWork, UserStores
  <2>2. /\ leaving'.pc = leaving.pc /\ leaving'.quiet = leaving.quiet
        /\ leaving'.todo = leaving.todo
    BY <1>1, <1>5 DEF UserWrites, Outdate, Leaving
  <2>3. \A v \in Work : hub'[v].fin => hub[v].fin
    BY <1>1, <1>5, UserFin DEF UserWrites
  <2> QED
    BY <2>1, <2>2, <2>3, IdlesClean DEF Idles
<1>6. ASSUME NEW w \in Work, CacheSync(w) /\ UNCHANGED membership
      PROVE  CleanInv'
  BY <1>2, <1>6 DEF CacheSync, hubVars, membership
<1>7. ASSUME NEW w \in Work,
             \/ \E reply \in Reply : Proceed(w, reply)
             \/ AbandonSync(w) /\ UNCHANGED membership
      PROVE  CleanInv'
  <2>1. w \in Busy
    BY <1>7 DEF Proceed, Step, AbandonSync, GetAppliedWork, CreateAppliedWork, AddFinalizer,
                GetManifest, CreateManifest, PatchManifest, UpdateWorkStatus, GetNewManifest,
                GetStaleManifest, DeleteStaleManifest, ReleaseStaleManifest,
                UpdateAppliedWork, DeleteAppliedWork, RemoveFinalizer, Busy
  <2>2. ~(leaving.pc \in {"update", "left"} /\ leaving.quiet)
    BY <2>1 DEF CleanInv
  <2>3. /\ leaving'.pc = leaving.pc /\ leaving'.quiet = leaving.quiet
        /\ leaving'.todo = leaving.todo /\ joined' = joined
    BY <1>1, <1>7 DEF Proceed, Outdate, Leaving, membership
  <2> QED
    BY <2>2, <2>3 DEF CleanInv
<1>8. ASSUME NEW w \in Work, NEW reply \in Reply, LeaveWork(w, reply)
      PROVE  CleanInv'
  <2>1. CASE leaving' = NotLeaving
    BY <2>1 DEF CleanInv, NotLeaving
  <2>2. CASE leaving' # NotLeaving
    <3>1. HopRest(w) \/ HopLeave(w)
      BY <1>8, LeaveWorkHop
    <3>2. \A v \in Work \ {w} : hub'[v] = hub[v]
      BY <1>8, LeaveWorkHop DEF HopRest, CopiesRest
    <3>3. /\ leaving.pc = "update"
          /\ leaving' = [leaving EXCEPT !.todo = @ \ {w}, !.fresh = @ \ {w}]
          /\ UNCHANGED <<joined, pc>>
      BY <1>8, <2>2 DEF LeaveWork
    <3>4. ~hub'[w].fin
      <4> DEFINE x == IF hub[w].phase = "live" THEN [hub[w] EXCEPT !.fin = FALSE] ELSE NoWork
      <4>1. ~x.fin
        BY <1>1 DEF TypeInv, TypeOK, WorkObject, NoWork
      <4> HIDE DEF x
      <4>2. \E new : hub' = [hub EXCEPT ![w] = x]
        BY <1>8, <2>2 DEF LeaveWork, HubStores, x
      <4> QED
        BY <1>1, <4>1, <4>2 DEF TypeInv, TypeOK
    <3>5. /\ leaving'.pc = leaving.pc /\ leaving'.quiet = leaving.quiet
          /\ leaving'.todo = leaving.todo \ {w}
      BY <1>1, <3>3 DEF Leaving
    <3> QED
      BY <3>2, <3>3, <3>4, <3>5, IdlesClean DEF Idles
  <2> QED
    BY <2>1, <2>2
<1>9. ASSUME NEW reply \in Reply, ListWorks(reply)
      PROVE  CleanInv'
  <2>1. CASE leaving' = NotLeaving
    BY <2>1 DEF CleanInv, NotLeaving
  <2>2. CASE leaving' = [pc |-> "update",
                         todo |-> {w \in Work : cache[w].fin},
                         fresh |-> {w \in Work : watch[w] = "current"},
                         quiet |-> Busy = {} /\ \A w \in Work : watch[w] = "current"]
    <3>1. /\ leaving'.pc = "update" /\ leaving'.todo = {w \in Work : cache[w].fin}
          /\ leaving'.quiet => Busy = {} /\ \A w \in Work : watch[w] = "current"
      BY <2>2
    <3>2. UNCHANGED <<hub, pc, joined>> /\ leaving.pc = "list"
      BY <1>9 DEF ListWorks, hubVars
    <3>3. ~joined
      BY <3>2 DEF CleanInv
    <3> QED
      BY <3>1, <3>2, <3>3 DEF CleanInv, CopiesInvariant, CopyInv, Busy
  <2> QED
    BY <1>9, <2>1, <2>2 DEF ListWorks
<1>10. CASE Join \/ RestartJoined
  BY <1>10 DEF Join, RestartJoined, CleanInv, NotLeaving
<1>11. CASE Leave
  <2>1. leaving'.pc = "list" /\ ~joined'
    BY <1>11 DEF Leave, NotLeaving
  <2> QED
    BY <2>1 DEF CleanInv
<1>12. CASE LeaveReturns
  <2>1. /\ leaving.pc = "update" /\ leaving.todo = {}
        /\ leaving'.pc = "left" /\ leaving'.todo = {} /\ leaving'.quiet = leaving.quiet
        /\ UNCHANGED <<hub, pc, joined>>
    BY <1>1, <1>12 DEF LeaveReturns, Leaving, vars
  <2> QED
    BY <2>1 DEF CleanInv, Busy
<1>13. CASE ((\E r \in Resource : GarbageCollect(r)) \/ Tamper) /\ UNCHANGED membership
  BY <1>2, <1>13 DEF GarbageCollect, Tamper, TamperDeleteObject, TamperEditObject,
                     TamperCreateObject, TamperDeleteAppliedWork, ThirdParty, hubVars, membership
<1>14. CASE UNCHANGED mvars
  BY <1>2, <1>14 DEF mvars, vars, membership
<1> QED
  BY <1>3, <1>4, <1>5, <1>6, <1>7, <1>8, <1>9, <1>10, <1>11, <1>12, <1>13, <1>14 DEF MNext

\* Where Leave began with no reconcile running and a cache up to date and has
\* returned without an error, no Work has the finalizer until the next Join.
THEOREM LeaveTakesAll == MSafeSpec => []LeaveIsClean
<1> DEFINE Inv == MTypes /\ CopiesInvariant /\ CleanInv
<1>1. MInit => Inv
  BY InitMTypes, InitCopies DEF MInit, CleanInv, NotLeaving
<1>2. Inv /\ [MNext]_mvars => Inv'
  BY NextMTypes, NextCopies, NextClean
<1>3. Inv => LeaveIsClean
  BY DEF CleanInv, LeaveIsClean
<1> QED
  BY <1>1, <1>2, <1>3, PTL DEF MSafeSpec

-----------------------------------------------------------------------------
(* The AppliedWork behind the finalizer, in spite of Leave.                 *)

Guarded(w) == Kept(hub[w]) \/ pc[w] = "finalize" => aw[w].uid # 0
Guards == \A w \in Work : Guarded(w)

LEMMA HopGuarded ==
    ASSUME "deleteAppliedWork" \notin Tampering,
           NEW w \in Work, CopyTypes(w), CopyInv(w), Guarded(w), Hop(w) \/ HopLeave(w)
    PROVE  Guarded(w)'
<1> USE DEF CopyInv, CopyTypes, Guarded, CopiesRest, AnchorRests, Goes, Ends, Stores, Kept,
            Ensuring, Applying, Collecting
<1>1. CASE HopRest(w) \/ HopGet(w) \/ HopApply(w) \/ HopEnd(w) \/ HopDeliver(w) \/ HopRestart(w)
  BY <1>1 DEF HopRest, HopGet, HopApply, HopEnd, HopDeliver, HopRestart
<1>2. CASE HopBegin(w)
  BY <1>2 DEF HopBegin, EntryPoint, WorkObject
<1>3. CASE HopAnchor(w)
  BY <1>3 DEF HopAnchor, WorkObject
<1>4. CASE HopHold(w)
  BY <1>4 DEF HopHold, WorkObject
<1>5. CASE HopReport(w) \/ HopCollect(w)
  BY <1>5 DEF HopReport, HopCollect
<1>6. CASE HopLetGo(w)
  BY <1>6 DEF HopLetGo, NoWork
<1>7. CASE HopUser(w)
  BY <1>7 DEF HopUser, NoWork
<1>8. CASE HopLeave(w)
  BY <1>8 DEF HopLeave, NoWork, WorkObject
<1> QED
  BY <1>1, <1>2, <1>3, <1>4, <1>5, <1>6, <1>7, <1>8 DEF Hop, HopTamper

\* Leave, and reconciles that go on while it takes finalizers off, never leave
\* a live Work with the finalizer and without its AppliedWork.
THEOREM LeaveKeepsTheGuard ==
    ASSUME "deleteAppliedWork" \notin Tampering
    PROVE  MSafeSpec => []FinalizerGuardsAppliedWork
<1> DEFINE Inv == MTypes /\ CopiesInvariant /\ Guards
<1>1. MInit => Inv
  BY InitMTypes, InitCopies DEF MInit, Init, Guards, Guarded, Kept, NoWork
<1>2. Inv /\ [MNext]_mvars => Inv'
  <2> SUFFICES ASSUME Inv, [MNext]_mvars PROVE Guards'
    BY NextMTypes, NextCopies
  <2>1. \A w \in Work : CopyTypes(w) /\ CopyInv(w) /\ Guarded(w)
    BY DEF MTypes, TypeInv, TypeOK, Job, CopyTypes, CopiesInvariant, Guards
  <2> QED
    BY <2>1, MNextHops, HopGuarded DEF Guards
<1>3. Inv => FinalizerGuardsAppliedWork
  BY DEF Guards, Guarded, FinalizerGuardsAppliedWork, Kept
<1> QED
  BY <1>1, <1>2, <1>3, PTL DEF MSafeSpec
=============================================================================
