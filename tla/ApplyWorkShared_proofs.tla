---------------------- MODULE ApplyWorkShared_proofs ----------------------
(***************************************************************************)
(* Objects that several Works share. The optimistic lock of the update     *)
(* that releases one protects the references of the other Works; and what  *)
(* the controller wrote keeps an owner, although a patch has no lock.      *)
(***************************************************************************)
EXTENDS ApplyWorkObjects_proofs

USE BuiltInAssumption, AbsentAssumption, MaxConcurrentAssumption, BudgetAssumption

-----------------------------------------------------------------------------
(* Releasing a shared object.                                              *)

\* An object is released only after it was read with a reference to this Work
\* and with more than that.
ReadShared(w) == RemainingOwners(job[w].cur.owners, Me(w)) # {}
ReleaseInv == \A w \in Work : pc[w] = "release" => ReadShared(w)

\* The only call that leads to a release reads the reference first.
LEMMA StepToRelease ==
    ASSUME TypeInv, NEW w \in Work, NEW reply \in Reply, Step(w, reply),
           pc'[w] = "release"
    PROVE  ReadShared(w)'
<1>1. ASSUME NEW label, NEW j, Goto(w, label, j)
      PROVE  label = "release"
  BY <1>1 DEF Goto, TypeInv, TypeOK
<1>2. \A again : ~Return(w, again)
  BY DEF Return, TypeInv, TypeOK
<1>3. job[w].snap.fin \in BOOLEAN /\ job[w] \in Job
  BY DEF TypeInv, TypeOK, Job, WorkObject
<1>4. ~(GetAppliedWork(w, reply) \/ CreateAppliedWork(w, reply) \/ AddFinalizer(w, reply))
  BY <1>1, <1>2, <1>3 DEF GetAppliedWork, CreateAppliedWork, AddFinalizer,
                          StartApply, ReadReply
<1>5. ~(\/ \E r \in Resource : GetManifest(w, r, reply)
        \/ CreateManifest(w, reply) \/ PatchManifest(w, reply)
        \/ UpdateWorkStatus(w, reply))
  BY <1>1, <1>2 DEF GetManifest, CreateManifest, PatchManifest, UpdateWorkStatus,
                    ReadReply, Managed
<1>6. ~(\/ \E r \in Resource : GetNewManifest(w, r, reply)
        \/ DeleteStaleManifest(w, reply) \/ ReleaseStaleManifest(w, reply))
  BY <1>1, <1>2 DEF GetNewManifest, DeleteStaleManifest, ReleaseStaleManifest, ReadReply
<1>7. ~(\/ UpdateAppliedWork(w, reply) \/ DeleteAppliedWork(w, reply)
        \/ RemoveFinalizer(w, reply))
  BY <1>1, <1>2 DEF UpdateAppliedWork, DeleteAppliedWork, RemoveFinalizer, Resync
<1>8. PICK r \in Resource : GetStaleManifest(w, r, reply)
  BY <1>4, <1>5, <1>6, <1>7 DEF Step
<1> DEFINE next == [job[w] EXCEPT !.stale = @ \ {r}]
           failed == [next EXCEPT !.failed = TRUE]
           read == [next EXCEPT !.at = r, !.cur = res[r]]
           owned == IsOwner(res[r].owners, Me(w))
           others == RemainingOwners(res[r].owners, Me(w))
<1>9. read.cur = res[r]
  BY <1>3 DEF Job
<1>10. /\ reply \in {"error", "answer"}
       /\ CASE reply = "error" -> Goto(w, "sync", failed)
            [] reply = "answer" /\ ~owned -> Goto(w, "sync", next)
            [] reply = "answer" /\ owned /\ others = {} -> Goto(w, "deleteObject", read)
            [] reply = "answer" /\ owned /\ others # {} -> Goto(w, "release", read)
  BY <1>8 DEF GetStaleManifest, ReadReply
<1> HIDE DEF next, failed, read, owned, others
<1>11. others # {} /\ Goto(w, "release", read)
  BY <1>1, <1>10
<1>12. job'[w] = read
  BY <1>11, GotoAt
<1>13. RemainingOwners(res[r].owners, Me(w)) # {}
  BY <1>11 DEF others
<1>14. RemainingOwners(res[r].owners, Me(w)') = RemainingOwners(res[r].owners, Me(w))
  BY DEF RemainingOwners, SameOwner, Me
<1> QED
  BY <1>9, <1>12, <1>13, <1>14 DEF ReadShared

LEMMA NextReleaseInv == TypeInv /\ ReleaseInv /\ [Next]_vars => ReleaseInv'
<1> SUFFICES ASSUME TypeInv, ReleaseInv, [Next]_vars, NEW v \in Work, pc'[v] = "release"
             PROVE  ReadShared(v)'
  BY DEF ReleaseInv
<1>1. ASSUME Rests(v)
      PROVE  ReadShared(v)'
  <2>1. ReadShared(v)
    BY <1>1 DEF Rests, ReleaseInv
  <2> QED
    BY <1>1, <2>1 DEF Rests, ReadShared, RemainingOwners, SameOwner, Me
<1>2. ASSUME NEW w \in Work, Aside(w)
      PROVE  ReadShared(v)'
  BY <1>1, <1>2, AsideRests DEF Applying
<1>3. ASSUME NEW w \in Work, NEW reply \in Reply, Step(w, reply)
      PROVE  ReadShared(v)'
  BY <1>1, <1>3, StepRests, StepToRelease
<1>4. ~Restart
  BY DEF Restart
<1> QED
  BY <1>1, <1>2, <1>3, <1>4, OthersRest DEF Next, Aside

LEMMA ReleaseInvariant == SafeSpec => [](TypeInv /\ ReleaseInv)
<1>1. Init => TypeInv /\ ReleaseInv
  BY InitTypeInv DEF Init, ReleaseInv
<1>2. TypeInv /\ ReleaseInv /\ [Next]_vars => (TypeInv /\ ReleaseInv)'
  BY NextTypeInv, NextReleaseInv
<1> QED
  BY <1>1, <1>2, PTL DEF SafeSpec

\* What the update writes keeps the references of the others.
LEMMA RemainingKeepsOthers ==
    ASSUME NEW owners, NEW me, SameOwner(owners, me) # {},
           NEW o \in owners, o.work # me.work
    PROVE  o \in RemainingOwners(owners, me)
BY DEF RemainingOwners, SameOwner

LEMMA ReleaseKeepsOthers ==
    ASSUME TypeInv, ReleaseInv, NEW w \in Work, NEW reply \in Reply,
           ReleaseStaleManifest(w, reply), NEW r \in Resource
    PROVE  {o \in res'[r].owners : o.work # w} = {o \in res[r].owners : o.work # w}
<1> DEFINE at == job[w].at
           cur == job[w].cur
           rest == RemainingOwners(cur.owners, Me(w))
<1>1. CASE res' = [res EXCEPT ![at].owners = rest] /\ res[at] = cur
  <2>1. at \in Resource /\ SameOwner(cur.owners, Me(w)) # {}
    BY DEF ReleaseStaleManifest, TypeInv, JobShape, Shape, ReleaseInv, ReadShared,
              RemainingOwners
  <2>2. res[at] \in Object
    BY <2>1 DEF TypeInv, TypeOK
  <2>3. Me(w).work = w
    BY DEF Me
  <2>4. rest \subseteq cur.owners
    BY RemainingOwnersBound
  <2>5. {o \in rest : o.work # w} = {o \in cur.owners : o.work # w}
    BY <2>1, <2>3, <2>4, RemainingKeepsOthers
  <2> HIDE DEF rest, cur, at
  <2>6. [res[at] EXCEPT !.owners = rest].owners = rest
    BY <2>2 DEF Object
  <2>7. /\ res'[at].owners = rest
        /\ r # at => res'[r] = res[r]
    BY <1>1, <2>1, <2>6 DEF TypeInv, TypeOK
  <2> QED
    BY <1>1, <2>5, <2>7
<1>2. CASE res' = res
  BY <1>2
<1> QED
  BY <1>1, <1>2 DEF ReleaseStaleManifest, Unchanged

\* Giving up a shared object costs no other Work its reference.
THEOREM ReleaseIsSafe == SafeSpec => ReleaseSparesOthers
<1> DEFINE Others(w, r) == {o \in res[r].owners : o.work # w}
           Spares == \A w \in Work : pc[w] = "release" /\ pc'[w] = "sync" =>
                         \A r \in Resource : {o \in res'[r].owners : o.work # w}
                                           = {o \in res[r].owners : o.work # w}
<1>1. TypeInv /\ ReleaseInv /\ [Next]_vars => [Spares]_vars
  <2> SUFFICES ASSUME TypeInv, ReleaseInv, [Next]_vars,
                      NEW w \in Work, pc[w] = "release", pc'[w] = "sync", NEW r \in Resource
               PROVE  {o \in res'[r].owners : o.work # w} = {o \in res[r].owners : o.work # w}
    OBVIOUS
  <2>1. ~Rests(w) /\ ~Restart
    BY DEF Rests, Restart
  <2>2. \A v \in Work : ~Aside(v)
    BY <2>1, AsideRests DEF Holding
  <2>3. PICK v \in Work, reply \in Reply : Step(v, reply)
    BY <2>1, <2>2, OthersRest DEF Next, Aside
  <2>4. v = w
    BY <2>1, <2>3, StepRests
  <2>5. ReleaseStaleManifest(w, reply)
    BY <2>3, <2>4 DEF Step, GetAppliedWork, CreateAppliedWork, AddFinalizer,
                      GetManifest, CreateManifest, PatchManifest, UpdateWorkStatus,
                      GetNewManifest, GetStaleManifest, DeleteStaleManifest,
                      UpdateAppliedWork, DeleteAppliedWork, RemoveFinalizer
  <2> QED
    BY <2>5, ReleaseKeepsOthers
<1> QED
  BY <1>1, ReleaseInvariant, PTL DEF SafeSpec, ReleaseSparesOthers

-----------------------------------------------------------------------------
(* What a step does to one object. The invariants below speak of an object *)
(* by its owners, its last applied owners, whether it exists, and what the *)
(* reconciles have read of it that are about to patch or delete it. Every  *)
(* step is shown to make one of a few moves on these.                      *)

Own(r) == res[r].owners
Last(r) == res[r].last
Read(w) == job[w].cur.owners
Base(w) == job[w].cur.last
Patches(w, r) == pc[w] = "patch" /\ job[w].at = r
Deletes(w, r) == pc[w] = "deleteObject" /\ job[w].at = r

\* The owners that a strategic merge patch takes off: those that were applied last
\* and not in the list that was read.
Drops(w) == Base(w) \ Read(w)

\* The parts that a move leaves alone.
SameObject(r) == /\ Own(r)' = Own(r) /\ Last(r)' = Last(r)
                 /\ Exists(res[r])' => Exists(res[r])
SameAnchors == \A w \in Work : Anchor(w)' = Anchor(w)
Holds(w, r) == /\ Patches(w, r)' => /\ Patches(w, r)
                                    /\ Read(w)' = Read(w) /\ Drops(w)' = Drops(w)
               /\ Deletes(w, r)' => Deletes(w, r)
AllHold(r) == \A w \in Work : Holds(w, r)
LetsGo(w, r) == ~Patches(w, r)' /\ ~Deletes(w, r)'

\* A step that does nothing to the object.
RestMove(r) == SameObject(r) /\ SameAnchors /\ AllHold(r)

\* The Get that a patch or a delete starts from. A delete is decided on only if this
\* Work is the one owner.
TakesToPatch(w, r) == /\ Read(w)' = Own(r) /\ Drops(w)' = Last(r) \ Own(r)
                      /\ Own(r) # {}
                      /\ ~Deletes(w, r)'
TakesToDelete(w, r) == /\ \E o : Own(r) = {o} /\ o.work = w
                       /\ ~Patches(w, r)'
TakeMove(w, r) == /\ SameObject(r) /\ SameAnchors
                  /\ \A v \in Work \ {w} : Holds(v, r)
                  /\ (TakesToPatch(w, r) \/ TakesToDelete(w, r))

\* The writes. A strategic patch adds this Work, unless the list that was read has it,
\* and takes off what Drops lists and what this Work wrote in an earlier life.
CreateMove(w, r) == /\ Writes(w, Me(w))
                    /\ ~Exists(res[r]) /\ Own(r) = {}
                    /\ Own(r)' = {Me(w)} /\ Last(r)' = {Me(w)}
PatchMove(w, r) ==
    /\ r \in BuiltIn /\ Writes(w, Me(w))
    /\ Patches(w, r) /\ Exists(res[r])
    /\ Own(r)' \subseteq Own(r) \cup {Me(w)}
    /\ \A o \in Own(r) \ Own(r)' : o # Me(w) /\ (o \in Drops(w) \/ o.work = w)
    /\ Me(w) \in Own(r)' \/ (Me(w) \in Read(w) /\ Me(w) \notin Own(r))
    /\ Last(r)' \subseteq Read(w) \cup {Me(w)}
ReplaceMove(w, r) == /\ r \notin BuiltIn /\ Exists(res[r])
                     /\ Own(r)' = Own(r) \/ Own(r)' # {}
DeleteMove(w, r) == Deletes(w, r) /\ Own(r)' = {} /\ Last(r)' = {} /\ ~Exists(res[r])'
ReleaseMove(w, r) ==
    /\ Own(r)' \subseteq Own(r) /\ Own(r)' # {} /\ Last(r)' = Last(r)
    /\ Exists(res[r])' => Exists(res[r])
    /\ \A o \in Own(r) \ Own(r)' : o.work = w /\ \A p \in Own(r) : p.work = w => p = o
WriteMove(w, r) ==
    /\ SameAnchors /\ AllHold(r) /\ LetsGo(w, r)
    /\ \/ CreateMove(w, r) \/ PatchMove(w, r) \/ ReplaceMove(w, r)
       \/ DeleteMove(w, r) \/ ReleaseMove(w, r)

\* The garbage collector takes off the references to what is gone.
CollectMove(r) ==
    /\ SameAnchors /\ AllHold(r)
    /\ Own(r)' = {o \in Own(r) : o = Anchor(o.work)}
    /\ Exists(res[r])' => Exists(res[r]) /\ Own(r)' # {} /\ Last(r)' = Last(r)
    /\ ~Exists(res[r])' => Last(r)' = {}

\* An AppliedWork is created or deleted.
AnchorMove(w, r) ==
    /\ SameObject(r) /\ AllHold(r) /\ LetsGo(w, r)
    /\ \A v \in Work \ {w} : Anchor(v)' = Anchor(v)
    /\ Anchor(w)'.uid \in {0, lastUid + 1}

Move(r) == \/ \E w \in Work : TakeMove(w, r) \/ WriteMove(w, r) \/ AnchorMove(w, r)
           \/ CollectMove(r) \/ RestMove(r)

LEMMA RestsHold ==
    ASSUME NEW v \in Work, NEW r, Rests(v) \/ pc'[v] \notin Holding
    PROVE  Holds(v, r)
BY DEF Rests, Holds, Patches, Deletes, Read, Drops, Base, Holding

LEMMA ObjectSame == ASSUME NEW r, res'[r] = res[r] PROVE SameObject(r)
BY DEF SameObject, Own, Last, Exists

LEMMA AnchorsSame == ASSUME \A w \in Work : aw'[w].uid = aw[w].uid PROVE SameAnchors
BY DEF SameAnchors, Anchor

\* Steps of others than the reconciles.
LEMMA AsideMove ==
    ASSUME TypeInv, NEW r,
           \/ \E w \in Work : Reconcile(w) \/ AbandonSync(w) \/ CacheSync(w) \/ User(w)
           \/ Restart \/ UNCHANGED vars
    PROVE  RestMove(r)
<1>1. UNCHANGED <<aw, res>>
  BY DEF Reconcile, AbandonSync, CacheSync, User, CreateWork, EditWork, DeleteWork,
         UserStores, Restart, spokeVars, vars
<1>2. \A v \in Work : Holds(v, r)
  BY AsideRests, OthersRest, RestsHold DEF Aside, Restart, Holding, Applying
<1> QED
  BY <1>1, <1>2, ObjectSame, AnchorsSame DEF RestMove, AllHold

LEMMA EditMove ==
    ASSUME TypeInv, NEW r \in Resource, NEW q \in Resource, TamperEditObject(q)
    PROVE  RestMove(r)
<1>1. UNCHANGED <<pc, job, aw>>
  BY DEF TamperEditObject, ThirdParty
<1>2. SameObject(r)
  <2>1. PICK c \in Content : res' = [res EXCEPT ![q].content = c]
    BY DEF TamperEditObject
  <2> DEFINE new == [res[q] EXCEPT !.content = c]
  <2>2. new.owners = res[q].owners /\ new.last = res[q].last
    BY DEF TypeInv, TypeOK, Object
  <2>3. Exists(res[q])
    BY DEF TamperEditObject
  <2> HIDE DEF new
  <2>4. res'[r] = IF r = q THEN new ELSE res[r]
    BY <2>1 DEF new, TypeInv, TypeOK
  <2> QED
    BY <2>2, <2>3, <2>4 DEF SameObject, Own, Last, Exists
<1>3. \A v \in Work : Holds(v, r)
  BY <1>1, RestsHold DEF Rests
<1> QED
  BY <1>1, <1>2, <1>3, AnchorsSame DEF RestMove, AllHold

LEMMA CollectsMove ==
    ASSUME TypeInv, NEW r \in Resource, NEW q \in Resource, GarbageCollect(q)
    PROVE  CollectMove(r) \/ RestMove(r)
<1>1. UNCHANGED <<pc, job, aw>>
  BY DEF GarbageCollect
<1>2. SameAnchors /\ AllHold(r)
  BY <1>1, AnchorsSame, RestsHold DEF Rests, AllHold
<1> DEFINE live == LiveOwners(res[q])
           new == [res[q] EXCEPT !.owners = live]
<1>3. /\ res[q] \in Object
      /\ new.owners = live /\ new.last = res[q].last /\ new.content = res[q].content
  BY DEF TypeInv, TypeOK, Object
<1>4. res'[r] = IF r = q THEN IF live = {} THEN NoObject ELSE new ELSE res[r]
  BY DEF GarbageCollect, TypeInv, TypeOK
<1>5. live = {o \in res[q].owners : o = Anchor(o.work)}
  <2>1. \A o \in res[q].owners : aw[o.work].uid = o.uid <=> o = Anchor(o.work)
    BY <1>3 DEF Object, Owner, Anchor
  <2> QED
    BY <2>1 DEF LiveOwners
<1>6. NoObject.owners = {} /\ NoObject.last = {} /\ ~Exists(NoObject)
  BY DEF NoObject, Exists
<1>9. Exists(res[q])
  BY DEF GarbageCollect, LiveOwners, TypeInv, TypeOK, NoObject
<1> HIDE DEF live, new
<1>7. CASE r = q
  <2>1. CASE live = {}
    BY <1>2, <1>4, <1>5, <1>6, <1>7, <2>1 DEF CollectMove, Own, Last, Exists
  <2>2. CASE live # {}
    BY <1>2, <1>3, <1>4, <1>5, <1>7, <1>9, <2>2 DEF CollectMove, Own, Last, Exists
  <2> QED
    BY <2>1, <2>2
<1>8. CASE r # q
  BY <1>2, <1>4, <1>8, ObjectSame DEF RestMove
<1> QED
  BY <1>7, <1>8

\* The calls of a reconcile.
LEMMA StepHolds ==
    ASSUME TypeInv, NEW w \in Work, NEW reply \in Reply, Step(w, reply), NEW r
    PROVE  /\ \A v \in Work \ {w} : Holds(v, r)
           /\ pc'[w] \notin Holding => AllHold(r) /\ LetsGo(w, r)
BY StepRests, RestsHold DEF AllHold, LetsGo, Patches, Deletes, Holding

LEMMA QuietMove ==
    ASSUME TypeInv, NEW w \in Work, NEW reply \in Reply, NEW r,
           \/ GetAppliedWork(w, reply) \/ AddFinalizer(w, reply)
           \/ UpdateWorkStatus(w, reply)
           \/ \E q \in Resource : GetNewManifest(w, q, reply)
           \/ RemoveFinalizer(w, reply)
    PROVE  RestMove(r)
<1>1. UNCHANGED <<aw, res>>
  BY DEF GetAppliedWork, AddFinalizer, UpdateWorkStatus, GetNewManifest,
         RemoveFinalizer, spokeVars
<1>2. pc'[w] \notin Holding
  <2>1. CASE GetAppliedWork(w, reply) \/ AddFinalizer(w, reply)
    BY <2>1, EnsureLocal DEF EnsureMoves, Ends, Holding
  <2>2. CASE UpdateWorkStatus(w, reply)
    BY <2>2, UpdateWorkStatusLocal DEF SweepMoves, Ends, UpdateWorkStatus, Holding
  <2>3. CASE \E q \in Resource : GetNewManifest(w, q, reply)
    BY <2>3, GotoAt, ReturnAt DEF GetNewManifest, ReadReply, Holding
  <2>4. CASE RemoveFinalizer(w, reply)
    BY <2>4, LastLocal DEF CollectMoves, Ends, Holding
  <2> QED
    BY <2>1, <2>2, <2>3, <2>4
<1>3. Step(w, reply)
  BY DEF Step
<1> QED
  BY <1>1, <1>2, <1>3, StepHolds, ObjectSame, AnchorsSame DEF RestMove

\* The Gets.
LEMMA GetManifestMove ==
    ASSUME TypeInv, NEW w \in Work, NEW q \in Resource, NEW reply \in Reply,
           GetManifest(w, q, reply), NEW r
    PROVE  TakeMove(w, r) \/ RestMove(r)
<1> DEFINE read == [job[w] EXCEPT !.at = q, !.cur = res[q]]
<1>1. SameObject(r) /\ SameAnchors
  BY ObjectSame, AnchorsSame DEF GetManifest, spokeVars
<1>2. Step(w, reply)
  BY DEF Step
<1>3. read.at = q /\ read.cur = res[q]
  BY JobNow DEF Job
<1>4. \/ Goto(w, "createObject", read)
      \/ Goto(w, "patch", read) /\ Managed(res[q])
      \/ Goto(w, "apply", Applied(w, q)) \/ Goto(w, "apply", NotApplied(w, q))
  BY DEF GetManifest, ReadReply, Managed
<1> HIDE DEF read
<1>5. CASE Goto(w, "patch", read) /\ Managed(res[q]) /\ q = r
  <2>1. pc'[w] = "patch" /\ job'[w].cur = res[r]
    BY <1>3, <1>5, GotoAt
  <2>2. TakesToPatch(w, r)
    BY <1>5, <2>1 DEF TakesToPatch, Read, Base, Drops, Own, Last, Deletes, Managed
  <2> QED
    BY <1>1, <1>2, <2>2, StepHolds DEF TakeMove
<1>6. CASE Goto(w, "patch", read) /\ q # r
  <2>1. job'[w].at = q /\ pc'[w] = "patch"
    BY <1>3, <1>6, GotoAt
  <2>2. Holds(w, r)
    BY <1>6, <2>1 DEF Holds, Patches, Deletes
  <2> QED
    BY <1>1, <1>2, <2>2, StepHolds DEF RestMove, AllHold
<1>7. CASE pc'[w] \notin Holding
  BY <1>1, <1>2, <1>7, StepHolds DEF RestMove
<1> QED
  BY <1>4, <1>5, <1>6, <1>7, GotoAt DEF Holding

LEMMA GetStaleManifestMove ==
    ASSUME TypeInv, NEW w \in Work, NEW q \in Resource, NEW reply \in Reply,
           GetStaleManifest(w, q, reply), NEW r
    PROVE  TakeMove(w, r) \/ RestMove(r)
<1> DEFINE next == [job[w] EXCEPT !.stale = @ \ {q}]
           failed == [next EXCEPT !.failed = TRUE]
           read == [next EXCEPT !.at = q, !.cur = res[q]]
           owned == IsOwner(res[q].owners, Me(w))
           others == RemainingOwners(res[q].owners, Me(w))
<1>1. SameObject(r) /\ SameAnchors
  BY ObjectSame, AnchorsSame DEF GetStaleManifest, spokeVars
<1>2. Step(w, reply)
  BY DEF Step
<1>3. read.at = q
  BY JobNow DEF Job
<1>4. /\ reply \in {"error", "answer"}
      /\ CASE reply = "error" -> Goto(w, "sync", failed)
           [] reply = "answer" /\ ~owned -> Goto(w, "sync", next)
           [] reply = "answer" /\ owned /\ others = {} -> Goto(w, "deleteObject", read)
           [] reply = "answer" /\ owned /\ others # {} -> Goto(w, "release", read)
  BY DEF GetStaleManifest, ReadReply
<1>5. owned /\ others = {} => \E o : res[q].owners = {o} /\ o.work = w
  <2> SUFFICES ASSUME owned, others = {} PROVE \E o : res[q].owners = {o} /\ o.work = w
    OBVIOUS
  <2>1. PICK o \in res[q].owners : o.work = w
    BY DEF IsOwner, SameOwner, Me
  <2>2. res[q].owners \ {o} = {}
    BY <2>1 DEF RemainingOwners, SameOwner, Me
  <2> QED
    BY <2>1, <2>2
<1> HIDE DEF next, failed, read, owned, others
<1>6. \/ Goto(w, "sync", failed) \/ Goto(w, "sync", next)
      \/ owned /\ others = {} /\ Goto(w, "deleteObject", read)
      \/ Goto(w, "release", read)
  BY <1>4
<1>7. CASE owned /\ others = {} /\ Goto(w, "deleteObject", read) /\ q = r
  <2>1. TakesToDelete(w, r)
    BY <1>5, <1>7, GotoAt DEF TakesToDelete, Own, Patches
  <2> QED
    BY <1>1, <1>2, <2>1, StepHolds DEF TakeMove
<1>8. CASE Goto(w, "release", read) \/ (Goto(w, "deleteObject", read) /\ q # r)
  <2>1. Holds(w, r)
    BY <1>3, <1>8, GotoAt DEF Holds, Patches, Deletes
  <2> QED
    BY <1>1, <1>2, <2>1, StepHolds DEF RestMove, AllHold
<1>9. CASE pc'[w] \notin Holding
  BY <1>1, <1>2, <1>9, StepHolds DEF RestMove
<1> QED
  BY <1>6, <1>7, <1>8, <1>9, GotoAt DEF Holding

\* The calls that make and unmake AppliedWorks.
LEMMA AnchorsMove ==
    ASSUME TypeInv, NEW w \in Work, NEW reply \in Reply, NEW r,
           \/ CreateAppliedWork(w, reply) \/ UpdateAppliedWork(w, reply)
           \/ DeleteAppliedWork(w, reply)
    PROVE  AnchorMove(w, r) \/ RestMove(r)
<1>1. SameObject(r)
  BY ObjectSame DEF CreateAppliedWork, UpdateAppliedWork, DeleteAppliedWork
<1>2. AllHold(r) /\ LetsGo(w, r)
  <2>1. pc'[w] \notin Holding
    BY EnsureLocal, LastLocal DEF EnsureMoves, CollectMoves, Ends, Holding
  <2> QED
    BY <2>1, StepHolds DEF Step
<1>3. \A v \in Work \ {w} : aw'[v] = aw[v]
  BY DEF CreateAppliedWork, UpdateAppliedWork, DeleteAppliedWork, TypeInv, TypeOK
<1>4. aw'[w].uid \in {aw[w].uid, 0, lastUid + 1}
  BY NextAppliedWork DEF AppliedWorkStep, Next, Step
<1> QED
  BY <1>1, <1>2, <1>3, <1>4, AnchorsSame DEF AnchorMove, RestMove, SameAnchors, Anchor

\* The writes.
LEMMA CreateManifestMove ==
    ASSUME TypeInv, NEW w \in Work, NEW reply \in Reply, CreateManifest(w, reply),
           NEW r \in Resource
    PROVE  WriteMove(w, r) \/ RestMove(r)
<1> DEFINE q == job[w].at
           new == [content |-> Wanted(w), owners |-> {Me(w)}, last |-> {Me(w)},
                   hash |-> {<<Me(w), Wanted(w)>>}]
<1>1. SameAnchors /\ AllHold(r) /\ LetsGo(w, r)
  <2>1. pc'[w] = "apply" /\ UNCHANGED aw
    BY GotoAt DEF CreateManifest
  <2> QED
    BY <2>1, StepHolds, AnchorsSame DEF Step, Holding
<1>2. new.owners = {Me(w)} /\ new.last = {Me(w)}
  OBVIOUS
<1>3. \/ res' = res
      \/ res' = [res EXCEPT ![q] = new] /\ ~Exists(res[q]) /\ Writes(w, Me(w))
  BY DEF CreateManifest, Writes, Applying
<1> HIDE DEF new
<1>4. CASE res'[r] = res[r]
  BY <1>1, <1>4, ObjectSame DEF RestMove
<1>5. CASE res'[r] = new /\ q = r /\ ~Exists(res[q]) /\ Writes(w, Me(w))
  <2>1. Own(r) = {}
    BY <1>5 DEF Own, TypeInv, TypeOK, NoObject
  <2>2. CreateMove(w, r)
    BY <1>2, <1>5, <2>1 DEF CreateMove, Own, Last, Writes, Me
  <2> QED
    BY <1>1, <2>2 DEF WriteMove
<1> QED
  BY <1>3, <1>4, <1>5 DEF TypeInv, TypeOK

LEMMA MergedOwnersFacts ==
    ASSUME NEW owners, NEW me, NEW merged \in MergedOwners(owners, me)
    PROVE  /\ me \in merged /\ merged \subseteq owners \cup {me}
           /\ \A o \in owners \ merged : o # me /\ o.work = me.work
BY DEF MergedOwners, SameOwner

LEMMA PatchManifestMove ==
    ASSUME TypeInv, NEW w \in Work, NEW reply \in Reply, PatchManifest(w, reply),
           NEW r \in Resource
    PROVE  WriteMove(w, r) \/ RestMove(r)
<1> DEFINE q == job[w].at
           cur == job[w].cur
           new(m) == Patched(q, Wanted(w), Me(w), m, cur, res[q])
<1>1. SameAnchors /\ AllHold(r) /\ LetsGo(w, r)
  <2>1. pc'[w] = "apply" /\ UNCHANGED aw
    BY GotoAt DEF PatchManifest
  <2> QED
    BY <2>1, StepHolds, AnchorsSame DEF Step, Holding
<1>2. \/ res' = res
      \/ /\ Exists(res[q]) /\ Patches(w, q) /\ Writes(w, Me(w))
         /\ \E m \in MergedOwners(cur.owners, Me(w)) : res' = [res EXCEPT ![q] = new(m)]
  BY DEF PatchManifest, Patchable, Patches, Writes, Applying
<1>3. CASE res'[r] = res[r]
  BY <1>1, <1>3, ObjectSame DEF RestMove
<1>4. ASSUME q = r, Exists(res[r]), Patches(w, r), Writes(w, Me(w)),
             NEW m \in MergedOwners(cur.owners, Me(w)), res'[r] = new(m)
      PROVE  WriteMove(w, r)
  <2>1. /\ new(m).owners = PatchedOwners(r, m, cur, res[r])
        /\ new(m).last = m
    BY <1>4 DEF Patched
  <2> HIDE DEF new
  <2>2. /\ Own(r)' = PatchedOwners(r, m, cur, res[r])
        /\ Last(r)' = m
    BY <1>4, <2>1 DEF Own, Last
  <2>3. CASE r \in BuiltIn
    <3>1. PatchedOwners(r, m, cur, res[r])
              = (res[r].owners \ (cur.last \ m)) \cup (m \ cur.owners)
      BY <2>3 DEF PatchedOwners
    <3>2. /\ Me(w) \in m /\ m \subseteq cur.owners \cup {Me(w)}
          /\ \A o \in cur.owners \ m : o # Me(w) /\ o.work = Me(w).work
      BY <1>4, MergedOwnersFacts
    <3>4. Me(w).work = w
      BY DEF Me
    <3>3. PatchMove(w, r)
      BY <1>4, <2>2, <2>3, <3>1, <3>2, <3>4 DEF PatchMove, Own, Read, Base, Drops
    <3> QED
      BY <1>1, <3>3 DEF WriteMove
  <2>4. CASE r \notin BuiltIn
    <3>1. Me(w) \in m
      BY <1>4 DEF MergedOwners
    <3>2. ReplaceMove(w, r)
      BY <1>4, <2>2, <2>4, <3>1 DEF ReplaceMove, PatchedOwners, Own
    <3> QED
      BY <1>1, <3>2 DEF WriteMove
  <2> QED
    BY <2>3, <2>4
<1> HIDE DEF new
<1> QED
  BY <1>2, <1>3, <1>4 DEF TypeInv, TypeOK

LEMMA DeleteStaleManifestMove ==
    ASSUME TypeInv, NEW w \in Work, NEW reply \in Reply, DeleteStaleManifest(w, reply),
           NEW r \in Resource
    PROVE  WriteMove(w, r) \/ RestMove(r)
<1>1. SameAnchors /\ AllHold(r) /\ LetsGo(w, r)
  <2>1. pc'[w] = "sync" /\ UNCHANGED aw
    BY GotoAt DEF DeleteStaleManifest
  <2> QED
    BY <2>1, StepHolds, AnchorsSame DEF Step, Holding
<1>2. res'[r] = res[r] \/ (Deletes(w, r) /\ res'[r] = NoObject)
  BY DEF DeleteStaleManifest, Deletes, TypeInv, TypeOK
<1>3. NoObject.owners = {} /\ NoObject.last = {} /\ ~Exists(NoObject)
  BY DEF NoObject, Exists
<1>4. CASE res'[r] = res[r]
  BY <1>1, <1>4, ObjectSame DEF RestMove
<1>5. CASE Deletes(w, r) /\ res'[r] = NoObject
  <2>1. DeleteMove(w, r)
    BY <1>3, <1>5 DEF DeleteMove, Own, Last, Exists
  <2> QED
    BY <1>1, <2>1 DEF WriteMove
<1> QED
  BY <1>2, <1>4, <1>5

LEMMA ReleaseStaleManifestMove ==
    ASSUME TypeInv, ReleaseInv, NEW w \in Work, NEW reply \in Reply,
           ReleaseStaleManifest(w, reply), NEW r \in Resource
    PROVE  WriteMove(w, r) \/ RestMove(r)
<1> DEFINE q == job[w].at
           rest == RemainingOwners(res[q].owners, Me(w))
           new == [res[q] EXCEPT !.owners = rest]
<1>1. SameAnchors /\ AllHold(r) /\ LetsGo(w, r)
  <2>1. pc'[w] = "sync" /\ UNCHANGED aw
    BY GotoAt DEF ReleaseStaleManifest
  <2> QED
    BY <2>1, StepHolds, AnchorsSame DEF Step, Holding
<1>2. \/ res' = res
      \/ res' = [res EXCEPT ![q] = new] /\ rest # {}
  BY DEF ReleaseStaleManifest, Unchanged, ReleaseInv, ReadShared
<1>3. CASE res'[r] = res[r]
  BY <1>1, <1>3, ObjectSame DEF RestMove
<1>4. CASE q = r /\ res'[r] = new /\ rest # {}
  <2>1. new.owners = rest /\ new.last = res[r].last /\ new.content = res[r].content
    BY <1>4 DEF TypeInv, TypeOK, Object
  <2>2. \A o \in res[r].owners \ rest :
            o.work = w /\ \A p \in res[r].owners : p.work = w => p = o
    <3>1. \A o, p \in res[r].owners : p.work = w /\ p # o => o \in rest
      BY <1>4 DEF RemainingOwners, SameOwner, Me
    <3>2. \E p \in res[r].owners : p.work = w
      BY <1>4 DEF RemainingOwners, SameOwner, Me
    <3> HIDE DEF rest
    <3> QED
      BY <3>1, <3>2
  <2>3. rest \subseteq res[r].owners
    BY <1>4, RemainingOwnersBound
  <2> HIDE DEF rest, new
  <2>4. ReleaseMove(w, r)
    BY <1>4, <2>1, <2>2, <2>3 DEF ReleaseMove, Own, Last, Exists
  <2> QED
    BY <1>1, <2>4 DEF WriteMove
<1> HIDE DEF new, rest
<1> QED
  BY <1>2, <1>3, <1>4 DEF TypeInv, TypeOK

LEMMA NextMove ==
    ASSUME TypeInv, ReleaseInv, [Next]_vars, NEW r \in Resource,
           "createObject" \notin Tampering
    PROVE  \/ Move(r)
           \/ \E q \in Resource : TamperDeleteObject(q)
           \/ \E w \in Work : TamperDeleteAppliedWork(w)
<1>1. ASSUME NEW w \in Work, NEW reply \in Reply, Step(w, reply)
      PROVE  Move(r)
  <2>1. ASSUME TakeMove(w, r) \/ WriteMove(w, r) \/ AnchorMove(w, r) \/ RestMove(r)
        PROVE  Move(r)
    BY <2>1 DEF Move
  <2> QED
    BY <1>1, <2>1, QuietMove, AnchorsMove, GetManifestMove, GetStaleManifestMove,
       CreateManifestMove, PatchManifestMove, DeleteStaleManifestMove,
       ReleaseStaleManifestMove DEF Step
<1>2. \A q \in Resource : ~TamperCreateObject(q)
  BY DEF TamperCreateObject, ThirdParty
<1> QED
  BY <1>1, <1>2, AsideMove, EditMove, CollectsMove DEF Next, Tamper, Move

-----------------------------------------------------------------------------
(* Custom resources. A merge patch replaces the list of owners, or leaves  *)
(* it as it is, and never writes an empty one.                             *)

OwnedObject(r) == Exists(res[r]) => Own(r) # {}

LEMMA NextOwnedObject ==
    ASSUME NEW r, r \notin BuiltIn, OwnedObject(r), Move(r)
    PROVE  OwnedObject(r)'
<1>1. ASSUME SameObject(r)
      PROVE  OwnedObject(r)'
  BY <1>1 DEF SameObject, OwnedObject
<1>2. ASSUME NEW u \in Work, WriteMove(u, r)
      PROVE  OwnedObject(r)'
  BY <1>2 DEF WriteMove, CreateMove, PatchMove, ReplaceMove, DeleteMove, ReleaseMove,
              OwnedObject
<1>3. CollectMove(r) => OwnedObject(r)'
  BY DEF CollectMove, OwnedObject
<1> QED
  BY <1>1, <1>2, <1>3 DEF Move, TakeMove, AnchorMove, RestMove

LEMMA OwnedIsEnough ==
    ASSUME TypeInv, NEW r \in Resource, OwnedObject(r), res[r].hash # {}
    PROVE  res[r].owners # {}
BY DEF TypeInv, TypeOK, NoObject, OwnedObject, Own

\* An object of a custom resource that the controller wrote has an owner, for any
\* number of Works, whatever third parties edit or delete, unless they may create
\* an object under the name that a patch is on its way to.
THEOREM CustomObjectsKeepAnOwner ==
    ASSUME "createObject" \notin Tampering
    PROVE  SafeSpec => [](\A r \in Resource \ BuiltIn :
                              res[r].hash # {} => res[r].owners # {})
<1> DEFINE Inv == \A r \in Resource \ BuiltIn : OwnedObject(r)
<1>1. Init => Inv
  BY DEF Init, OwnedObject, NoObject, Exists
<1>2. TypeInv /\ ReleaseInv /\ Inv /\ [Next]_vars => Inv'
  <2> SUFFICES ASSUME TypeInv, ReleaseInv, Inv, [Next]_vars, NEW r \in Resource \ BuiltIn
               PROVE  OwnedObject(r)'
    OBVIOUS
  <2>1. CASE Move(r)
    BY <2>1, NextOwnedObject
  <2>2. ASSUME NEW q \in Resource, TamperDeleteObject(q)
        PROVE  OwnedObject(r)'
    <3>1. res'[r] = res[r] \/ res'[r] = NoObject
      BY <2>2 DEF TamperDeleteObject, TypeInv, TypeOK
    <3> QED
      BY <3>1 DEF OwnedObject, Own, NoObject, Exists
  <2>3. ASSUME NEW w \in Work, TamperDeleteAppliedWork(w)
        PROVE  OwnedObject(r)'
    BY <2>3 DEF TamperDeleteAppliedWork, OwnedObject, Own
  <2> QED
    BY <2>1, <2>2, <2>3, NextMove
<1>3. TypeInv /\ Inv =>
          \A r \in Resource \ BuiltIn : res[r].hash # {} => res[r].owners # {}
  BY OwnedIsEnough
<1> HIDE DEF Inv
<1> QED
  BY <1>1, <1>2, <1>3, ReleaseInvariant, PTL DEF SafeSpec

-----------------------------------------------------------------------------
(* Built-in resources. A strategic merge patch edits the list of owners;   *)
(* what it takes off and what it leaves out goes by lists that were read   *)
(* before. The invariant says why, of two Works, one always stays.         *)

\* No owner of the object is of an earlier life of v.
Clean(v, r) == \A o \in Own(r) : o.work = v => o = Anchor(v)

\* The call that v has decided on takes the reference of w off.
Threatens(v, w, r) == Deletes(v, r) \/ (Patches(v, r) /\ Anchor(w) \in Drops(v))

\* The patch of w will not bring back the reference that it has read.
Lost(w, r) == Patches(w, r) /\ Anchor(w) \in Read(w) /\ Anchor(w) \notin Own(r)

\* Where the reference of a Work was applied last or read, and is no longer there, the
\* object has none to an earlier life of the Work; nor if a patch will take it off.
LostInv(r) == \A v \in Work :
    /\ Anchor(v) \in Last(r) /\ Anchor(v) \notin Own(r) => Clean(v, r)
    /\ \A w \in Work : Patches(w, r) =>
           /\ Anchor(v) \in Read(w) /\ Anchor(v) \notin Own(r) => Clean(v, r)
           /\ Anchor(v) \in Drops(w) => Clean(v, r)

\* Of two Works, one that is about to take off the reference of the other still has
\* its own, if it was applied last or the other has read it; one that will not bring
\* its own back, gone or about to be, does not take off the other's; and not both have
\* lost theirs.
ThreatInv(r) == \A v, w \in Work : v # w =>
    /\ Threatens(v, w, r) =>
           /\ Anchor(v) \in Last(r) => Anchor(v) \in Own(r)
           /\ Patches(w, r) /\ Anchor(v) \in Read(w) => Anchor(v) \in Own(r)
    /\ Patches(w, r) /\ Anchor(w) \in Read(w)
       /\ (Threatens(v, w, r) \/ Anchor(w) \notin Own(r)) => Anchor(v) \notin Drops(w)
    /\ ~(Lost(v, r) /\ Lost(w, r))

\* A Work whose patch does not bring its reference back leaves another one on.
RescueInv(r) == \A w \in Work :
    Lost(w, r) /\ Exists(res[r]) => \E o \in Own(r) : o.work # w /\ o \notin Drops(w)
SharedInv(r) == LostInv(r) /\ ThreatInv(r) /\ RescueInv(r) /\ OwnedObject(r)

\* No list has the reference to an AppliedWork that is still to be created.
SeenInv(r) == /\ \A o \in Last(r) : o.uid <= lastUid
              /\ \A w \in Work : Patches(w, r) => \A o \in Drops(w) : o.uid <= lastUid

AtMostTwo == \A u, v, w \in Work : u = v \/ v = w \/ u = w
OwnRefs(r) == \A o \in Own(r) : o.work \in Work
AnchorRefs == \A w \in Work : Anchor(w).work = w

LEMMA OwnTypes ==
    ASSUME TypeInv, OwnedInv, NEW r \in Resource
    PROVE  /\ lastUid \in Nat /\ AnchorRefs /\ OwnRefs(r)
           /\ \A o \in Own(r) \cup Last(r) : o \in Owner
           /\ \A w \in Work : \A o \in Read(w) \cup Drops(w) : o \in Owner
           /\ \A o \in Own(r) : o.uid <= lastUid
           /\ \A w \in Work : /\ Me(w).work = w /\ Me(w).uid <= lastUid
                             /\ \A o \in Read(w) : o.uid <= lastUid
<1>1. res[r] \in Object /\ \A w \in Work : job[w].cur \in Object
  BY DEF TypeInv, TypeOK, Job
<1>2. /\ \A o \in res[r].owners : o.uid <= lastUid
      /\ \A w \in Work : /\ job[w].uid <= lastUid
                        /\ \A o \in job[w].cur.owners : o.uid <= lastUid
  BY DEF OwnedInv, OwnersInv, RefInv
<1>3. lastUid \in Nat
  BY DEF TypeInv, TypeOK
<1> QED
  BY <1>1, <1>2, <1>3 DEF Object, Owner, AnchorRefs, OwnRefs, Anchor, Me, Own, Last,
                          Read, Base, Drops

LEMMA NextSeen ==
    ASSUME TypeInv, TypeInv', OwnedInv, NEW r \in BuiltIn, SeenInv(r), Move(r),
           AppliedWorkStep
    PROVE  SeenInv(r)'
<1>1. r \in Resource
  OBVIOUS
<1>2. \A o \in Owner : o.uid <= lastUid => o.uid <= lastUid'
  BY <1>1, OwnTypes DEF AppliedWorkStep, Owner
<1>3. \A o \in Last(r)' : o \in Owner
  BY DEF TypeInv, TypeOK, Object, Last
<1>4. \A w \in Work : \A o \in Drops(w)' : o \in Owner
  BY DEF TypeInv, TypeOK, Job, Object, Drops, Base
<1>5. \A o \in Last(r)' : o.uid <= lastUid
  <2>1. \/ Last(r)' \subseteq Last(r)
        \/ \E w \in Work : Last(r)' \subseteq Last(r) \cup Read(w) \cup {Me(w)}
    BY DEF Move, TakeMove, AnchorMove, RestMove, SameObject, CollectMove, WriteMove,
           CreateMove, PatchMove, ReplaceMove, DeleteMove, ReleaseMove
  <2> QED
    BY <1>1, <2>1, OwnTypes DEF SeenInv
<1>6. ASSUME NEW w \in Work, Patches(w, r)'
      PROVE  \A o \in Drops(w)' : o.uid <= lastUid
  <2>1. Holds(w, r) \/ TakesToPatch(w, r)
    BY <1>6 DEF Move, TakeMove, WriteMove, AnchorMove, CollectMove, RestMove, AllHold,
                TakesToDelete
  <2> QED
    BY <1>6, <2>1 DEF Holds, TakesToPatch, SeenInv
<1> QED
  BY <1>2, <1>3, <1>4, <1>5, <1>6 DEF SeenInv

\* The invariant is kept, move by move.
LEMMA RestShared ==
    ASSUME NEW r, SharedInv(r), RestMove(r)
    PROVE  SharedInv(r)'
<1>1. LostInv(r)'
  BY DEF SharedInv, LostInv, Clean, RestMove, SameObject, SameAnchors, AllHold, Holds
<1>2. ThreatInv(r)'
  BY DEF SharedInv, ThreatInv, Threatens, Lost, RestMove, SameObject, SameAnchors,
         AllHold, Holds
<1>3. RescueInv(r)' /\ OwnedObject(r)'
  BY DEF SharedInv, RescueInv, OwnedObject, Lost, RestMove, SameObject, SameAnchors,
         AllHold, Holds
<1> QED
  BY <1>1, <1>2, <1>3 DEF SharedInv

LEMMA TakeLost ==
    ASSUME NEW r, SharedInv(r), AnchorRefs, NEW u \in Work, TakeMove(u, r)
    PROVE  LostInv(r)'
BY DEF SharedInv, LostInv, TakeMove, SameObject, SameAnchors, Holds, TakesToPatch,
       TakesToDelete, Clean, AnchorRefs

LEMMA TakeThreat ==
    ASSUME NEW r, SharedInv(r), AnchorRefs, OwnRefs(r), AtMostTwo, NEW u \in Work,
           TakeMove(u, r)
    PROVE  ThreatInv(r)'
BY DEF SharedInv, LostInv, ThreatInv, TakeMove, SameObject, SameAnchors, Holds,
       TakesToPatch, TakesToDelete, Clean, AnchorRefs, OwnRefs, AtMostTwo, Threatens,
       Lost

LEMMA TakeRescue ==
    ASSUME NEW r, SharedInv(r), AnchorRefs, NEW u \in Work, TakeMove(u, r)
    PROVE  RescueInv(r)' /\ OwnedObject(r)'
BY DEF SharedInv, RescueInv, OwnedObject, TakeMove, SameObject, SameAnchors, Holds,
       TakesToPatch, TakesToDelete, AnchorRefs, Lost

LEMMA AnchorShared ==
    ASSUME NEW r, SharedInv(r), AnchorRefs, OwnRefs(r), NEW u \in Work,
           AnchorMove(u, r),
           Anchor(u)' \notin Own(r) \cup Last(r),
           \A v \in Work : Patches(v, r) => Anchor(u)' \notin Read(v) \cup Drops(v)
    PROVE  SharedInv(r)'
<1>1. LostInv(r)'
  BY DEF SharedInv, LostInv, Clean, AnchorMove, SameObject, AllHold, Holds, LetsGo
<1>2. ThreatInv(r)'
  BY DEF SharedInv, ThreatInv, Threatens, Lost, AnchorMove, SameObject, AllHold, Holds,
         LetsGo
<1>3. RescueInv(r)' /\ OwnedObject(r)'
  BY DEF SharedInv, RescueInv, OwnedObject, Lost, AnchorMove, SameObject, AllHold,
         Holds, LetsGo
<1> QED
  BY <1>1, <1>2, <1>3 DEF SharedInv

LEMMA CollectShared ==
    ASSUME NEW r, SharedInv(r), AnchorRefs, OwnRefs(r), AtMostTwo, CollectMove(r)
    PROVE  SharedInv(r)'
<1>1. LostInv(r)'
  BY DEF SharedInv, LostInv, Clean, CollectMove, SameAnchors, AllHold, Holds, AnchorRefs
<1>2. ThreatInv(r)'
  BY DEF SharedInv, ThreatInv, Threatens, Lost, CollectMove, SameAnchors, AllHold,
         Holds, AnchorRefs
<1>3. RescueInv(r)' /\ OwnedObject(r)'
  BY DEF SharedInv, ThreatInv, RescueInv, OwnedObject, Lost, CollectMove, SameAnchors,
         AllHold, Holds, AnchorRefs, OwnRefs
<1> QED
  BY <1>1, <1>2, <1>3 DEF SharedInv

LEMMA CreateShared ==
    ASSUME NEW r, SharedInv(r), AnchorRefs, AtMostTwo, NEW u \in Work, WriteMove(u, r),
           CreateMove(u, r), Me(u) = Anchor(u)
    PROVE  SharedInv(r)'
<1>1. LostInv(r)'
  BY DEF SharedInv, LostInv, Clean, WriteMove, CreateMove, SameAnchors, AllHold, Holds,
         LetsGo, AnchorRefs
<1>2. ThreatInv(r)'
  BY DEF SharedInv, ThreatInv, Threatens, Lost, WriteMove, CreateMove, SameAnchors,
         AllHold, Holds, LetsGo, AnchorRefs
<1>3. RescueInv(r)' /\ OwnedObject(r)'
  BY DEF SharedInv, ThreatInv, RescueInv, OwnedObject, Lost, WriteMove, CreateMove,
         SameAnchors, AllHold, Holds, LetsGo, AnchorRefs
<1> QED
  BY <1>1, <1>2, <1>3 DEF SharedInv

LEMMA DeleteShared ==
    ASSUME NEW r, SharedInv(r), AnchorRefs, AtMostTwo, NEW u \in Work, WriteMove(u, r),
           DeleteMove(u, r)
    PROVE  SharedInv(r)'
<1>1. LostInv(r)'
  BY DEF SharedInv, LostInv, Clean, WriteMove, DeleteMove, SameAnchors, AllHold, Holds,
         LetsGo, AnchorRefs
<1>2. ThreatInv(r)'
  BY DEF SharedInv, ThreatInv, Threatens, Lost, WriteMove, DeleteMove, SameAnchors,
         AllHold, Holds, LetsGo, AnchorRefs, AtMostTwo
<1>3. RescueInv(r)' /\ OwnedObject(r)'
  BY DEF SharedInv, ThreatInv, RescueInv, OwnedObject, Lost, WriteMove, DeleteMove,
         SameAnchors, AllHold, Holds, LetsGo, AnchorRefs
<1> QED
  BY <1>1, <1>2, <1>3 DEF SharedInv

LEMMA ReleaseShared ==
    ASSUME NEW r, SharedInv(r), AnchorRefs, OwnRefs(r), AtMostTwo, NEW u \in Work,
           WriteMove(u, r), ReleaseMove(u, r)
    PROVE  SharedInv(r)'
<1>1. LostInv(r)'
  BY DEF SharedInv, LostInv, Clean, WriteMove, ReleaseMove, SameAnchors, AllHold, Holds,
         LetsGo, AnchorRefs
<1>2. ThreatInv(r)'
  BY DEF SharedInv, ThreatInv, Threatens, Lost, WriteMove, ReleaseMove, SameAnchors,
         AllHold, Holds, LetsGo, AnchorRefs, AtMostTwo
<1>3. RescueInv(r)' /\ OwnedObject(r)'
  BY DEF SharedInv, LostInv, Clean, ThreatInv, RescueInv, OwnedObject, Lost, WriteMove,
         ReleaseMove, SameAnchors, AllHold, Holds, LetsGo, AnchorRefs, OwnRefs,
         AtMostTwo
<1> QED
  BY <1>1, <1>2, <1>3 DEF SharedInv

LEMMA PatchShared ==
    ASSUME NEW r, SharedInv(r), AnchorRefs, OwnRefs(r), AtMostTwo, NEW u \in Work,
           WriteMove(u, r), PatchMove(u, r), Me(u) = Anchor(u)
    PROVE  SharedInv(r)'
<1>1. ASSUME NEW v \in Work, Anchor(v) \in Own(r), Anchor(v) \notin Own(r)'
      PROVE  v # u /\ Anchor(v) \in Drops(u) /\ Anchor(v) \notin Read(u)
  BY <1>1 DEF PatchMove, Drops, AnchorRefs
<1>2. LostInv(r)'
  <2>1. ASSUME NEW v \in Work, Clean(v, r)
        PROVE  Clean(v, r)'
    BY <2>1 DEF Clean, WriteMove, PatchMove, SameAnchors, AnchorRefs
  <2> QED
    BY <1>1, <2>1 DEF SharedInv, LostInv, Lost, WriteMove, PatchMove, SameAnchors,
                      AllHold, Holds, LetsGo
<1>3. ThreatInv(r)'
  <2> SUFFICES ASSUME NEW v \in Work, NEW w \in Work, v # w
               PROVE  /\ Threatens(v, w, r)' =>
                            /\ Anchor(v)' \in Last(r)' => Anchor(v)' \in Own(r)'
                            /\ Patches(w, r)' /\ Anchor(v)' \in Read(w)'
                               => Anchor(v)' \in Own(r)'
                      /\ Patches(w, r)' /\ Anchor(w)' \in Read(w)'
                         /\ (Threatens(v, w, r)' \/ Anchor(w)' \notin Own(r)')
                            => Anchor(v)' \notin Drops(w)'
                      /\ ~(Lost(v, r)' /\ Lost(w, r)')
    BY DEF ThreatInv
  <2>1. v = u \/ w = u
    BY DEF AtMostTwo
  <2>2. CASE w = u
    BY <1>1, <2>2 DEF SharedInv, ThreatInv, Threatens, Lost, WriteMove, PatchMove,
                      SameAnchors, AllHold, Holds, LetsGo, AnchorRefs
  <2>3. CASE v = u
    BY <1>1, <2>3 DEF SharedInv, ThreatInv, Threatens, Lost, WriteMove, PatchMove,
                      SameAnchors, AllHold, Holds, LetsGo
  <2> QED
    BY <2>1, <2>2, <2>3
<1>4. RescueInv(r)'
  <2> SUFFICES ASSUME NEW w \in Work, Lost(w, r)'
               PROVE  \E o \in Own(r)' : o.work # w /\ o \notin Drops(w)'
    BY DEF RescueInv
  <2>1. /\ w # u /\ Patches(w, r) /\ Anchor(w) \in Read(w) /\ Anchor(w) \notin Own(r)'
        /\ Drops(w)' = Drops(w)
    BY DEF Lost, WriteMove, LetsGo, AllHold, Holds, SameAnchors
  <2>2. Lost(w, r) \/ Anchor(w) \in Drops(u)
    BY <1>1, <2>1 DEF Lost
  <2>3. Anchor(u) \notin Drops(w)
    BY <2>1, <2>2 DEF SharedInv, ThreatInv, Lost, Threatens, PatchMove
  <2>4. ~Lost(u, r)
    BY <2>1, <2>2 DEF SharedInv, ThreatInv, Lost, Threatens, WriteMove, PatchMove
  <2> QED
    BY <2>1, <2>3, <2>4 DEF PatchMove, Lost, AnchorRefs
<1>5. OwnedObject(r)'
  BY DEF SharedInv, ThreatInv, RescueInv, OwnedObject, Threatens, Lost, WriteMove,
         PatchMove, SameAnchors, AllHold, Holds, LetsGo, AnchorRefs, OwnRefs, AtMostTwo
<1> QED
  BY <1>2, <1>3, <1>4, <1>5 DEF SharedInv

LEMMA NextShared ==
    ASSUME TypeInv, OwnedInv, \A w \in Work : Keyed(w), AtMostTwo,
           NEW r \in BuiltIn, SeenInv(r), SharedInv(r), Move(r)
    PROVE  SharedInv(r)'
<1>1. r \in Resource
  OBVIOUS
<1>2. AnchorRefs /\ OwnRefs(r)
  BY <1>1, OwnTypes
<1>3. ASSUME NEW u \in Work, TakeMove(u, r)
      PROVE  SharedInv(r)'
  BY <1>2, <1>3, TakeLost, TakeThreat, TakeRescue DEF SharedInv
<1>4. ASSUME NEW u \in Work, Writes(u, Me(u))
      PROVE  Me(u) = Anchor(u)
  BY <1>4 DEF Writes, Keyed, Me, Anchor
<1>5. ASSUME NEW u \in Work, WriteMove(u, r)
      PROVE  SharedInv(r)'
  <2>1. ~ReplaceMove(u, r)
    BY DEF ReplaceMove
  <2>2. CASE CreateMove(u, r)
    BY <1>2, <1>4, <1>5, <2>2, CreateShared DEF CreateMove
  <2>3. CASE PatchMove(u, r)
    BY <1>2, <1>4, <1>5, <2>3, PatchShared DEF PatchMove
  <2> QED
    BY <1>2, <1>5, <2>1, <2>2, <2>3, DeleteShared, ReleaseShared DEF WriteMove
<1>6. ASSUME NEW u \in Work, AnchorMove(u, r)
      PROVE  SharedInv(r)'
  <2>1. Anchor(u)' = [work |-> u, uid |-> aw'[u].uid]
    BY DEF Anchor
  <2>2. ASSUME NEW o \in Owner, o.uid <= lastUid
        PROVE  o # Anchor(u)'
    BY <1>1, <1>6, <2>1, <2>2, OwnTypes DEF AnchorMove, Owner
  <2>3. /\ Anchor(u)' \notin Own(r) \cup Last(r)
        /\ \A v \in Work : Patches(v, r) => Anchor(u)' \notin Read(v) \cup Drops(v)
    BY <1>1, <2>2, OwnTypes DEF SeenInv
  <2> QED
    BY <1>2, <1>6, <2>3, AnchorShared
<1> QED
  BY <1>2, <1>3, <1>5, <1>6, CollectShared, RestShared DEF Move

\* Whatever the controller wrote has an owner, for at most two Works, as long as third
\* parties neither delete objects or AppliedWorks nor create objects.
THEOREM SharedObjectsKeepAnOwner ==
    ASSUME \A u, v, w \in Work : u = v \/ v = w \/ u = w,
           Tampering \cap {"createObject", "deleteObject", "deleteAppliedWork"} = {}
    PROVE  SafeSpec => []NeverOrphaned
<1> DEFINE Inv == /\ \A w \in Work : Keyed(w)
                  /\ \A r \in BuiltIn : SeenInv(r) /\ SharedInv(r)
<1>1. Init => Inv
  <2> SUFFICES ASSUME Init PROVE Inv
    OBVIOUS
  <2>1. \A w \in Work : Keyed(w)
    BY DEF Init, Keyed, Applying
  <2>2. ASSUME NEW r \in Resource
        PROVE  /\ Own(r) = {} /\ Last(r) = {} /\ ~Exists(res[r])
               /\ \A w \in Work : ~Patches(w, r) /\ ~Deletes(w, r)
    BY <2>2 DEF Init, Own, Last, NoObject, Exists, Patches, Deletes
  <2>3. ASSUME NEW r \in Resource
        PROVE  SeenInv(r) /\ SharedInv(r)
    BY <2>2 DEF SeenInv, SharedInv, LostInv, ThreatInv, RescueInv, OwnedObject,
                Threatens, Lost
  <2> QED
    BY <2>1, <2>3
<1>2. TypeInv /\ OwnedInv /\ ReleaseInv /\ Inv /\ [Next]_vars => Inv'
  <2> SUFFICES ASSUME TypeInv, OwnedInv, ReleaseInv, Inv, [Next]_vars
               PROVE  Inv'
    OBVIOUS
  <2>1. /\ \A w \in Work : ~TamperDeleteAppliedWork(w)
        /\ \A q \in Resource : ~TamperDeleteObject(q)
    BY DEF TamperDeleteAppliedWork, TamperDeleteObject, ThirdParty
  <2>2. \A w \in Work : Keyed(w)'
    BY <2>1, NextKeyed
  <2>3. \A r \in Resource : Move(r)
    BY <2>1, NextMove
  <2>4. \A r \in BuiltIn : SeenInv(r)' /\ SharedInv(r)'
    BY <2>3, NextTypeInv, NextAppliedWork, NextSeen, NextShared DEF AtMostTwo
  <2> QED
    BY <2>2, <2>4
<1> DEFINE CustomOwned == \A r \in Resource \ BuiltIn :
                              res[r].hash # {} => res[r].owners # {}
<1>3. TypeInv /\ Inv /\ CustomOwned => NeverOrphaned
  BY OwnedIsEnough DEF SharedInv, NeverOrphaned
<1>4. SafeSpec => []CustomOwned
  BY CustomObjectsKeepAnOwner
<1> HIDE DEF Inv, CustomOwned
<1> QED
  BY <1>1, <1>2, <1>3, <1>4, OwnedInvariant, ReleaseInvariant, PTL DEF SafeSpec
=============================================================================
