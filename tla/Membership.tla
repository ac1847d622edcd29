----------------------------- MODULE Membership -----------------------------
(***************************************************************************)
(* Join and Leave of the apply-work controller, composed with the          *)
(* reconciles of ApplyWork that they start and stop.                       *)
(*                                                                         *)
(* Leave clears joined, lists the Works from the informer cache, and takes *)
(* the finalizer off each of them, one update at a time, while reconciles  *)
(* that have passed the check of joined go on. joined is read and written  *)
(* without synchronisation; it is one byte, so that every read returns     *)
(* what some write has stored, and the race is one of interleaving.        *)
(*                                                                         *)
(* Whoever calls Join and Leave is outside the repository, and is taken to *)
(* make one call at a time, as the integration test does.                  *)
(***************************************************************************)
EXTENDS ApplyWork

CONSTANT MaxLeaves      \* bound on the calls of Leave

ASSUME MaxLeavesAssumption == MaxLeaves \in Nat

VARIABLES
    joined,     \* the field joined of ApplyWorkReconciler
    later,      \* the keys that wait for their RequeueAfter of five seconds
    leaving,    \* how far the last call of Leave has come
    leaves      \* the calls of Leave still allowed

membership == <<joined, later, leaving, leaves>>
mvars == <<vars, membership>>

\* todo: the listed Works whose finalizer is still to be removed; fresh: those
\* whose listed copy has the hub's resourceVersion. quiet is no variable of the
\* code: it remembers that no reconcile was running and no cached copy was old
\* when the Works were listed.
Leaving == [pc : {"idle", "list", "update", "left"}, todo : SUBSET Work,
            fresh : SUBSET Work, quiet : BOOLEAN]
NotLeaving == [pc |-> "idle", todo |-> {}, fresh |-> {}, quiet |-> FALSE]

BugOutdate(w) == UNCHANGED leaving

\* A write of w outdates the copy that Leave has listed.
Outdate(w) == leaving' = [leaving EXCEPT !.fresh = @ \ {w}]

-----------------------------------------------------------------------------
(* Reconciles.                                                             *)

JoinedReconcile(w) ==
    /\ joined
    /\ Reconcile(w)
    /\ UNCHANGED membership

BugPostpone(w) ==
    /\ ~joined
    /\ w \in queue
    /\ pc[w] = "idle"
    /\ Cardinality(Busy) < MaxConcurrent
    /\ queue' = queue \ {w}
    /\ UNCHANGED <<hubVars, cache, watch, pc, job, spokeVars, budget, membership>>

\* A worker takes a key while the controller is not joined.
Postpone(w) ==
    /\ ~joined
    /\ w \in queue
    /\ pc[w] = "idle"
    /\ Cardinality(Busy) < MaxConcurrent
    /\ queue' = queue \ {w}
    /\ later' = later \cup {w}
    /\ UNCHANGED <<hubVars, cache, watch, pc, job, spokeVars, budget,
                   joined, leaving, leaves>>

\* The delay is over.
Requeue(w) ==
    /\ w \in later
    /\ later' = later \ {w}
    /\ queue' = queue \cup {w}
    /\ UNCHANGED <<hubVars, cache, watch, pc, job, spokeVars, budget,
                   joined, leaving, leaves>>

\* The next call of the reconcile of w is a write of the Work.
WritesWork(w) == \/ pc[w] \in {"finalize", "unfinalize"}
                 \/ pc[w] = "apply" /\ job[w].todo = {}

\* A reconcile does not look at joined again.
Proceed(w, reply) ==
    /\ Step(w, reply)
    /\ IF WritesWork(w) /\ Accepted(w, reply) THEN Outdate(w) ELSE UNCHANGED leaving
    /\ UNCHANGED <<joined, later, leaves>>

-----------------------------------------------------------------------------
(* Join and Leave.                                                         *)

Returned == leaving.pc \in {"idle", "left"}

Join ==
    /\ Returned
    /\ ~joined
    /\ joined' = TRUE
    /\ leaving' = NotLeaving
    /\ UNCHANGED <<vars, later, leaves>>

BugLeave ==
    /\ Returned
    /\ leaves > 0
    /\ leaves' = leaves - 1
    /\ leaving' = [NotLeaving EXCEPT !.pc = "list"]
    /\ UNCHANGED <<vars, later, joined>>

Leave ==
    /\ Returned
    /\ leaves > 0
    /\ leaves' = leaves - 1
    /\ joined' = FALSE
    /\ leaving' = [NotLeaving EXCEPT !.pc = "list"]
    /\ UNCHANGED <<vars, later>>

\* The Works come from the cache. One without the finalizer is passed over. The
\* error that Leave ignores, NotFound, does not come of a list: the cache answers
\* for a namespace without Works with an empty one.
ListWorks(reply) ==
    /\ leaving.pc = "list"
    /\ reply \in ReadReply
    /\ Call("listWorks", reply)
    /\ leaving' = IF reply = "error" THEN NotLeaving
                  ELSE [pc |-> "update",
                        todo |-> {w \in Work : cache[w].fin},
                        fresh |-> {w \in Work : watch[w] = "current"},
                        quiet |-> Busy = {} /\ \A w \in Work : watch[w] = "current"]
    /\ UNCHANGED <<hubVars, cache, watch, queue, pc, job, spokeVars, joined, later, leaves>>

BugLeaveWork(w, reply) ==
    /\ leaving.pc = "update"
    /\ w \in leaving.todo
    /\ Call("leaveWork", reply)
    /\ LET accepted == reply # "error" /\ w \in leaving.fresh
           live == hub[w].phase = "live"
       IN /\ IF accepted
             THEN /\ HubStores(w, IF live THEN [hub[w] EXCEPT !.fin = FALSE] ELSE NoWork,
                               ~live)
                  /\ status' = IF live THEN status ELSE [status EXCEPT ![w] = NoStatus]
                  /\ job' = [job EXCEPT ![w].fresh = FALSE]
             ELSE UNCHANGED <<hubVars, watch, job>>
          /\ leaving' = [leaving EXCEPT !.todo = @ \ {w}, !.fresh = @ \ {w}]
    /\ UNCHANGED <<cache, queue, pc, spokeVars, joined, later, leaves>>

\* A Work that is being deleted leaves the hub with its finalizer. The first
\* update that fails ends Leave with its error.
LeaveWork(w, reply) ==
    /\ leaving.pc = "update"
    /\ w \in leaving.todo
    /\ Call("leaveWork", reply)
    /\ LET accepted == reply # "error" /\ w \in leaving.fresh
           live == hub[w].phase = "live"
       IN /\ IF accepted
             THEN /\ HubStores(w, IF live THEN [hub[w] EXCEPT !.fin = FALSE] ELSE NoWork,
                               ~live)
                  /\ status' = IF live THEN status ELSE [status EXCEPT ![w] = NoStatus]
                  /\ job' = [job EXCEPT ![w].fresh = FALSE]
             ELSE UNCHANGED <<hubVars, watch, job>>
          /\ leaving' = IF accepted /\ reply = "answer"
                        THEN [leaving EXCEPT !.todo = @ \ {w}, !.fresh = @ \ {w}]
                        ELSE NotLeaving
    /\ UNCHANGED <<cache, queue, pc, spokeVars, joined, later, leaves>>

LeaveReturns ==
    /\ leaving.pc = "update"
    /\ leaving.todo = {}
    /\ leaving' = [leaving EXCEPT !.pc = "left", !.fresh = {}]
    /\ UNCHANGED <<vars, joined, later, leaves>>

-----------------------------------------------------------------------------
\* A new process joins before its workers start, whatever the old one did.
RestartJoined ==
    /\ Restart
    /\ joined' = TRUE
    /\ later' = {}
    /\ leaving' = NotLeaving
    /\ UNCHANGED leaves

UserWrites(w) ==
    /\ User(w)
    /\ Outdate(w)
    /\ UNCHANGED <<joined, later, leaves>>

MInit ==
    /\ Init
    /\ joined = TRUE
    /\ later = {}
    /\ leaving = NotLeaving
    /\ leaves = MaxLeaves

MNext ==
    \/ \E w \in Work : \/ JoinedReconcile(w) \/ Postpone(w) \/ Requeue(w) \/ UserWrites(w)
                       \/ (AbandonSync(w) \/ CacheSync(w)) /\ UNCHANGED membership
    \/ \E w \in Work, reply \in Reply : Proceed(w, reply) \/ LeaveWork(w, reply)
    \/ \E reply \in Reply : ListWorks(reply)
    \/ Join \/ Leave \/ LeaveReturns
    \/ ((\E r \in Resource : GarbageCollect(r)) \/ Tamper) /\ UNCHANGED membership
    \/ RestartJoined

\* As in ApplyWork; the delay of a key ends. Nobody has to call Join or Leave.
MFairness ==
    /\ \A w \in Work :
           /\ WF_mvars(JoinedReconcile(w) \/ Postpone(w))
           /\ WF_mvars(Requeue(w))
           /\ WF_mvars(Proceed(w, "answer") \/ (AbandonSync(w) /\ UNCHANGED membership))
           /\ WF_mvars(CacheSync(w) /\ UNCHANGED membership)
    /\ \A r \in Resource : WF_mvars(GarbageCollect(r) /\ UNCHANGED membership)

MSafeSpec == MInit /\ [][MNext]_mvars
MSpec == MSafeSpec /\ MFairness

-----------------------------------------------------------------------------
(* Properties.                                                             *)

\* The type invariant. A copy that Leave takes to be of the latest version is
\* one: its Work exists and has the finalizer.
MembershipTypeOK ==
    /\ TypeOK
    /\ joined \in BOOLEAN
    /\ later \subseteq Work
    /\ leaving \in Leaving
    /\ leaves \in 0..MaxLeaves
    /\ \A w \in leaving.todo \cap leaving.fresh : hub[w].fin

\* When Leave has returned without an error, and started with no reconcile
\* running and a cache up to date, no Work has the finalizer until the next
\* Join: no Work can hang in its deletion without a controller to release it
\* (Leave, apply_controller.go:439-468).
LeaveIsClean ==
    leaving.pc = "left" /\ leaving.quiet => \A w \in Work : ~hub[w].fin

\* A controller that joined again after it left, whenever that was and however
\* far it came, brings the spoke to what a live Work asks for, with the
\* AppliedWork that it left behind, and lets go of the Works that were deleted
\* meanwhile ("the work controller is not started yet, requeue the request",
\* apply_controller.go:88).
Rejoined ==
    \A w \in Work : <>[](joined => \/ hub[w].phase = "absent"
                                   \/ hub[w].phase = "live" /\ hub[w].fin /\ Reflected(w))

\* "successfully removed all the work finalizers in the cluster namespace"
\* (apply_controller.go:465): once Leave has returned without an error no Work
\* has the finalizer.
LeaveRemovesAll == leaving.pc = "left" => \A w \in Work : ~hub[w].fin
=============================================================================
