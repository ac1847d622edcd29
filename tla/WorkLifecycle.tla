--------------------------- MODULE WorkLifecycle ---------------------------
(***************************************************************************)
(* What the apply-work controller promises of the life of its Works, with  *)
(* nothing of how: no cache, no queue, no calls, no patches.               *)
(*                                                                         *)
(* A Work is held on the hub by the finalizer as long as something on the  *)
(* spoke may belong to it, and what belongs to it is anchored there in its *)
(* AppliedWork. The order in which the two are put in place and taken away *)
(* is the protocol that ApplyWork has to follow through failing calls, old *)
(* copies and restarts.                                                    *)
(***************************************************************************)
CONSTANTS
    Work,       \* names of Work objects
    Resource    \* identifiers of the objects on the spoke

VARIABLES
    phase,      \* "absent", "live" or "deleting": the Work on the hub
    held,       \* whether it carries the finalizer
    anchored,   \* whether its AppliedWork exists
    owners      \* the Works whose AppliedWorks own an object

vars == <<phase, held, anchored, owners>>

TypeOK ==
    /\ phase \in [Work -> {"absent", "live", "deleting"}]
    /\ held \in [Work -> BOOLEAN]
    /\ anchored \in [Work -> BOOLEAN]
    /\ owners \in [Resource -> SUBSET Work]

Init ==
    /\ phase = [w \in Work |-> "absent"]
    /\ held = [w \in Work |-> FALSE]
    /\ anchored = [w \in Work |-> FALSE]
    /\ owners = [r \in Resource |-> {}]

-----------------------------------------------------------------------------
(* The user.                                                               *)

Ask(w) ==
    /\ phase[w] = "absent"
    /\ phase' = [phase EXCEPT ![w] = "live"]
    /\ UNCHANGED <<held, anchored, owners>>

\* A Work that is held stays until it is let go.
Withdraw(w) ==
    /\ phase[w] = "live"
    /\ phase' = [phase EXCEPT ![w] = IF held[w] THEN "deleting" ELSE "absent"]
    /\ UNCHANGED <<held, anchored, owners>>

-----------------------------------------------------------------------------
(* The controller.                                                         *)

\* First the AppliedWork is created. A Work that is already held has one.
Anchor(w) ==
    /\ ~held[w] /\ ~anchored[w]
    /\ anchored' = [anchored EXCEPT ![w] = TRUE]
    /\ UNCHANGED <<phase, held, owners>>

\* Then the Work is held.
Hold(w) ==
    /\ phase[w] = "live" /\ ~held[w] /\ anchored[w]
    /\ held' = [held EXCEPT ![w] = TRUE]
    /\ UNCHANGED <<phase, anchored, owners>>

\* An object is created, patched, released or deleted: whoever owns it now is
\* held and anchored.
Deploy(r) ==
    /\ \E works \in SUBSET {w \in Work : held[w] /\ anchored[w]} :
           owners' = [owners EXCEPT ![r] = works]
    /\ UNCHANGED <<phase, held, anchored>>

\* Only a Work on its way out loses its AppliedWork, and with it all it owns.
Collect(w) ==
    /\ phase[w] = "deleting" /\ anchored[w]
    /\ anchored' = [anchored EXCEPT ![w] = FALSE]
    /\ owners' = [r \in Resource |-> owners[r] \ {w}]
    /\ UNCHANGED <<phase, held>>

\* Last it is let go.
LetGo(w) ==
    /\ phase[w] = "deleting" /\ held[w] /\ ~anchored[w]
    /\ phase' = [phase EXCEPT ![w] = "absent"]
    /\ held' = [held EXCEPT ![w] = FALSE]
    /\ UNCHANGED <<anchored, owners>>

-----------------------------------------------------------------------------
Next ==
    \/ \E w \in Work : \/ Ask(w) \/ Withdraw(w)
                       \/ Anchor(w) \/ Hold(w) \/ Collect(w) \/ LetGo(w)
    \/ \E r \in Resource : Deploy(r)

Spec == Init /\ [][Next]_vars
=============================================================================
