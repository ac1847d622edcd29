---------------------------- MODULE MCApplyWork ----------------------------
(***************************************************************************)
(* Instances of ApplyWork for TLC.                                         *)
(***************************************************************************)
EXTENDS ApplyWork, TLC

CONSTANTS Creates, Edits, Deletes, Faults, Crashes, Tampers

\* The bounds on what disturbs the controller, one per kind.
MCBudget == [create |-> Creates, edit |-> Edits, delete |-> Deletes,
             fault |-> Faults, crash |-> Crashes, tamper |-> Tampers]

AllCalls == {"getAppliedWork", "createAppliedWork", "addFinalizer", "getManifest",
             "createManifest", "patchManifest", "updateWorkStatus",
             "getNewManifest", "getStaleManifest", "deleteStaleManifest",
             "releaseStaleManifest", "updateAppliedWork", "deleteAppliedWork",
             "removeFinalizer"}

\* All but the call whose failure makes a Work be forgotten, which has a run
\* of its own.
MostCalls == AllCalls \ {"getNewManifest"}

\* Works, and contents, are alike to the controller.
Symmetry == Permutations(Work)
ContentSymmetry == Permutations(Content)
=============================================================================
