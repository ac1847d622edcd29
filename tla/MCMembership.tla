---------------------------- MODULE MCMembership ----------------------------
(***************************************************************************)
(* Instances of Membership for TLC.                                        *)
(***************************************************************************)
EXTENDS Membership

CONSTANTS Creates, Edits, Deletes, Faults, Crashes, Tampers

MCBudget == [create |-> Creates, edit |-> Edits, delete |-> Deletes,
             fault |-> Faults, crash |-> Crashes, tamper |-> Tampers]

\* All but the call whose failure makes a Work be forgotten.
MostCalls == {"listWorks", "leaveWork", "getAppliedWork", "createAppliedWork",
              "addFinalizer", "getManifest", "createManifest", "patchManifest",
              "updateWorkStatus", "getStaleManifest", "deleteStaleManifest",
              "releaseStaleManifest", "updateAppliedWork", "deleteAppliedWork",
              "removeFinalizer"}
=============================================================================
