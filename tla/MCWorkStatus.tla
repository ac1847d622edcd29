---------------------------- MODULE MCWorkStatus ----------------------------
(***************************************************************************)
(* Instances of WorkStatus for TLC.                                        *)
(***************************************************************************)
EXTENDS WorkStatus, FiniteSets

CONSTANT MaxManifests       \* bound on the length of a workload

\* Lists in which an object is described at most once. Manifests that cannot
\* be decoded may be there any number of times.
Mentions(manifests, o) ==
    {i \in DOMAIN manifests : manifests[i] # Unparsed /\ manifests[i].object = o}
MCWorkloads ==
    {manifests \in SeqOf(Manifest \cup {Unparsed}, MaxManifests) :
        \A o \in Object : Cardinality(Mentions(manifests, o)) <= 1}
=============================================================================
