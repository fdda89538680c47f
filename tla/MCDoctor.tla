------------------------------ MODULE MCDoctor ------------------------------
(* One of two workloads.  "shared": two publications that may have the first *)
(* object in common, two overlapping runs of gc, and a doctor beside them;   *)
(* the second object does not occur, and the walks of gc pass its place      *)
(* first.  "several": one drop of up to two objects and two overlapping runs *)
(* of gc, each of which may stop where the other has removed an object.      *)
(* No symmetry: OrphansAreReclaimed is liveness.                             *)
EXTENDS Doctor

CONSTANTS o1, o2, p2, d2

VARIABLE workload

Shared ==
    /\ \A p \in Publishing : o2 \notin publisher[p].todo
    /\ \A c \in Collecting : o2 \in collector[c].unseen => o1 \in collector[c].unseen

Several ==
    /\ d2 \notin begun /\ p2 \notin Publishing
    /\ ~Examining

MCInit == DoctorInit /\ workload \in {"shared", "several"}

MCNext ==
    /\ DoctorNext
    /\ IF workload = "shared" THEN Shared' ELSE Several'
    /\ UNCHANGED workload

MCFairSpec == MCInit /\ [][MCNext]_<<allVars, workload>> /\ GcFairness
=============================================================================
