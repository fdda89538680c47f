--------------------------- MODULE MCArchiveCache ---------------------------
(* Drops with the same manifest and a client of each, under one of two       *)
(* workloads.  "crowd": three drops and no gc, so that two builds can be      *)
(* left at work beside a third.  "gc": two drops that may end, and runs of    *)
(* gc; the third is long gone.                                                *)
(* No symmetry: LiveDropIsServed is liveness.                                 *)
EXTENDS ArchiveCache, TLC

CONSTANTS d1, d2, d3, r1, r2, r3

MCWants == r1 :> d1 @@ r2 :> d2 @@ r3 :> d3

VARIABLE workload

MCInit ==
    /\ Init
    /\ workload \in {"crowd", "gc"}
    /\ drops = d1 :> "live" @@ d2 :> "live"
                 @@ d3 :> IF workload = "crowd" THEN "live" ELSE "purged"

MCNext ==
    /\ Next
    /\ workload = "crowd" => gc' = GcIdle /\ drops' = drops
    /\ UNCHANGED workload

MCFairSpec ==
    /\ MCInit /\ [][MCNext]_<<vars, workload>>
    /\ WF_vars(GcStep /\ workload = "gc")
    /\ \A r \in Requests : RequestFairness(r)
=============================================================================
