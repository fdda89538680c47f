------------------------------ MODULE MCConsole ------------------------------
(***************************************************************************)
(* One of three workloads.  "table": the table of failures by itself, with  *)
(* two sources, one password attempt at a time and any number of            *)
(* redemptions.  "crowd": three sources, two password attempts at a time    *)
(* and any number of redemptions at time 0; then only time passes.          *)
(* "console": two console requests in flight, two sessions one after the    *)
(* other, one source and four requests; from time 3 on only time passes.    *)
(* No symmetry: ThrottleLifts is liveness.                                  *)
(***************************************************************************)
EXTENDS Console

CONSTANTS s1, s2, s3, h1, h2, t1, t2

VARIABLE workload

From(sources) ==
    /\ \A h \in Handlers : gate'[h] # None => gate'[h].src \in sources
    /\ \A r \in refusals' : r.src \in sources

\* The table of failures by itself: no request of the console is served.
TableNext ==
    /\ BudgetNext
    /\ wrong' = wrong + Cardinality(refusals') - Cardinality(refusals)
    /\ UNCHANGED <<admin, req, issued, locked, lost, arrived>>

Table ==
    /\ TableNext
    /\ gate'[h2] = None
    /\ From({s1, s2})

Crowd ==
    /\ TableNext
    /\ clock' > 0 => clock' = clock + 1

Requests ==
    /\ ConsoleNext
    /\ clock' > 2 => clock' = clock + 1
    /\ \A h \in Handlers : req'[h] # None => req'[h].src = s1
    /\ From({s1})
    /\ t2 \in DOMAIN issued' => t1 \in DOMAIN issued'

MCInit == ConsoleInit /\ workload \in {"table", "crowd", "console"}

MCNext ==
    /\ CASE workload = "table" -> Table
         [] workload = "crowd" -> Crowd
         [] workload = "console" -> Requests
    /\ UNCHANGED workload

MCFairSpec ==
    MCInit /\ [][MCNext]_<<allVars, workload>> /\ WF_budgetVars(Tick)
=============================================================================
