------------------------------ MODULE MasterKey ------------------------------
(***************************************************************************)
(* MasterKey::load_or_create of src/src/security.rs, called at the start of *)
(* the server and of the commands that touch codes: several processes may   *)
(* start on a fresh state directory at once, and be killed on the way.      *)
(* Codes, sessions and sources are stored under tags keyed by it, so what   *)
(* one process writes another can only look up with the same key.           *)
(***************************************************************************)
EXTENDS Naturals, FiniteSets

CONSTANTS
    Processes,
    MaxRuns,   \* bound of the model: starts of each process
    None       \* an absent value

ASSUME KeyAssumption == None \notin Processes \X (0..MaxRuns) /\ MaxRuns \in Nat

VARIABLES
    file,    \* the key file: absent, with some of its 32 bytes, or whole
    proc,    \* what each process is doing, and the key it has
    runs     \* history: the starts of each process

vars == <<file, proc, runs>>

-----------------------------------------------------------------------------
\* A key is named after the run of the process that draws it.
Keys == Processes \X (1..MaxRuns)

Absent == [kind |-> "absent", key |-> None]
Part(k) == [kind |-> "part", key |-> k]
Whole(k) == [kind |-> "whole", key |-> k]

Off == [stage |-> "off", key |-> None]

TypeOK ==
    /\ file \in [kind : {"absent", "part", "whole"}, key : Keys \cup {None}]
    /\ file.kind = "absent" <=> file.key = None
    /\ proc \in [Processes ->
                   [stage : {"off", "look", "read", "create", "write", "ready"},
                    key : Keys \cup {None}]]
    /\ \A p \in Processes : proc[p].stage = "write" => file = Part(proc[p].key)
    /\ runs \in [Processes -> 0..MaxRuns]

Init ==
    /\ file = Absent
    /\ proc = [p \in Processes |-> Off]
    /\ runs = [p \in Processes |-> 0]

Own(p) == <<p, runs[p]>>

-----------------------------------------------------------------------------
Start(p) ==
    /\ proc[p].stage = "off"
    /\ runs[p] < MaxRuns
    /\ runs' = [runs EXCEPT ![p] = @ + 1]
    /\ proc' = [proc EXCEPT ![p].stage = "look"]
    /\ UNCHANGED file

\* path.exists()
Look(p) ==
    /\ proc[p].stage = "look"
    /\ proc' = [proc EXCEPT ![p].stage =
                  IF file.kind = "absent" THEN "create" ELSE "read"]
    /\ UNCHANGED <<file, runs>>

\* The file is a key only if it has 32 bytes.
ReadableWhole == file.kind = "whole"

ReadKey(p) ==
    /\ proc[p].stage = "read"
    /\ proc' = [proc EXCEPT ![p] =
                  IF ReadableWhole THEN [stage |-> "ready", key |-> file.key] ELSE Off]
    /\ UNCHANGED <<file, runs>>

\* Mutant: the file is opened with create and truncate.
MayCreateAlways == TRUE

\* create_new
MayCreate == file.kind = "absent"

\* A key is drawn and the file created, unless another process has been faster.
Create(p) ==
    /\ proc[p].stage = "create"
    /\ IF MayCreate
       THEN /\ file' = Part(Own(p))
            /\ proc' = [proc EXCEPT ![p] = [stage |-> "write", key |-> Own(p)]]
       ELSE /\ proc' = [proc EXCEPT ![p] = Off]
            /\ UNCHANGED file
    /\ UNCHANGED runs

Write(p) ==
    /\ proc[p].stage = "write"
    /\ file' = Whole(proc[p].key)
    /\ proc' = [proc EXCEPT ![p].stage = "ready"]
    /\ UNCHANGED runs

\* The process ends, or is killed; a key that is half written stays so, and no
\* later start accepts the file.
Stop(p) ==
    /\ proc[p].stage # "off"
    /\ proc' = [proc EXCEPT ![p] = Off]
    /\ UNCHANGED <<file, runs>>

Next ==
    \E p \in Processes :
        Start(p) \/ Look(p) \/ ReadKey(p) \/ Create(p) \/ Write(p) \/ Stop(p)

Spec == Init /\ [][Next]_vars

-----------------------------------------------------------------------------
(***************************************************************************)
(* All processes that run have one key, the one in the file, although they  *)
(* may have started together before there was any: no process stores tags   *)
(* that the others, or its own next run, cannot look up.                    *)
(***************************************************************************)
OneKey ==
    \A p \in Processes : proc[p].stage = "ready" => file = Whole(proc[p].key)

(***************************************************************************)
(* The key of the file never changes once it is whole.                      *)
(***************************************************************************)
KeyIsForGood == [][file.kind = "whole" => file' = file]_vars
=============================================================================
