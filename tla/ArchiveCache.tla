---------------------------- MODULE ArchiveCache ----------------------------
(***************************************************************************)
(* One entry of the archive cache: the requests that want it (archive_      *)
(* response in src/src/web.rs), the blocking tasks that look it up and      *)
(* build it (materialize in src/src/archive.rs), and gc --execute.          *)
(*                                                                         *)
(* The key is a hash of a manifest and a scope, so drops with the same      *)
(* manifest share an entry; entries with different keys do not interact and *)
(* one is modelled.  Its bytes follow from the key, so a complete file is a *)
(* right one.  The task runs on a thread of its own and is not stopped when *)
(* the request that started it is dropped by a client that disconnects.     *)
(***************************************************************************)
EXTENDS Integers, FiniteSets

CONSTANTS
    Drops,      \* drops whose manifest is the one of this entry
    Requests,   \* requests in the server at once
    Wants,      \* the drop each of them asks for
    MaxFaults,  \* bound of the model: disconnects, errors and restarts
    MaxRuns,    \* bound of the model: runs of gc
    None        \* an absent value

ASSUME CacheAssumption ==
    /\ Wants \in [Requests -> Drops]
    /\ IsFiniteSet(Requests) /\ None \notin Requests
    /\ MaxFaults \in Nat /\ MaxRuns \in Nat
    /\ None \notin Drops

VARIABLES
    drops,      \* live; ended (expired or revoked); overdue for gc; purged
    row,        \* the drop_id of the row in archives, None if there is none
    zip,        \* the file under archives/ exists
    tmp,        \* the number of archive-<token>.tmp files
    request,    \* what each request waits for
    task,       \* what the blocking task of each request is doing
    lock,       \* the request that holds the lock of the key
    left,       \* history: the requests whose client left while their task ran on
    gc,         \* what the run of gc is doing
    runs,       \* history: the runs of gc begun
    faults,     \* history: the disconnects and the errors that happened
    spills,     \* history: the faults that can leave a temporary file
    met         \* history: a build and gc overlapped, or gc had purged its drop

vars ==
    <<drops, row, zip, tmp, request, task, lock, left, gc, runs, faults, spills, met>>

-----------------------------------------------------------------------------
TaskStages ==
    {"idle", "lookup", "check", "build", "write", "readback", "record", "found", "failed"}
GcStages == {"idle", "purge", "unlink", "unrecord"}
Gcs == [stage : GcStages, listed : BOOLEAN, doomed : SUBSET Drops]

DropStates == {"live", "ended", "overdue", "purged"}

TypeOK ==
    /\ drops \in [Drops -> DropStates]
    /\ row \in Drops \cup {None}
    /\ zip \in BOOLEAN
    /\ tmp \in Nat
    /\ request \in [Requests -> {"idle", "queued", "waiting", "served", "failed"}]
    /\ task \in [Requests -> TaskStages]
    /\ lock \in Requests \cup {None}
    /\ left \subseteq Requests
    /\ gc \in Gcs
    /\ runs \in 0..MaxRuns
    /\ faults \in 0..MaxFaults /\ spills \in 0..MaxFaults
    /\ met \in BOOLEAN

GcIdle == [stage |-> "idle", listed |-> FALSE, doomed |-> {}]

\* The archive has not been built, whatever became of the drops so far.
Init ==
    /\ drops \in [Drops -> DropStates]
    /\ row = None
    /\ zip = FALSE
    /\ tmp = 0
    /\ request = [r \in Requests |-> "idle"]
    /\ task = [r \in Requests |-> "idle"]
    /\ lock = None
    /\ left = {}
    /\ gc = GcIdle
    /\ runs = 0
    /\ faults = 0
    /\ spills = 0
    /\ met = FALSE

Fault ==
    /\ faults + spills < MaxFaults
    /\ faults' = faults + 1
    /\ UNCHANGED spills

Spill ==
    /\ faults + spills < MaxFaults
    /\ spills' = spills + 1
    /\ UNCHANGED faults

\* The tasks that have found nothing in the cache and build the archive.
Building == {r \in Requests : task[r] \in {"build", "write", "readback", "record"}}

-----------------------------------------------------------------------------
\* A request arrives and is authorized; it queues for the lock of the key.
Ask(r) ==
    /\ request[r] \in {"idle", "served", "failed"}
    /\ task[r] = "idle"
    /\ drops[Wants[r]] = "live"
    /\ request' = [request EXCEPT ![r] = "queued"]
    /\ UNCHANGED <<drops, row, zip, tmp, task, lock, left, gc, runs, faults, spills, met>>

\* Mutant: the lock is not awaited.
AcquireAtOnce(r) ==
    /\ request[r] = "queued"
    /\ lock' = r
    /\ request' = [request EXCEPT ![r] = "waiting"]
    /\ task' = [task EXCEPT ![r] = "lookup"]
    /\ UNCHANGED <<drops, row, zip, tmp, left, gc, runs, faults, spills, met>>

\* The lock is obtained and the task is spawned.
Acquire(r) ==
    /\ request[r] = "queued"
    /\ lock = None
    /\ lock' = r
    /\ request' = [request EXCEPT ![r] = "waiting"]
    /\ task' = [task EXCEPT ![r] = "lookup"]
    /\ UNCHANGED <<drops, row, zip, tmp, left, gc, runs, faults, spills, met>>

\* materialize consults the database, and then the file of the row it found.
Lookup(r) ==
    /\ task[r] = "lookup"
    /\ task' = [task EXCEPT ![r] = IF row # None THEN "check" ELSE "build"]
    /\ UNCHANGED <<drops, row, zip, tmp, request, lock, left, gc, runs, faults, spills, met>>

\* Mutant: the row is trusted.
CheckTrusting(r) ==
    /\ task[r] = "check"
    /\ task' = [task EXCEPT ![r] = "found"]
    /\ UNCHANGED <<drops, row, zip, tmp, request, lock, left, gc, runs, faults, spills, met>>

Check(r) ==
    /\ task[r] = "check"
    /\ task' = [task EXCEPT ![r] = IF zip THEN "found" ELSE "build"]
    /\ UNCHANGED <<drops, row, zip, tmp, request, lock, left, gc, runs, faults, spills, met>>

\* build_zip creates a temporary file of its own and writes the archive.
Build(r) ==
    /\ task[r] = "build"
    /\ tmp' = tmp + 1
    /\ task' = [task EXCEPT ![r] = "write"]
    /\ met' = (met \/ gc.stage # "idle" \/ drops[Wants[r]] = "purged")
    /\ UNCHANGED <<drops, row, zip, request, lock, left, gc, runs, faults, spills>>

\* It is complete: sync_all and rename.
Install(r) ==
    /\ task[r] = "write"
    /\ tmp' = tmp - 1
    /\ zip' = TRUE
    /\ task' = [task EXCEPT ![r] = "readback"]
    /\ UNCHANGED <<drops, row, request, lock, left, gc, runs, faults, spills, met>>

\* sha256_file reads the archive back.  One that gc has removed meanwhile is an
\* error.
ReadBack(r) ==
    /\ task[r] = "readback"
    /\ task' = [task EXCEPT ![r] = IF zip THEN "record" ELSE "failed"]
    /\ UNCHANGED <<drops, row, zip, tmp, request, lock, left, gc, runs, faults, spills, met>>

\* ON CONFLICT (cache_key) DO UPDATE leaves the drop_id of the row.
OwnerAfterUpsert(d) == IF row = None THEN d ELSE row

\* upsert_archive, whether the archive is still there or not.  Inserting the
\* row for a drop that gc has purged violates the foreign key.
Record(r) ==
    /\ task[r] = "record"
    /\ IF row = None => drops[Wants[r]] # "purged"
       THEN /\ row' = OwnerAfterUpsert(Wants[r])
            /\ task' = [task EXCEPT ![r] = "found"]
       ELSE /\ task' = [task EXCEPT ![r] = "failed"]
            /\ UNCHANGED row
    /\ UNCHANGED <<drops, zip, tmp, request, lock, left, gc, runs, faults, spills, met>>

\* The guard of the lock lives until the response is made or dropped.
Unlock(r) == IF lock = r THEN None ELSE lock

\* The result reaches its request: the file is opened, or an error is answered.
Respond(r) ==
    /\ request[r] = "waiting"
    /\ task[r] \in {"found", "failed"}
    /\ request' = [request EXCEPT ![r] =
          IF task[r] = "found" /\ zip THEN "served" ELSE "failed"]
    /\ task' = [task EXCEPT ![r] = "idle"]
    /\ lock' = Unlock(r)
    /\ UNCHANGED <<drops, row, zip, tmp, left, gc, runs, faults, spills, met>>

\* The client disconnects: the request and its guard are dropped, the task of
\* spawn_blocking runs on and its result is discarded.
Disconnect(r) ==
    /\ Fault
    /\ request[r] \in {"queued", "waiting"}
    /\ request' = [request EXCEPT ![r] = "idle"]
    /\ lock' = Unlock(r)
    /\ left' = IF task[r] = "idle" THEN left ELSE left \cup {r}
    /\ UNCHANGED <<drops, row, zip, tmp, task, gc, runs, met>>

Discard(r) ==
    /\ request[r] # "waiting"
    /\ task[r] \in {"found", "failed"}
    /\ task' = [task EXCEPT ![r] = "idle"]
    /\ left' = left \ {r}
    /\ UNCHANGED <<drops, row, zip, tmp, request, lock, gc, runs, faults, spills, met>>

\* Mutant: the temporary file of a failed build is left.
TmpLeftAfterFailedBuild(r) == tmp

\* build_zip fails, for want of an object or of space: its file is removed.
TmpAfterFailedBuild(r) == IF task[r] = "write" THEN tmp - 1 ELSE tmp

FailBuild(r) ==
    /\ Fault
    /\ task[r] \in {"build", "write"}
    /\ tmp' = TmpAfterFailedBuild(r)
    /\ task' = [task EXCEPT ![r] = "failed"]
    /\ UNCHANGED <<drops, row, zip, request, lock, left, gc, runs, met>>

\* sync_all or rename fails: the temporary file stays.
FailInstall(r) ==
    /\ Spill
    /\ task[r] = "write"
    /\ task' = [task EXCEPT ![r] = "failed"]
    /\ UNCHANGED <<drops, row, zip, tmp, request, lock, left, gc, runs, met>>

\* The archive cannot be read back, or the database fails: no row names it.
FailRecord(r) ==
    /\ Fault
    /\ task[r] \in {"readback", "record"}
    /\ task' = [task EXCEPT ![r] = "failed"]
    /\ UNCHANGED <<drops, row, zip, tmp, request, lock, left, gc, runs, met>>

\* The server is killed and started again.
Restart ==
    /\ Spill
    /\ request' = [r \in Requests |->
          IF request[r] \in {"queued", "waiting"} THEN "idle" ELSE request[r]]
    /\ task' = [r \in Requests |-> "idle"]
    /\ lock' = None
    /\ left' = {}
    /\ UNCHANGED <<drops, row, zip, tmp, gc, runs, met>>

-----------------------------------------------------------------------------
\* A drop expires or is revoked, and the retention of gc passes.
EndDrop(d) ==
    /\ drops[d] \in {"live", "ended"}
    /\ drops' = [drops EXCEPT ![d] = IF @ = "live" THEN "ended" ELSE "overdue"]
    /\ UNCHANGED <<row, zip, tmp, request, task, lock, left, gc, runs, faults, spills, met>>

\* garbage_collect judges the row: its drop is not active, or its file is gone.
Stale == row # None /\ (drops[row] # "live" \/ ~zip)

Collect ==
    /\ gc.stage = "idle"
    /\ runs < MaxRuns
    /\ runs' = runs + 1
    /\ gc' = [stage |-> "purge", listed |-> Stale,
              doomed |-> {d \in Drops : drops[d] = "overdue"}]
    /\ met' = (met \/ Building # {})
    /\ UNCHANGED <<drops, row, zip, tmp, request, task, lock, left, faults, spills>>

\* apply_retention; the row of a purged drop goes with it.
Purge ==
    /\ gc.stage = "purge"
    /\ drops' = [d \in Drops |-> IF d \in gc.doomed THEN "purged" ELSE drops[d]]
    /\ row' = IF row \in gc.doomed THEN None ELSE row
    /\ gc' = IF gc.listed THEN [gc EXCEPT !.stage = "unlink"] ELSE GcIdle
    /\ UNCHANGED <<zip, tmp, request, task, lock, left, runs, faults, spills, met>>

\* Mutant: the file is looked for under another name, and stays.
UnlinkOther ==
    /\ gc.stage = "unlink"
    /\ gc' = [gc EXCEPT !.stage = "unrecord"]
    /\ UNCHANGED <<drops, row, zip, tmp, request, task, lock, left, runs, faults, spills, met>>

UnlinkZip ==
    /\ gc.stage = "unlink"
    /\ zip' = FALSE
    /\ gc' = [gc EXCEPT !.stage = "unrecord"]
    /\ UNCHANGED <<drops, row, tmp, request, task, lock, left, runs, faults, spills, met>>

Unrecord ==
    /\ gc.stage = "unrecord"
    /\ row' = None
    /\ gc' = GcIdle
    /\ UNCHANGED <<drops, zip, tmp, request, task, lock, left, runs, faults, spills, met>>

KillGc ==
    /\ Fault
    /\ gc.stage # "idle"
    /\ gc' = GcIdle
    /\ UNCHANGED <<drops, row, zip, tmp, request, task, lock, left, runs, met>>

-----------------------------------------------------------------------------
TaskStep(r) ==
    \/ Lookup(r)
    \/ Check(r)
    \/ Build(r)
    \/ Install(r)
    \/ ReadBack(r)
    \/ Record(r)
    \/ Respond(r)
    \/ Discard(r)

GcStep ==
    \/ Collect
    \/ Purge
    \/ UnlinkZip
    \/ Unrecord

Next ==
    \/ \E r \in Requests :
          \/ Ask(r)
          \/ Acquire(r)
          \/ TaskStep(r)
          \/ Disconnect(r)
          \/ FailBuild(r)
          \/ FailInstall(r)
          \/ FailRecord(r)
    \/ Restart
    \/ \E d \in Drops : EndDrop(d)
    \/ GcStep
    \/ KillGc

Spec == Init /\ [][Next]_vars

\* Clients ask again, threads run on, and the lock is handed out in the order
\* of the queue (tokio's mutex is fair), so a request that keeps waiting gets it.
RequestFairness(r) ==
    WF_vars(Ask(r)) /\ SF_vars(Acquire(r)) /\ WF_vars(TaskStep(r))

\* Besides, gc goes on once begun.
FairSpec ==
    /\ Spec
    /\ WF_vars(GcStep)
    /\ \A r \in Requests : RequestFairness(r)

-----------------------------------------------------------------------------
(***************************************************************************)
(* threat-model.md:43 counts on "singleflight archive builds".  The lock is *)
(* released with its handler while the build runs on, so what it gives is   *)
(* this: of the tasks that build the archive at the same time at most one   *)
(* has a client, and each of the others was left by a client that           *)
(* disconnected from it and is still at work.  No other fault, neither a    *)
(* failed build nor a killed gc, makes two builds overlap.                  *)
(***************************************************************************)
BuildsAreAccountedFor ==
    Cardinality(Building) <= 1 + Cardinality(Building \cap left)

(***************************************************************************)
(* No file of the cache goes astray without a cause.  A temporary file is   *)
(* one that a build is writing, or was left by a restart or by a sync_all   *)
(* or rename that failed, which is past the clean-up of archive.rs:89-92.   *)
(* An archive that no row names, which gc will never find, is about to be   *)
(* recorded or removed, or was left by a fault, or its build met gc, which  *)
(* purged the drop before the row was there or took the new row for the old *)
(* one.                                                                     *)
(***************************************************************************)
FilesAreAccountedFor ==
    LET writing == Cardinality({r \in Requests : task[r] = "write"})
    IN  /\ tmp - writing \in 0..(Cardinality(Requests) * spills)
        /\ zip /\ row = None =>
              \/ \E r \in Requests : task[r] \in {"readback", "record"}
              \/ gc.stage = "unlink"
              \/ faults + spills > 0
              \/ met

(***************************************************************************)
(* The download of a live drop is served in the end, whatever restarts,     *)
(* disconnects and failed builds came before, and although gc takes the     *)
(* archive for stale when the row names another drop that ended: no state   *)
(* of the row, the file and the lock keeps it from being built again.       *)
(***************************************************************************)
LiveDropIsServed ==
    \A r \in Requests :
        []<>(request[r] = "served" \/ drops[Wants[r]] # "live")
=============================================================================
