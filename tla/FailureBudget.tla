---------------------------- MODULE FailureBudget ----------------------------
(***************************************************************************)
(* The failure budget of src/src/db.rs: the table redemption_failures, the  *)
(* one-minute window read from it, and the two ways in which it is used.    *)
(*                                                                         *)
(*  - A code redemption counts the window and adds its own row inside one   *)
(*    immediate transaction (Database::redeem).                             *)
(*  - The operator-password gate of src/src/web.rs counts the window with   *)
(*    autocommitted statements (Database::failure_counts), verifies the     *)
(*    password with no lock held, and adds its row in a later transaction   *)
(*    (Database::record_failure).  Several such requests overlap.           *)
(*                                                                         *)
(* Every handler reads the wall clock once, before its transaction obtains  *)
(* the write lock, so the time it works with may lag behind the clock.      *)
(***************************************************************************)
EXTENDS Integers, FiniteSets

CONSTANTS
    Sources,           \* source tags: the pseudonymised client addresses
    Handlers,          \* requests that can be inside the password gate at once
    GlobalLimit,       \* --global-failure-limit
    SourceLimit,       \* --source-failure-limit
    Window,            \* 60 s: the period over which failures are counted
    FailureRetention,  \* 3600 s: the age at which a row is pruned
    MaxLag,            \* how far a handler's reading may lag behind the clock
    MaxTime,           \* bound of the model: the clock stops here
    None               \* an absent value (SQL NULL, Option::None)

\* main.rs:254-260 admits 1..=60 for the limits; the two ages are literals.
ASSUME BudgetAssumption ==
    /\ GlobalLimit \in Nat \ {0}
    /\ SourceLimit \in 1..GlobalLimit
    /\ Window \in Nat /\ MaxLag \in Nat /\ FailureRetention \in Nat
    /\ MaxLag + Window <= FailureRetention
    /\ MaxTime \in Nat
    /\ IsFiniteSet(Handlers)

VARIABLES
    clock,     \* the wall clock of the host, in seconds
    failures,  \* the rows of redemption_failures
    refusals,  \* history: every row ever added to it, pruned or not
    gate       \* the password attempts in flight

budgetVars == <<clock, failures, refusals, gate>>

-----------------------------------------------------------------------------
\* A row is (occurred_at, source_tag); nth tells equal rows apart.
Failure == [at : Int, src : Sources, nth : Nat]

\* An attempt whose global count was below the limit ("counted"), and one
\* whose source count was below it too ("checked"): its password is verified
\* next.  It keeps the reading of the clock taken when the request arrived.
Attempt == [stage : {"counted", "checked"}, src : Sources, at : Int]

ASSUME NoneIsNoAttempt == None \notin Attempt

BudgetTypeOK ==
    /\ clock \in 0..MaxTime
    /\ refusals \subseteq Failure /\ IsFiniteSet(refusals)
    /\ failures \subseteq refusals
    /\ gate \in [Handlers -> Attempt \cup {None}]

\* What OffsetDateTime::now_utc() may have returned to a handler that now
\* reaches its transaction.
ReadClock == (clock - MaxLag)..clock

\* Mutant: the window never closes.
SinceForever(rows, now) == rows

Since(rows, now) == {r \in rows : r.at >= now - Window}
Of(rows, src) == {r \in rows : r.src = src}

\* Mutants: one more than the limit passes.
GlobalFullLate(rows, now) == Cardinality(Since(rows, now)) > GlobalLimit
SourceFullLate(rows, now, src) ==
    Cardinality(Of(Since(rows, now), src)) > SourceLimit

GlobalFull(rows, now) == Cardinality(Since(rows, now)) >= GlobalLimit
SourceFull(rows, now, src) ==
    Cardinality(Of(Since(rows, now), src)) >= SourceLimit
OverBudget(rows, now, src) ==
    GlobalFull(rows, now) \/ SourceFull(rows, now, src)

\* Mutant: rows are pruned at the age of the window.
UnprunedTooSoon(rows, now) == {r \in rows : r.at >= now - Window}

\* DELETE ... WHERE occurred_at < now - 3600
Unpruned(rows, now) == {r \in rows : r.at >= now - FailureRetention}

NewFailure(now, src) ==
    [at |-> now, src |-> src,
     nth |-> Cardinality({r \in refusals : r.at = now /\ r.src = src})]

\* INSERT INTO redemption_failures, on a table that may just have been pruned.
Charge(rows, now, src) ==
    /\ failures' = rows \cup {NewFailure(now, src)}
    /\ refusals' = refusals \cup {NewFailure(now, src)}

-----------------------------------------------------------------------------
BudgetInit ==
    /\ clock = 0
    /\ failures = {}
    /\ refusals = {}
    /\ gate = [h \in Handlers |-> None]

\* Time passes.
Tick ==
    /\ clock < MaxTime
    /\ clock' = clock + 1
    /\ UNCHANGED <<failures, refusals, gate>>

\* The part of Database::redeem that concerns this table.  A throttled
\* request commits the pruning and adds no row.
RedeemThrottled(now, src) ==
    /\ OverBudget(Unpruned(failures, now), now, src)
    /\ failures' = Unpruned(failures, now)
    /\ UNCHANGED <<clock, refusals, gate>>

\* A redemption whose code names a redeemable drop.
RedeemGranted(now, src) ==
    /\ ~OverBudget(Unpruned(failures, now), now, src)
    /\ failures' = Unpruned(failures, now)
    /\ UNCHANGED <<clock, refusals, gate>>

\* A redemption whose code names none.
RedeemRefused(now, src) ==
    /\ ~OverBudget(Unpruned(failures, now), now, src)
    /\ Charge(Unpruned(failures, now), now, src)
    /\ UNCHANGED <<clock, gate>>

\* over_failure_budget: the pruning and the global count of failure_counts.
GateCountGlobal(h, now, src) ==
    /\ gate[h] = None
    /\ failures' = Unpruned(failures, now)
    /\ gate' = IF GlobalFull(failures', now)
               THEN gate
               ELSE [gate EXCEPT ![h] =
                        [stage |-> "counted", src |-> src, at |-> now]]
    /\ UNCHANGED <<clock, refusals>>

\* The source count, a statement of its own, and the verdict on both counts.
GateCountSource(h) ==
    /\ gate[h] # None
    /\ gate[h].stage = "counted"
    /\ gate[h].at \in ReadClock
    /\ gate' = IF SourceFull(failures, gate[h].at, gate[h].src)
               THEN [gate EXCEPT ![h] = None]
               ELSE [gate EXCEPT ![h].stage = "checked"]
    /\ UNCHANGED <<clock, failures, refusals>>

\* password_ok is false: punish_failure adds the row, whatever the table
\* holds by then.
GatePunish(h) ==
    /\ gate[h] # None
    /\ gate[h].stage = "checked"
    /\ Charge(failures, gate[h].at, gate[h].src)
    /\ gate' = [gate EXCEPT ![h] = None]
    /\ UNCHANGED clock

\* The password is right, or the request ends another way: the origin is
\* refused, the client disconnects, the row cannot be written (punish_failure
\* drops that error).
GateLeave(h) ==
    /\ gate[h] # None
    /\ gate' = [gate EXCEPT ![h] = None]
    /\ UNCHANGED <<clock, failures, refusals>>

GateStep ==
    \E h \in Handlers :
        \/ \E now \in ReadClock, src \in Sources : GateCountGlobal(h, now, src)
        \/ GateCountSource(h)
        \/ GatePunish(h)
        \/ GateLeave(h)

BudgetNext ==
    \/ Tick
    \/ \E now \in ReadClock, src \in Sources :
          \/ RedeemThrottled(now, src)
          \/ RedeemGranted(now, src)
          \/ RedeemRefused(now, src)
    \/ GateStep

BudgetSpec == BudgetInit /\ [][BudgetNext]_budgetVars

\* The clock does not stop.
BudgetFairSpec == BudgetSpec /\ WF_budgetVars(Tick)

-----------------------------------------------------------------------------
\* The failures answered in the window that ends at t.
During(rows, t) == {r \in rows : r.at \in (t - Window)..t}

\* In a window no more failures are answered than the global limit, plus one
\* for each password attempt that can be in flight ...
GlobalBound ==
    \A t \in -MaxLag..MaxTime :
        Cardinality(During(refusals, t)) <= GlobalLimit + Cardinality(Handlers)

\* ... and for one source no more than its own limit, plus the same.
SourceBound ==
    \A t \in -MaxLag..MaxTime, src \in Sources :
        Cardinality(Of(During(refusals, t), src))
            <= SourceLimit + Cardinality(Handlers)

(***************************************************************************)
(* Both bounds hold in every window, wherever it starts: redeem counts and  *)
(* charges in one transaction, the gate does not.  They are over every      *)
(* failure answered, so they also say that pruning never forgets one that   *)
(* still counts.                                                            *)
(***************************************************************************)
WindowBound == GlobalBound /\ SourceBound

(***************************************************************************)
(* Pruning is invisible: whatever (lagging) time a handler works with, the  *)
(* rows it counts are exactly the failures that happened in its window.     *)
(***************************************************************************)
CountsAreExact ==
    \A now \in ReadClock : Since(failures, now) = Since(refusals, now)

(***************************************************************************)
(* A throttled client is not locked out for good: whatever is attempted     *)
(* meanwhile, by it or by others, its budget is available again at some     *)
(* later moment (a throttled request adds no row).  Its own failures hold   *)
(* it for a window; the failures of others can then fill the global limit,  *)
(* which holds for another, since nothing is added while it is full but by  *)
(* the attempts already in flight.                                          *)
(***************************************************************************)
ThrottleLifts ==
    \A src \in Sources :
        (/\ OverBudget(failures, clock, src)
         /\ clock + 2 * Window + MaxLag + 1 <= MaxTime)
            ~> ~OverBudget(failures, clock, src)

=============================================================================
