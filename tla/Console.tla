------------------------------- MODULE Console -------------------------------
(***************************************************************************)
(* Who may act in the FrankenDrop console: the admin sessions of            *)
(* src/src/db.rs and the handlers of src/src/web.rs that unlock, lock,      *)
(* revoke, recode and submit, each with the order of its own checks.  The   *)
(* handlers await between their steps and interleave with each other and    *)
(* with redemptions; all of them share the failure budget, whose actions    *)
(* are FailureBudget's.  What an admitted request does to drops is          *)
(* DropRegistry's, and how a submission is read Upload's.                   *)
(***************************************************************************)
EXTENDS FailureBudget

CONSTANTS
    AdminTokens,      \* admin session tokens, each issued at most once
    AdminSessionTTL,  \* ADMIN_SESSION_TTL_SECS
    MaxLost,          \* bound of the model: failures that could not be recorded
    MaxRequests       \* bound of the model: requests made

ASSUME ConsoleAssumption ==
    /\ None \notin AdminTokens
    /\ AdminSessionTTL \in Nat \ {0}
    /\ MaxLost \in Nat /\ MaxRequests \in Nat

VARIABLES
    admin,     \* the rows of admin_sessions, by token
    req,       \* the request each handler is serving, None if none
    issued,    \* history: when each token was issued, on the clock
    locked,    \* history: tokens whose row a lock request has deleted
    wrong,     \* history: the wrong passwords and wrong codes answered as such
    lost,      \* history: those whose failure could not be recorded
    arrived    \* history: the requests made

consoleVars == <<admin, req, issued, locked, wrong, lost, arrived>>
allVars == <<budgetVars, consoleVars>>

-----------------------------------------------------------------------------
\* Revoking and recoding ("change") check the same things in the same order.
Ops == {"unlock", "change", "submit"}

\* A request: the reading of the clock it works with, the token of its cookie,
\* what it waits for, whether a session admitted it and when, and the tokens
\* that were locked before it was made.
Request ==
    [op : Ops, src : Sources, now : Int, token : AdminTokens \cup {None},
     locked : SUBSET AdminTokens,
     stage : {"authorize", "budget", "count", "password", "act"},
     session : BOOLEAN, admitted : Int]

ASSUME NoneIsNoRequest == None \notin Request

ConsoleTypeOK ==
    /\ \A t \in DOMAIN admin : t \in AdminTokens /\ admin[t].expires \in Int
    /\ req \in [Handlers -> Request \cup {None}]
    /\ DOMAIN admin \subseteq DOMAIN issued
    /\ locked \subseteq DOMAIN issued
    /\ wrong \in Nat
    /\ lost \in 0..MaxLost
    /\ arrived \in 0..MaxRequests
    /\ \A h \in Handlers :
          gate[h] # None <=> req[h] # None /\ req[h].stage \in {"count", "password"}

ConsoleInit ==
    /\ BudgetInit
    /\ admin = <<>>
    /\ req = [h \in Handlers |-> None]
    /\ issued = <<>>
    /\ locked = {}
    /\ wrong = 0
    /\ lost = 0
    /\ arrived = 0

At(h, stage) == req[h] # None /\ req[h].stage = stage
Goto(h, stage) == req' = [req EXCEPT ![h].stage = stage]
Answered(h) == req' = [req EXCEPT ![h] = None]

-----------------------------------------------------------------------------
\* A request arrives.  Unlocking asks for no session.
Arrive(h, op, src, token) ==
    /\ req[h] = None
    /\ arrived < MaxRequests
    /\ token = None \/ token \in DOMAIN issued
    /\ op = "unlock" => token = None
    /\ arrived' = arrived + 1
    /\ req' = [req EXCEPT ![h] =
                 [op |-> op, src |-> src, now |-> clock, token |-> token,
                  locked |-> locked,
                  stage |-> IF op = "unlock" THEN "budget" ELSE "authorize",
                  session |-> FALSE, admitted |-> 0]]
    /\ UNCHANGED <<budgetVars, admin, issued, locked, wrong, lost>>

\* Mutant: a session is valid in the second it expires, too.
ValidLate(token, now) == token \in DOMAIN admin /\ admin[token].expires >= now

\* validate_admin_session
Valid(token, now) == token \in DOMAIN admin /\ admin[token].expires > now

\* authorize_admin, and the origin where it comes next: a submission without
\* a session looks at it after the budget, and so does unlocking.
Authorize(h, origin) ==
    /\ At(h, "authorize")
    /\ req[h].now \in ReadClock
    /\ LET session == Valid(req[h].token, req[h].now)
       IN  IF ~origin /\ (session \/ req[h].op # "submit") THEN Answered(h)
           ELSE IF session
                THEN req' = [req EXCEPT ![h].session = TRUE, ![h].stage = "act",
                                        ![h].admitted = clock]
                ELSE Goto(h, "budget")
    /\ UNCHANGED <<budgetVars, admin, issued, locked, wrong, lost, arrived>>

\* Mutant: the rows of all sources are not counted.
BudgetSkipped(h) ==
    /\ At(h, "budget")
    /\ gate' = [gate EXCEPT ![h] =
                  [stage |-> "counted", src |-> req[h].src, at |-> req[h].now]]
    /\ Goto(h, "count")
    /\ UNCHANGED <<clock, failures, refusals, admin, issued, locked, wrong, lost,
                   arrived>>

\* over_failure_budget
Budget(h) ==
    /\ At(h, "budget")
    /\ req[h].now \in ReadClock
    /\ GateCountGlobal(h, req[h].now, req[h].src)
    /\ IF gate'[h] = None THEN Answered(h) ELSE Goto(h, "count")
    /\ UNCHANGED <<admin, issued, locked, wrong, lost, arrived>>

Count(h) ==
    /\ At(h, "count")
    /\ GateCountSource(h)
    /\ IF gate'[h] = None THEN Answered(h) ELSE Goto(h, "password")
    /\ UNCHANGED <<admin, issued, locked, wrong, lost, arrived>>

\* The origin of a request to unlock or to submit is looked at only now.
OriginOpen(h) == req[h].op # "change"

\* Mutant: a failure is recorded although the origin was refused.
RefuseOriginCharging(h) ==
    /\ At(h, "password")
    /\ OriginOpen(h)
    /\ GatePunish(h)
    /\ Answered(h)
    /\ UNCHANGED <<admin, issued, locked, wrong, lost, arrived>>

RefuseOrigin(h) ==
    /\ At(h, "password")
    /\ OriginOpen(h)
    /\ GateLeave(h)
    /\ Answered(h)
    /\ UNCHANGED <<admin, issued, locked, wrong, lost, arrived>>

PasswordRight(h) ==
    /\ At(h, "password")
    /\ GateLeave(h)
    /\ Goto(h, "act")
    /\ UNCHANGED <<admin, issued, locked, wrong, lost, arrived>>

\* punish_failure, and the answer.
PasswordWrong(h) ==
    /\ At(h, "password")
    /\ GatePunish(h)
    /\ wrong' = wrong + 1
    /\ Answered(h)
    /\ UNCHANGED <<admin, issued, locked, lost, arrived>>

\* The failure cannot be recorded: the database stays busy, say.  The answer
\* is the same.
PasswordWrongUnrecorded(h) ==
    /\ At(h, "password")
    /\ lost < MaxLost
    /\ GateLeave(h)
    /\ wrong' = wrong + 1
    /\ lost' = lost + 1
    /\ Answered(h)
    /\ UNCHANGED <<admin, issued, locked, arrived>>

\* create_admin_session: expired rows go, the new one is inserted, and the
\* cookie with its token is sent.
Unlock(h, token) ==
    /\ At(h, "act")
    /\ req[h].op = "unlock"
    /\ req[h].now \in ReadClock
    /\ token \notin DOMAIN issued
    /\ LET kept == {t \in DOMAIN admin : admin[t].expires >= req[h].now}
       IN  admin' = [t \in kept \cup {token} |->
                       IF t = token THEN [expires |-> req[h].now + AdminSessionTTL] ELSE admin[t]]
    /\ issued' = [t \in DOMAIN issued \cup {token} |->
                    IF t = token THEN clock ELSE issued[t]]
    /\ Answered(h)
    /\ UNCHANGED <<budgetVars, locked, wrong, lost, arrived>>

\* revoke_drop, reissue_code or create_drop.
Act(h) ==
    /\ At(h, "act")
    /\ req[h].op # "unlock"
    /\ Answered(h)
    /\ UNCHANGED <<budgetVars, admin, issued, locked, wrong, lost, arrived>>

\* Mutant: locking takes back the cookie and leaves the row.
LockedRows(token) == DOMAIN admin

\* DELETE FROM admin_sessions WHERE tag = ?
RowsWithout(token) == DOMAIN admin \ {token}

\* frankendrop_lock: a request of one transaction.
Lock(token) ==
    /\ token \in DOMAIN issued
    /\ arrived < MaxRequests
    /\ arrived' = arrived + 1
    /\ admin' = [t \in RowsWithout(token) |-> admin[t]]
    /\ locked' = locked \cup {token}
    /\ UNCHANGED <<budgetVars, req, issued, wrong, lost>>

\* The deletion fails: the error is dropped, the cookie is taken back all the
\* same, and the row stays.
LockFailed(token) ==
    /\ token \in DOMAIN issued
    /\ arrived < MaxRequests
    /\ arrived' = arrived + 1
    /\ UNCHANGED <<budgetVars, admin, req, issued, locked, wrong, lost>>

\* The client disconnects and the handler is dropped, or it fails.
Leave(h) ==
    /\ req[h] # None
    /\ IF gate[h] # None THEN GateLeave(h) ELSE UNCHANGED budgetVars
    /\ Answered(h)
    /\ UNCHANGED <<admin, issued, locked, wrong, lost, arrived>>

\* Redemptions go on meanwhile.
Redemption(now, src) ==
    /\ arrived < MaxRequests
    /\ arrived' = arrived + 1
    /\ \/ /\ RedeemThrottled(now, src) \/ RedeemGranted(now, src)
          /\ UNCHANGED wrong
       \/ /\ RedeemRefused(now, src)
          /\ wrong' = wrong + 1
    /\ UNCHANGED <<admin, req, issued, locked, lost>>

TimePasses == Tick /\ UNCHANGED consoleVars

HandlerStep(h) ==
    \/ \E op \in Ops, src \in Sources, token \in AdminTokens \cup {None} :
          Arrive(h, op, src, token)
    \/ \E origin \in BOOLEAN : Authorize(h, origin)
    \/ Budget(h) \/ Count(h) \/ RefuseOrigin(h) \/ PasswordRight(h)
    \/ PasswordWrong(h) \/ PasswordWrongUnrecorded(h)
    \/ \E token \in AdminTokens : Unlock(h, token)
    \/ Act(h) \/ Leave(h)

ConsoleNext ==
    \/ TimePasses
    \/ \E h \in Handlers : HandlerStep(h)
    \/ \E token \in AdminTokens : Lock(token) \/ LockFailed(token)
    \/ \E now \in ReadClock, src \in Sources : Redemption(now, src)

ConsoleSpec == ConsoleInit /\ [][ConsoleNext]_allVars

-----------------------------------------------------------------------------
(***************************************************************************)
(* README.md:153-155: each wrong password is charged to the budget of the   *)
(* codes, whichever handler it was given to and whatever else is refused,   *)
(* exactly once; and nothing else is.  The failures the database did not    *)
(* take are the only ones missing.                                          *)
(***************************************************************************)
WrongAnswersAreCharged == Cardinality(refusals) + lost = wrong

(***************************************************************************)
(* A session that had been locked when a request was made does not admit    *)
(* it, whatever unlocked, expired or was pruned since.  (A lock whose       *)
(* deletion failed locks nothing, although it is answered in the same way:  *)
(* its session is left to SessionsEnd.)                                     *)
(***************************************************************************)
LockedSessionsStayOut ==
    \A h \in Handlers :
        At(h, "act") /\ req[h].session => req[h].token \notin req[h].locked

(***************************************************************************)
(* A session admits nothing once its lifetime has passed since it was       *)
(* issued, give or take the lag of the handler's reading of the clock.      *)
(***************************************************************************)
SessionsEnd ==
    \A h \in Handlers :
        At(h, "act") /\ req[h].session =>
            req[h].admitted < issued[req[h].token] + AdminSessionTTL + MaxLag

(***************************************************************************)
(* As far as the table of failures goes, the handlers are a FailureBudget:  *)
(* its bounds hold whatever order a handler checks things in, as no handler *)
(* answers that a password was wrong before it has counted both limits.     *)
(***************************************************************************)
ImplementsGate == [][BudgetNext]_budgetVars
=============================================================================
