---------------------------- MODULE DropRegistry ----------------------------
(***************************************************************************)
(* The registry of src/src/db.rs: the tables drops, sessions and            *)
(* redemption_failures of one SQLite database, shared by the web server and *)
(* by every run of the command line.  A write is one immediate transaction, *)
(* hence one action; what happens between transactions (the choice of a     *)
(* code, the reading of the clock) is not protected by it.                  *)
(*                                                                         *)
(* Left out: the manifest columns and the table entries, which no decision  *)
(* taken here reads and whose rows follow their drop; audit_events and      *)
(* sessions.last_seen_at, which are written and never read back; and the    *)
(* table archives, which belongs to the object store.  A failed transaction *)
(* (disk error, busy timeout) rolls back and is a stuttering step.          *)
(***************************************************************************)
EXTENDS FailureBudget

CONSTANTS
    Drops,            \* the identifiers random_public_id can draw
    Codes,            \* code tags
    Tokens,           \* the session tags of the tokens random_session can draw
    Allocators,       \* publications and reissues that may run at once
    CodeTTLs,         \* lifetimes of a code
    DropTTLs,         \* lifetimes of a drop
    Limits,           \* max_redemptions: positive numbers, None for unlimited
    SessionTTL,       \* --session-ttl
    SessionGrace,     \* 86400 s: redeem prunes sessions that ended before that
    Retentions        \* the values of gc --retention

\* storage.rs:151-169 bounds the lifetimes by 1 minute from below, main.rs
\* the session lifetime by 1 minute and the retention by 1 hour.  A handler
\* waits at most 8 s for the write lock (busy_timeout, db.rs:28).
ASSUME RegistryAssumption ==
    /\ CodeTTLs \subseteq Int /\ DropTTLs \subseteq Int
    /\ \A ttl \in CodeTTLs \cup DropTTLs : ttl > MaxLag
    /\ Limits \subseteq (Nat \ {0}) \cup {None}
    /\ SessionTTL \in Nat \ {0}
    /\ SessionGrace \in Nat /\ SessionGrace >= MaxLag
    /\ Retentions \subseteq Nat /\ \A ret \in Retentions : ret >= MaxLag
    /\ IsFiniteSet(Tokens)

VARIABLES
    drops,      \* the table drops, None where there is no row
    sessions,   \* the table sessions, None where there is no row
    alloc,      \* the code each publication or reissue found to be free
    published,  \* history: the drops ever inserted
    holder      \* history: the drop each token was issued for

registryVars == <<drops, sessions, alloc, published, holder>>
vars == <<budgetVars, registryVars>>

-----------------------------------------------------------------------------
DropRow ==
    [code : Codes, created : Int, expires : Int, codeExpires : Int,
     revoked : Int \cup {None}, max : Nat \cup {None}, count : Nat]

SessionRow ==
    [drop : Drops, created : Int, expires : Int, revoked : Int \cup {None}]

\* A value that is absent is none of the values that can be present.
ASSUME NoneAssumption ==
    /\ None \notin Int
    /\ None \notin DropRow /\ None \notin SessionRow
    /\ None \notin Drops /\ None \notin Codes

TypeOK ==
    /\ BudgetTypeOK
    /\ drops \in [Drops -> DropRow \cup {None}]
    /\ sessions \in [Tokens -> SessionRow \cup {None}]
    /\ alloc \in [Allocators -> Codes \cup {None}]
    /\ published \subseteq Drops
    /\ holder \in [Tokens -> Drops \cup {None}]

Stored == {d \in Drops : drops[d] # None}
Issued == {t \in Tokens : sessions[t] # None}

Least(a, b) == IF a <= b THEN a ELSE b

\* Mutant: a revoked drop passes for active until it expires.
ActiveThoughRevoked(d, now) == d \in Stored /\ drops[d].expires > now

\* "revoked_at IS NULL AND expires_at > now"
Active(d, now) ==
    /\ d \in Stored
    /\ drops[d].revoked = None
    /\ drops[d].expires > now

\* Mutant: the limit is compared one too late.
RedeemableOnceMore(d, code, now) ==
    /\ Active(d, now)
    /\ drops[d].code = code
    /\ drops[d].codeExpires > now
    /\ drops[d].max # None => drops[d].count <= drops[d].max

\* The row redeem selects as its candidate.
Redeemable(d, code, now) ==
    /\ Active(d, now)
    /\ drops[d].code = code
    /\ drops[d].codeExpires > now
    /\ drops[d].max # None => drops[d].count < drops[d].max

\* validate_session, for the drop named in the session row.
Opens(t, now) ==
    /\ t \in Issued
    /\ sessions[t].revoked = None
    /\ sessions[t].expires > now
    /\ Active(sessions[t].drop, now)

\* Mutant: the code of a revoked drop is taken to be free.
CodeInUseByUnrevoked(code) ==
    \E d \in Stored : drops[d].code = code /\ drops[d].revoked = None

\* code_tag_exists, and the UNIQUE constraint on code_tag.
CodeInUse(code) == \E d \in Stored : drops[d].code = code

\* Mutants: the expiry of the drop is not applied to its session; the lifetime
\* of a reissued code is not added.
SessionExpiryUncapped(d, now) == now + SessionTTL
ReissuedExpiryAtOnce(d, now, ttl) == Least(drops[d].expires, now)

SessionExpiry(d, now) == Least(now + SessionTTL, drops[d].expires)
ReissuedExpiry(d, now, ttl) == Least(drops[d].expires, now + ttl)

\* Mutant: drops that merely expired are kept.
PurgeableIfRevoked(d, cutoff) ==
    d \in Stored /\ drops[d].revoked # None /\ drops[d].revoked < cutoff

\* "expires_at < cutoff OR (revoked_at IS NOT NULL AND revoked_at < cutoff)"
Purgeable(d, cutoff) ==
    /\ d \in Stored
    /\ \/ drops[d].expires < cutoff
       \/ drops[d].revoked # None /\ drops[d].revoked < cutoff

\* Mutant: sessions are pruned by the time they were created.
SessionsCreatedSince(cutoff) ==
    [t \in Tokens |->
        IF t \in Issued /\ sessions[t].created < cutoff
        THEN None ELSE sessions[t]]

\* sessions without the rows that ended before cutoff
SessionsSince(cutoff) ==
    [t \in Tokens |->
        IF t \in Issued /\ sessions[t].expires < cutoff
        THEN None ELSE sessions[t]]

-----------------------------------------------------------------------------
Init ==
    /\ BudgetInit
    /\ drops = [d \in Drops |-> None]
    /\ sessions = [t \in Tokens |-> None]
    /\ alloc = [a \in Allocators |-> None]
    /\ published = {}
    /\ holder = [t \in Tokens |-> None]

\* create_drop and reissue_code draw codes until one is in no row, each time
\* in a transaction of its own.
AllocateCode(a, code) ==
    /\ alloc[a] = None
    /\ ~CodeInUse(code)
    /\ alloc' = [alloc EXCEPT ![a] = code]
    /\ UNCHANGED <<budgetVars, drops, sessions, published, holder>>

\* The publication or reissue ends without effect: another one inserted the
\* same code first (UNIQUE), no active drop matches the reference or several
\* do, the process fails or is killed.
Abandon(a) ==
    /\ alloc[a] # None
    /\ alloc' = [alloc EXCEPT ![a] = None]
    /\ UNCHANGED <<budgetVars, drops, sessions, published, holder>>

\* insert_drop, with the columns create_drop computed.
NewDrop(code, now, codeTTL, dropTTL, max) ==
    [code |-> code, created |-> now, expires |-> now + dropTTL,
     codeExpires |-> now + codeTTL, revoked |-> None, max |-> max, count |-> 0]

Publish(a, d, now, codeTTL, dropTTL, max) ==
    /\ alloc[a] # None
    /\ codeTTL <= dropTTL
    /\ d \notin published
    /\ ~CodeInUse(alloc[a])
    /\ drops' = [drops EXCEPT ![d] =
                    NewDrop(alloc[a], now, codeTTL, dropTTL, max)]
    /\ published' = published \cup {d}
    /\ alloc' = [alloc EXCEPT ![a] = None]
    /\ UNCHANGED <<budgetVars, sessions, holder>>

\* rotate_code, once the reference has been resolved to one active drop.  UNIQUE
\* looks at the other rows only.  The old code is gone, the count of redemptions
\* goes on.
Reissue(a, d, now, ttl) ==
    /\ alloc[a] # None
    /\ Active(d, now)
    /\ \A e \in Stored \ {d} : drops[e].code # alloc[a]
    /\ ReissuedExpiry(d, now, ttl) > drops[d].created
    /\ drops' = [drops EXCEPT ![d].code = alloc[a],
                              ![d].codeExpires = ReissuedExpiry(d, now, ttl)]
    /\ alloc' = [alloc EXCEPT ![a] = None]
    /\ UNCHANGED <<budgetVars, sessions, published, holder>>

-----------------------------------------------------------------------------
\* Mutant: the row is added without looking at the window.
RedeemRejectedUnthrottled(now, src, code) ==
    /\ ~\E d \in Drops : Redeemable(d, code, now)
    /\ Charge(Unpruned(failures, now), now, src)
    /\ sessions' = SessionsSince(now - SessionGrace)
    /\ UNCHANGED <<clock, gate, drops, alloc, published, holder>>

\* redeem.  Whatever the outcome, the transaction first prunes the failures
\* and the sessions that ended a day ago.
RedeemRejected(now, src, code) ==
    /\ \/ RedeemThrottled(now, src)
       \/ /\ ~\E d \in Drops : Redeemable(d, code, now)
          /\ RedeemRefused(now, src)
    /\ sessions' = SessionsSince(now - SessionGrace)
    /\ UNCHANGED <<drops, alloc, published, holder>>

RedeemAccepted(now, src, code, d, t) ==
    /\ Redeemable(d, code, now)
    /\ RedeemGranted(now, src)
    /\ holder[t] = None
    /\ sessions' = [SessionsSince(now - SessionGrace) EXCEPT ![t] =
                       [drop |-> d, created |-> now,
                        expires |-> SessionExpiry(d, now), revoked |-> None]]
    /\ drops' = [drops EXCEPT ![d].count = @ + 1]
    /\ holder' = [holder EXCEPT ![t] = d]
    /\ UNCHANGED <<alloc, published>>

\* Mutant: the sessions are left to the check of the drop.
RevokeNoSessions(d, now) == sessions

\* revoke_drop.  It does not ask whether the drop has expired.
RevokeSessions(d, now) ==
    [t \in Tokens |->
        IF t \in Issued /\ sessions[t].drop = d /\ sessions[t].revoked = None
        THEN [sessions[t] EXCEPT !.revoked = now]
        ELSE sessions[t]]

Revoke(d, now) ==
    /\ d \in Stored
    /\ drops[d].revoked = None
    /\ drops' = [drops EXCEPT ![d].revoked = now]
    /\ sessions' = RevokeSessions(d, now)
    /\ UNCHANGED <<budgetVars, alloc, published, holder>>

\* apply_retention, called by gc --execute.  Deleting a drop deletes its
\* sessions (ON DELETE CASCADE).
ApplyRetention(now, retention) ==
    /\ drops' = [d \in Drops |->
                    IF Purgeable(d, now - retention) THEN None ELSE drops[d]]
    /\ sessions' = [t \in Tokens |->
                       IF t \in Issued /\ Purgeable(sessions[t].drop, now - retention)
                       THEN None ELSE SessionsSince(now)[t]]
    /\ UNCHANGED <<budgetVars, alloc, published, holder>>

-----------------------------------------------------------------------------
PublicationStep ==
    \E a \in Allocators :
        \/ \E code \in Codes : AllocateCode(a, code)
        \/ Abandon(a)
        \/ \E d \in Drops, now \in ReadClock, codeTTL \in CodeTTLs,
              dropTTL \in DropTTLs, max \in Limits :
              Publish(a, d, now, codeTTL, dropTTL, max)
        \/ \E d \in Drops, now \in ReadClock, ttl \in CodeTTLs :
              Reissue(a, d, now, ttl)

\* None stands for input that is no code, which is given a tag of its own.
RedemptionStep ==
    \E now \in ReadClock, src \in Sources, code \in Codes \cup {None} :
        \/ RedeemRejected(now, src, code)
        \/ \E d \in Drops, t \in Tokens : RedeemAccepted(now, src, code, d, t)

RetentionStep ==
    \E now \in ReadClock, retention \in Retentions : ApplyRetention(now, retention)

Next ==
    \/ Tick /\ UNCHANGED registryVars
    \/ GateStep /\ UNCHANGED registryVars
    \/ PublicationStep
    \/ RedemptionStep
    \/ \E d \in Drops, now \in ReadClock : Revoke(d, now)
    \/ RetentionStep

Spec == Init /\ [][Next]_vars

\* Time passes, and the gc timer (deploy: OnCalendar=daily, Persistent=true)
\* keeps running gc --execute.
FairSpec == Spec /\ WF_vars(Tick /\ UNCHANGED registryVars) /\ WF_vars(RetentionStep)

-----------------------------------------------------------------------------
(***************************************************************************)
(* A code opens at most one drop, although two publications may have found  *)
(* the same code free before either inserted it.                            *)
(***************************************************************************)
CodesUnique ==
    \A d, e \in Stored : drops[d].code = drops[e].code => d = e

(***************************************************************************)
(* A session row never outlives its drop: the drop is still in the table,   *)
(* and the session ends no later than it, whatever stale time redeem used   *)
(* and whatever gc purged in between.                                       *)
(***************************************************************************)
SessionScoped ==
    \A t \in Issued :
        /\ sessions[t].drop = holder[t]
        /\ sessions[t].drop \in Stored
        /\ sessions[t].expires <= drops[sessions[t].drop].expires

(***************************************************************************)
(* Revoking a drop cuts every session of it, those redeemed just before     *)
(* included, and a redemption that comes just after issues none.            *)
(***************************************************************************)
RevokedDropHasNoLiveSession ==
    \A t \in Issued :
        drops[sessions[t].drop].revoked # None => sessions[t].revoked # None

HeldBy(d) == {t \in Tokens : holder[t] = d}

(***************************************************************************)
(* Over its whole life a drop is redeemed at most max_redemptions times:    *)
(* the count is the number of sessions ever issued for it, also after its   *)
(* code was reissued and after the session rows were pruned.                *)
(***************************************************************************)
RedemptionsBounded ==
    \A d \in Stored :
        /\ drops[d].count = Cardinality(HeldBy(d))
        /\ drops[d].max # None => drops[d].count <= drops[d].max

(***************************************************************************)
(* A reissue of an active drop is never turned down by the constraint       *)
(* code_expires_at > created_at, however far the clocks of the publication  *)
(* and of the reissue lag behind.                                           *)
(***************************************************************************)
ReissueAdmitted ==
    \A d \in Drops, now \in ReadClock, ttl \in CodeTTLs :
        Active(d, now) => ReissuedExpiry(d, now, ttl) > drops[d].created

Revoked(d) == d \in Stored /\ drops[d].revoked # None

(***************************************************************************)
(* A session loses its access only to its own expiry, to that of its drop   *)
(* or to a revocation: no reissue, redemption or gc run takes it away.      *)
(***************************************************************************)
AccessKept ==
    [][\A t \in Tokens, d \in Drops :
          Opens(t, clock) /\ ~Opens(t, clock)' /\ sessions[t].drop = d
              => clock' >= sessions[t].expires \/ Revoked(d)'
      ]_vars

\* The registry as DropAccess sees it: a drop is live from its publication to
\* its expiry or revocation, a token has access while it opens its drop.
Live(d) ==
    d \in Stored /\ drops[d].revoked = None /\ drops[d].expires > clock

AbstractPhase ==
    [d \in Drops |->
        IF d \notin published THEN "unpublished"
        ELSE IF Live(d) THEN "live" ELSE "ended"]

Abstract ==
    INSTANCE DropAccess WITH
        phase  <- AbstractPhase,
        access <- {t \in Tokens : Opens(t, clock)}

(***************************************************************************)
(* Codes, clocks and tables aside, the registry does what DropAccess says.  *)
(***************************************************************************)
ImplementsDropAccess == Abstract!Spec

(***************************************************************************)
(* As far as the table of failures goes, every transaction of the registry  *)
(* is a step of FailureBudget, so its bounds hold of the whole database.    *)
(***************************************************************************)
ImplementsBudget == BudgetSpec

(***************************************************************************)
(* Every drop is purged some time after its expiry and retention, with all  *)
(* of its sessions (for the drops that expire early enough for the bounded  *)
(* clock of the model to reach that time).                                  *)
(***************************************************************************)
PurgedInTheEnd ==
    \A d \in Drops :
        (/\ d \in Stored
         /\ \A ret \in Retentions : drops[d].expires + ret + MaxLag < MaxTime)
            ~> (d \notin Stored /\ \A t \in Issued : sessions[t].drop # d)
=============================================================================
