----------------------------- MODULE DropAccess -----------------------------
(***************************************************************************)
(* What the registry of drops promises, with no code, clock or table in     *)
(* sight.  A drop is published once and ends once.  A browser session is    *)
(* issued once, to one drop that was live, and from then on can only lose   *)
(* its access; when a drop ends, none of its sessions keeps any.            *)
(***************************************************************************)
CONSTANTS
    Drops,    \* drop identifiers
    Tokens,   \* session tokens
    None      \* no drop

VARIABLES
    phase,    \* where each drop is in its life
    holder,   \* the drop each token was issued for, None if never issued
    access    \* the tokens that open their drop now

vars == <<phase, holder, access>>

TypeOK ==
    /\ phase \in [Drops -> {"unpublished", "live", "ended"}]
    /\ holder \in [Tokens -> Drops \cup {None}]
    /\ access \subseteq Tokens

Init ==
    /\ phase = [d \in Drops |-> "unpublished"]
    /\ holder = [t \in Tokens |-> None]
    /\ access = {}

Publish(d) ==
    /\ phase[d] = "unpublished"
    /\ phase' = [phase EXCEPT ![d] = "live"]
    /\ UNCHANGED <<holder, access>>

Grant(t, d) ==
    /\ phase[d] = "live"
    /\ holder[t] = None
    /\ holder' = [holder EXCEPT ![t] = d]
    /\ access' = access \cup {t}
    /\ UNCHANGED phase

\* A session issued too late to be of use: its drop, or its own lifetime, is
\* already over when it is issued.
GrantLate(t, d) ==
    /\ phase[d] # "unpublished"
    /\ holder[t] = None
    /\ holder' = [holder EXCEPT ![t] = d]
    /\ UNCHANGED <<phase, access>>

\* Drops D end and tokens T lose their access, those of D among them.
End(D, T) ==
    /\ \A d \in D : phase[d] = "live"
    /\ \A t \in access : holder[t] \in D => t \in T
    /\ phase' = [d \in Drops |-> IF d \in D THEN "ended" ELSE phase[d]]
    /\ access' = access \ T
    /\ UNCHANGED holder

Next ==
    \/ \E d \in Drops : Publish(d)
    \/ \E t \in Tokens, d \in Drops : Grant(t, d) \/ GrantLate(t, d)
    \/ \E D \in SUBSET Drops, T \in SUBSET Tokens : End(D, T)

Spec == Init /\ [][Next]_vars

(***************************************************************************)
(* A token that opens anything was issued for a drop that is live: no       *)
(* session outlives the drop it was redeemed for.                           *)
(***************************************************************************)
AccessOnlyToLive == \A t \in access : holder[t] # None /\ phase[holder[t]] = "live"
=============================================================================
