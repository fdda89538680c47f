------------------------------ MODULE DropStore ------------------------------
(***************************************************************************)
(* What the object store promises for a drop, with no file, transaction or  *)
(* collector in sight.  A drop is published once, with contents that never  *)
(* change, stays until it is overdue, and can be read in whole all that     *)
(* time.  The exception is a drop that was exposed: to gc, before it was    *)
(* published, and never afterwards.                                         *)
(***************************************************************************)
CONSTANTS
    Drops,     \* drop identifiers
    Objects,   \* what contents are made of
    None       \* no contents

VARIABLES
    phase,     \* where each drop is in its life
    contents,  \* what each published drop is made of, None when it is not
    exposed,   \* the drops that may lose what they are made of
    readable   \* the published drops that can be read in whole now

vars == <<phase, contents, exposed, readable>>

TypeOK ==
    /\ phase \in [Drops -> {"unpublished", "kept", "overdue", "ended"}]
    /\ contents \in [Drops -> SUBSET Objects \cup {None}]
    /\ exposed \subseteq Drops
    /\ readable \subseteq Drops

Published == {d \in Drops : phase[d] \in {"kept", "overdue"}}

Init ==
    /\ phase = [d \in Drops |-> "unpublished"]
    /\ contents = [d \in Drops |-> None]
    /\ exposed = {}
    /\ readable = {}

\* gc comes across publications that have not ended.
Expose(D) ==
    /\ \A d \in D : phase[d] = "unpublished"
    /\ exposed' = exposed \cup D
    /\ UNCHANGED <<phase, contents, readable>>

Publish(d, what) ==
    /\ phase[d] = "unpublished"
    /\ phase' = [phase EXCEPT ![d] = "kept"]
    /\ contents' = [contents EXCEPT ![d] = what]
    /\ readable' \in {readable, readable \cup {d}}
    /\ d \in readable' \cup exposed
    /\ UNCHANGED exposed

Abandon(d) ==
    /\ phase[d] = "unpublished"
    /\ phase' = [phase EXCEPT ![d] = "ended"]
    /\ UNCHANGED <<contents, exposed, readable>>

BecomeOverdue(d) ==
    /\ phase[d] = "kept"
    /\ phase' = [phase EXCEPT ![d] = "overdue"]
    /\ UNCHANGED <<contents, exposed, readable>>

\* Drops D leave the store.
Purge(D) ==
    /\ \A d \in D : phase[d] = "overdue"
    /\ phase' = [d \in Drops |-> IF d \in D THEN "ended" ELSE phase[d]]
    /\ contents' = [d \in Drops |-> IF d \in D THEN None ELSE contents[d]]
    /\ readable' = readable \ D
    /\ UNCHANGED exposed

\* Published drops that are exposed lose what they are made of, or get it back
\* from another publication of the same bytes.
Waver(R) ==
    /\ R \subseteq Published
    /\ (R \ readable) \cup (readable \ R) \subseteq exposed
    /\ readable' = R
    /\ UNCHANGED <<phase, contents, exposed>>

Next ==
    \/ \E d \in Drops :
          \/ \E what \in SUBSET Objects : Publish(d, what)
          \/ Abandon(d)
          \/ BecomeOverdue(d)
    \/ \E D \in SUBSET Drops : Expose(D) \/ Purge(D) \/ Waver(D)

Spec == Init /\ [][Next]_vars

(***************************************************************************)
(* A published drop that was not exposed can be read in whole.              *)
(***************************************************************************)
PublishedIsReadable == Published \ exposed \subseteq readable
=============================================================================
