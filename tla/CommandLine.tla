----------------------------- MODULE CommandLine -----------------------------
(***************************************************************************)
(* The commands and the server as processes over one state directory: each  *)
(* loads the master key (MasterKey), then frankenfile create publishes a    *)
(* drop under a code it announces, frankenfile recode replaces the code of  *)
(* a drop named by a reference, and the server redeems what a receiver      *)
(* types (src/src/main.rs, storage.rs, security.rs and db.rs).  When        *)
(* exactly a code or a drop ends is DropRegistry's, which sources are       *)
(* throttled FailureBudget's; here each may end at any time.  A row's       *)
(* code_tag, the hash of a code under a key, is here the two themselves.    *)
(*                                                                         *)
(* A character is a string of length one; a code, a drop identifier and     *)
(* what people type are sequences of characters.                            *)
(***************************************************************************)
EXTENDS MasterKey, SequencesExt

CONSTANTS
    UpperOf,       \* the upper-case letter of each lower-case letter
    Digits,        \* the digits
    Codes,         \* the codes that random_code may draw, in either style
    CodeLength,    \* CODE_LENGTH
    DropIds,       \* the identifiers that random_public_id draws
    References,    \* what operators give to recode
    MinReference,  \* the least length of a reference, 8 in the code
    Limits         \* max_redemptions of a drop, None for no limit

ASSUME AlphabetAssumption ==
    /\ Codes \subseteq [1..CodeLength -> Range(UpperOf) \cup Digits]
    /\ CodeLength \in Nat \ {0}
    /\ \A l \in DOMAIN UpperOf : UpperOf[l] \notin DOMAIN UpperOf \cup Digits
    /\ Digits \cap DOMAIN UpperOf = {}
    /\ {" ", "tab", "-"} \cap (DOMAIN UpperOf \cup Range(UpperOf) \cup Digits) = {}

\* "any" is no character: it stands for the wildcard of LIKE.
ASSUME TextAssumption ==
    /\ DropIds \cup References \subseteq Seq(STRING)
    /\ IsFiniteSet(DropIds)
    /\ "any" \notin DOMAIN UpperOf \cup Range(UpperOf) \cup Digits
    /\ MinReference \in Nat \ {0}

ASSUME LimitAssumption == Limits \subseteq Nat \cup {None} /\ None \notin Nat

Jobs ==
    [step : {"commit", "print", "failed", "done"}, reference : References \cup {None},
     code : Codes, drop : DropIds \cup {None}]

\* The runs that processes may have: a process and the number of its start.
Runs == Processes \X (1..MaxRuns)

Rows ==
    [active : BOOLEAN, fresh : BOOLEAN, left : Nat \cup {None},
     key : Keys \cup {None}, code : Codes, by : Runs]

ASSUME NoneIsNoRecord == None \notin Jobs /\ None \notin Rows

VARIABLES
    rows,       \* the rows of drops
    job,        \* the command of each process that has its key
    announced,  \* history: the codes printed, with the process that did
    addressed   \* history: the last recode that ended, None before one

commandVars == <<rows, job, announced, addressed>>
allVars == <<vars, commandVars>>

-----------------------------------------------------------------------------
Lower == DOMAIN UpperOf
Letters == Lower \cup Range(UpperOf)
ToUpper(c) == IF c \in Lower THEN UpperOf[c] ELSE c
Uppercase(text) == [i \in DOMAIN text |-> ToUpper(text[i])]

\* Blanks are what trim removes; some separators may stand inside a code.
Blanks == {" ", "tab"}
Separators == {" ", "-"}
Trim(text) ==
    LET kept == {i \in DOMAIN text : text[i] \notin Blanks}
    IN  IF kept = {} THEN <<>> ELSE SubSeq(text, Min(kept), Max(kept))

\* The k-th of some positions, in their order.
Nth(positions, k) ==
    CHOOSE i \in positions : Cardinality({j \in positions : j <= i}) = k

\* filter: a text without its separators.  SelectSeq says the same by recursion.
Compact(text) ==
    LET kept == {i \in DOMAIN text : text[i] \notin Separators}
    IN  [k \in 1..Cardinality(kept) |-> text[Nth(kept, k)]]

\* Mutant: letters keep their case.
NormalizeKeepingCase(text) ==
    LET compact == Compact(Trim(text))
    IN  IF Len(compact) = CodeLength /\ Range(compact) \subseteq Letters \cup Digits
        THEN compact ELSE None

\* normalize_code
Normalize(text) ==
    LET compact == Uppercase(Compact(Trim(text)))
    IN  IF Len(compact) = CodeLength /\ Range(compact) \subseteq Letters \cup Digits
        THEN compact ELSE None

StoredDrops == {d \in DropIds : rows[d] # None}
ActiveDrops == {d \in StoredDrops : rows[d].active}

\* code_tag_exists, and the UNIQUE constraint: the drops with this code_tag.
Tagged(key, code) == {d \in StoredDrops : <<rows[d].key, rows[d].code>> = <<key, code>>}

\* Mutant: _ stands for any character.
EscapedAny(c) == IF c = "_" THEN "any" ELSE c

\* What a character of a reference is in the pattern for LIKE: each stands for
\* itself, for _ is escaped.
Escaped(c) == c

\* id LIKE pattern%, which does not tell upper from lower case
Like(pattern, id) ==
    /\ Len(pattern) <= Len(id)
    /\ \A i \in DOMAIN pattern :
          pattern[i] = "any" \/ ToUpper(pattern[i]) = ToUpper(id[i])

Acceptable(reference) ==
    /\ Len(reference) >= MinReference
    /\ Range(reference) \subseteq Letters \cup Digits \cup {"-", "_"}

CommandInit ==
    /\ Init
    /\ rows = [d \in DropIds |-> None]
    /\ job = [p \in Processes |-> None]
    /\ announced = {}
    /\ addressed = None

-----------------------------------------------------------------------------
\* A process starts, comes by its key, or ends and takes its command with it:
\* by an error, killed, or done.
KeyStep ==
    /\ Next
    /\ job' = [p \in Processes |-> IF proc'[p].stage = "ready" THEN job[p] ELSE None]
    /\ UNCHANGED <<rows, announced, addressed>>

At(p, step) ==
    /\ proc[p].stage = "ready"
    /\ job[p] # None
    /\ job[p].step = step

\* create or recode has a code that no row has under its key.
Draw(p, reference, code) ==
    /\ proc[p].stage = "ready"
    /\ job[p] = None
    /\ reference # None => Acceptable(Trim(reference))
    /\ Tagged(proc[p].key, code) = {}
    /\ job' = [job EXCEPT ![p] =
          [step |-> "commit", reference |-> reference, code |-> code, drop |-> None]]
    /\ UNCHANGED <<vars, rows, announced, addressed>>

\* A row under a new code, with the redemptions that are left of its limit and,
\* as history, the process that wrote the code.
Row(p, left) ==
    [active |-> TRUE, fresh |-> TRUE, left |-> left,
     key |-> proc[p].key, code |-> job[p].code, by |-> Own(p)]

\* insert_drop.  It fails if another process has taken the code meanwhile.
Publish(p, d, limit) ==
    /\ At(p, "commit") /\ job[p].reference = None
    /\ rows[d] = None
    /\ Tagged(proc[p].key, job[p].code) = {}
    /\ rows' = [rows EXCEPT ![d] = Row(p, limit)]
    /\ job' = [job EXCEPT ![p].step = "print", ![p].drop = d]
    /\ UNCHANGED <<vars, announced, addressed>>

Matches(reference) ==
    {d \in ActiveDrops : Like([i \in DOMAIN reference |-> Escaped(reference[i])], d)}

\* The drop that rotate_code takes, if it takes one: the only match.
Chosen(matches) == IF Cardinality(matches) = 1 THEN matches ELSE {}

\* rotate_code: NotFound, Ambiguous, or the new code in place of the old, with a
\* lifetime of its own.  The redemptions are counted on.
Rotate(p) ==
    /\ At(p, "commit") /\ job[p].reference # None
    /\ LET reference == Trim(job[p].reference)
           chosen == Chosen(Matches(reference))
       IN  /\ addressed' = [reference |-> reference, stored |-> StoredDrops,
                            active |-> ActiveDrops, chosen |-> chosen]
           /\ IF chosen = {}
              THEN /\ job' = [job EXCEPT ![p].step = "failed"]
                   /\ UNCHANGED rows
              ELSE \E d \in chosen :
                         /\ Tagged(proc[p].key, job[p].code) \subseteq {d}
                         /\ rows' = [rows EXCEPT ![d] = Row(p, rows[d].left)]
                         /\ job' = [job EXCEPT ![p].step = "print", ![p].drop = d]
    /\ UNCHANGED <<vars, announced>>

\* The command prints what it has committed, however late.
Announce(p) ==
    /\ At(p, "print")
    /\ announced' = announced \cup
          {[by |-> Own(p), drop |-> job[p].drop, code |-> job[p].code]}
    /\ job' = [job EXCEPT ![p].step = "done"]
    /\ UNCHANGED <<vars, rows, addressed>>

\* frankenfile revoke, which takes a whole identifier and no key, or expiry.
Deactivate(d) ==
    /\ d \in ActiveDrops
    /\ rows' = [rows EXCEPT ![d].active = FALSE]
    /\ UNCHANGED <<vars, job, announced, addressed>>

\* code_expires_at passes.
ExpireCode(d) ==
    /\ d \in StoredDrops /\ rows[d].fresh
    /\ rows' = [rows EXCEPT ![d].fresh = FALSE]
    /\ UNCHANGED <<vars, job, announced, addressed>>

\* The drops whose code still admits somebody.
Redeemable == {d \in ActiveDrops : rows[d].fresh /\ rows[d].left # 0}

\* Mutant: a code is redeemed after it has expired.
FoundLate(p, text) ==
    {d \in ActiveDrops : /\ rows[d].left # 0
                         /\ <<rows[d].key, rows[d].code>> = <<proc[p].key, Normalize(text)>>}

\* The drop that redeem selects for a text, at a server and for a source that
\* is not throttled.
Found(p, text) ==
    {d \in Redeemable : <<rows[d].key, rows[d].code>> = <<proc[p].key, Normalize(text)>>}

\* A redemption that is granted.  One that is throttled or finds nothing leaves
\* the rows as they are.
Redeem(p, text) ==
    /\ proc[p].stage = "ready"
    /\ \E d \in Found(p, text) :
          rows' = [rows EXCEPT ![d].left = IF @ = None THEN None ELSE @ - 1]
    /\ UNCHANGED <<vars, job, announced, addressed>>

CommandNext ==
    \/ KeyStep
    \/ \E p \in Processes :
          \/ \E code \in Codes, reference \in References \cup {None} :
                Draw(p, reference, code)
          \/ \E d \in DropIds, limit \in Limits : Publish(p, d, limit)
          \/ Rotate(p)
          \/ Announce(p)
          \/ \E text \in Codes : Redeem(p, text)
    \/ \E d \in DropIds : Deactivate(d) \/ ExpireCode(d)

CommandSpec == CommandInit /\ [][CommandNext]_allVars

-----------------------------------------------------------------------------
Lowered(code) ==
    [i \in DOMAIN code |-> IF \E l \in Lower : UpperOf[l] = code[i]
                           THEN CHOOSE l \in Lower : UpperOf[l] = code[i] ELSE code[i]]

\* How people write a code: in lower case or as printed, with one blank or
\* hyphen anywhere in it or around it.
Spellings(code) ==
    UNION {{written} \cup {InsertAt(written, i, s) : i \in 1..(CodeLength + 1), s \in Separators} :
              written \in {code, Lowered(code)}}

(***************************************************************************)
(* A code that create or recode printed is the code of its drop until it is *)
(* recoded, for whoever writes it down, in either case and with separators, *)
(* and at any server or restarted server: it opens that drop while the drop *)
(* is active, the code has not expired and redemptions are left, and        *)
(* otherwise it opens nothing, no other drop that is published meanwhile    *)
(* included.  It makes no difference that processes have raced for the      *)
(* first key, are killed after the commit, or print after another has       *)
(* recoded the same drop.  (A source over the failure budget is refused     *)
(* before its text is looked up, whatever it is.)                           *)
(***************************************************************************)
AnnouncedCodesWork ==
    \A a \in announced, p \in Processes :
        rows[a.drop].by = a.by /\ proc[p].stage = "ready" =>
            \A text \in Spellings(a.code) : Found(p, text) = {a.drop} \cap Redeemable

\* The drops of some whose identifiers begin with a reference, letter for letter
\* or upper and lower case apart.
Exactly(reference, some) == {d \in some : IsPrefix(reference, d)}
Alike(reference, some) == {d \in some : IsPrefix(Uppercase(reference), Uppercase(d))}

(***************************************************************************)
(* What a recode makes of its reference, although LIKE has wildcards and    *)
(* does not tell upper from lower case.  It changes a drop only if that one *)
(* and no other active drop begins with the reference, case apart, and is   *)
(* refused only if none does or several do.  So a reference that names an   *)
(* active drop letter for letter changes that drop or, if others begin so,  *)
(* none.  What it does to a reference that names no active drop letter for  *)
(* letter is IdentifiersNameTheirDrop's.                                    *)
(***************************************************************************)
RecodesWhatIsNamed ==
    addressed # None =>
        LET exactly == Exactly(addressed.reference, addressed.active)
            alike == Alike(addressed.reference, addressed.active)
        IN  /\ addressed.chosen = IF Cardinality(alike) = 1 THEN alike ELSE {}
            /\ exactly # {} => addressed.chosen \subseteq exactly

(***************************************************************************)
(* db.rs:444-445, "The drop may be addressed by a unique ID prefix", and    *)
(* storage.rs:323-324, "addressed by ID or unique ID prefix": the whole     *)
(* identifier of a drop changes that drop or none.                          *)
(***************************************************************************)
IdentifiersNameTheirDrop ==
    addressed # None /\ addressed.reference \in addressed.stored =>
        addressed.chosen \subseteq {addressed.reference}
=============================================================================
