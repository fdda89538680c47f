---------------------------- MODULE RangeRequest ----------------------------
(***************************************************************************)
(* Byte ranges and validators: parse_range, etag_matches, if_range_matches  *)
(* and serve_representation of src/src/web.rs, and a client that resumes a  *)
(* broken download of a drop's archive with Range and If-Range and asks     *)
(* again for a whole one with If-None-Match, as browsers do (RFC 9110,      *)
(* external).  HEAD has the same answer without a body, and is left out.    *)
(*                                                                         *)
(* The bytes of an archive follow from the manifest and from the archive    *)
(* format of the program, so they change only when another version of the   *)
(* program is deployed, or the former one is put back; each version has a   *)
(* cache entry of its own, with the time it was built as Last-Modified.     *)
(***************************************************************************)
EXTENDS Integers, FiniteSets

CONSTANTS
    Versions,     \* archive formats; the bytes and the ETag are their own
    MaxSize,      \* bound of the model: sizes of archives
    MaxTime,      \* bound of the model: the clock stops here
    Validators,   \* what the client sends in If-Range: "etag" or "date"
    Absent,       \* an end of a range that is left out
    Malformed,    \* an end of a range that is not a number of 64 bits
    None          \* an absent value

ASSUME RangeAssumption ==
    /\ MaxSize \in Nat /\ MaxTime \in Nat
    /\ {Absent, Malformed, None} \cap Int = {}
    /\ Absent # Malformed
    /\ None \notin Versions

VARIABLES
    clock,      \* the clock, in seconds
    size,       \* the size of the archive in each format
    deployed,   \* the version that runs
    built,      \* when the archive of each version was built, None if not
    client,     \* the copy the client has assembled
    transfer    \* the response being received, None if there is none

vars == <<clock, size, deployed, built, client, transfer>>

-----------------------------------------------------------------------------
\* A Range header of one range, or of several; "signed" if one of its numbers
\* has a plus sign, which parse::<u64> reads over and RFC 9110 forbids.
Ends == 0..(MaxSize + 1) \cup {Absent, Malformed}
IsNumber(e) == e \notin {Absent, Malformed}

RangeSpec ==
    [unit : {"bytes", "other"}, several : BOOLEAN, dash : BOOLEAN, signed : BOOLEAN,
     first : Ends, last : Ends]

From(n) ==
    [unit |-> "bytes", several |-> FALSE, dash |-> TRUE, signed |-> FALSE,
     first |-> n, last |-> Absent]

Least(a, b) == IF a <= b THEN a ELSE b

Ignore == [kind |-> "ignore"]
Unsatisfiable == [kind |-> "unsatisfiable"]
Satisfiable(a, b) == [kind |-> "satisfiable", start |-> a, end |-> b]

\* "bytes=-n": the last n bytes.
ParseSuffix(n, total) ==
    IF n = 0 \/ total = 0 THEN Unsatisfiable
    ELSE Satisfiable(total - Least(n, total), total - 1)

\* Mutant: the last position is not clipped to the representation.
ParseRangeUnclipped(spec, total) ==
    IF spec.unit # "bytes" \/ spec.several \/ ~spec.dash THEN Ignore
    ELSE IF spec.first = Absent
         THEN IF IsNumber(spec.last) THEN ParseSuffix(spec.last, total) ELSE Ignore
    ELSE IF spec.first = Malformed THEN Ignore
    ELSE IF spec.first >= total THEN Unsatisfiable
    ELSE IF spec.last = Absent THEN Satisfiable(spec.first, total - 1)
    ELSE IF spec.last = Malformed THEN Ignore
    ELSE IF spec.last < spec.first THEN Ignore
    ELSE Satisfiable(spec.first, spec.last)

ParseRange(spec, total) ==
    IF spec.unit # "bytes" \/ spec.several \/ ~spec.dash THEN Ignore
    ELSE IF spec.first = Absent
         THEN IF IsNumber(spec.last) THEN ParseSuffix(spec.last, total) ELSE Ignore
    ELSE IF spec.first = Malformed THEN Ignore
    ELSE IF spec.first >= total THEN Unsatisfiable
    ELSE IF spec.last = Absent THEN Satisfiable(spec.first, total - 1)
    ELSE IF spec.last = Malformed THEN Ignore
    ELSE IF spec.last < spec.first THEN Ignore
    ELSE Satisfiable(spec.first, Least(spec.last, total - 1))

-----------------------------------------------------------------------------
\* What the client holds: the ETag and Last-Modified it came with, the number
\* of bytes, the versions they came from, and whether it takes it for whole.
NoCopy == [tag |-> None, date |-> None, have |-> 0, from |-> {}, whole |-> FALSE]

\* The ETag is the digest, hence the version, of the representation; its
\* Last-Modified is the time it was built.
Representation ==
    [tag |-> deployed, date |-> built[deployed], total |-> size[deployed]]

\* Mutant: a client that names another representation is believed.
IfRangeUnchecked(validator, rep) == TRUE

\* if_range_matches: the ETag is the same, or the date is not before
\* Last-Modified.
IfRangeMatches(validator, rep) ==
    IF validator = "etag" THEN client.tag = rep.tag ELSE rep.date <= client.date

\* Mutant: the last byte of the range is left out.
ServeShort(rep, spec, allowed) ==
    LET decision == IF allowed THEN ParseRange(spec, rep.total) ELSE Ignore
    IN  CASE decision.kind = "satisfiable" ->
                [status |-> 206, start |-> decision.start,
                 length |-> decision.end - decision.start, rep |-> rep]
          [] decision.kind = "unsatisfiable" ->
                [status |-> 416, start |-> 0, length |-> 0, rep |-> rep]
          [] OTHER ->
                [status |-> 200, start |-> 0, length |-> rep.total, rep |-> rep]

\* serve_representation: status, first byte and number of bytes of the body.
\* Without a range an empty representation has no last byte.
Serve(rep, spec, allowed) ==
    LET decision == IF allowed THEN ParseRange(spec, rep.total) ELSE Ignore
    IN  CASE decision.kind = "satisfiable" ->
                [status |-> 206, start |-> decision.start,
                 length |-> decision.end - decision.start + 1, rep |-> rep]
          [] decision.kind = "unsatisfiable" ->
                [status |-> 416, start |-> 0, length |-> 0, rep |-> rep]
          [] OTHER ->
                [status |-> 200, start |-> 0, length |-> rep.total, rep |-> rep]

\* etag_matches: the ETag is one of those listed in If-None-Match.  (A * stands
\* for all of them; no client here sends it.)
NotModified(tags, rep) == rep.tag \in tags

Init ==
    /\ clock = 0
    /\ size \in [Versions -> 0..MaxSize]
    /\ deployed \in Versions
    /\ built = [v \in Versions |-> IF v = deployed THEN 0 ELSE None]
    /\ client = NoCopy
    /\ transfer = None

\* Another version is deployed, or the former one put back.  Its archive is
\* built on the next request; if it has been built before it is still there.
Deploy(v) ==
    /\ v # deployed
    /\ clock < MaxTime
    /\ clock' = clock + 1
    /\ deployed' = v
    /\ built' = [built EXCEPT ![v] = IF @ = None THEN clock' ELSE @]
    /\ UNCHANGED <<size, client, transfer>>

\* gc has taken the archive for stale and it is built again: the same bytes.
Rebuild ==
    /\ clock < MaxTime
    /\ clock' = clock + 1
    /\ built' = [built EXCEPT ![deployed] = clock']
    /\ UNCHANGED <<size, deployed, client, transfer>>

\* A first request, or one for the bytes that are missing.  A 200 replaces
\* the copy, a 206 continues it, a 416 says that nothing is missing or that
\* the copy is of no use.
Request(validator) ==
    /\ transfer = None
    /\ ~client.whole
    /\ LET rep == Representation
           response ==
             IF client.tag = None \/ client.have = 0
             THEN Serve(rep, From(0), FALSE)
             ELSE Serve(rep, From(client.have), IfRangeMatches(validator, rep))
       IN  CASE response.status = 200 ->
                   /\ client' = [NoCopy EXCEPT !.tag = rep.tag, !.date = rep.date]
                   /\ transfer' = response
             [] response.status = 206 ->
                   /\ transfer' = response
                   /\ UNCHANGED client
             [] response.status = 416 ->
                   /\ client' = IF client.have = rep.total
                                THEN [client EXCEPT !.whole = TRUE] ELSE NoCopy
                   /\ UNCHANGED transfer
    /\ UNCHANGED <<clock, size, deployed, built>>

\* A whole copy is asked for again: it is kept after a 304, which is sent
\* before any range is looked at, and replaced by the archive of the version
\* that runs now after a 200.
Revalidate ==
    /\ transfer = None
    /\ client.whole
    /\ LET rep == Representation
       IN  IF NotModified({client.tag}, rep)
           THEN UNCHANGED <<client, transfer>>
           ELSE /\ client' = [NoCopy EXCEPT !.tag = rep.tag, !.date = rep.date]
                /\ transfer' = Serve(rep, From(0), FALSE)
    /\ UNCHANGED <<clock, size, deployed, built>>

\* Some bytes of the body arrive; at its end the client compares its copy with
\* the size that was announced.
Receive(n) ==
    /\ transfer # None
    /\ n \in 1..transfer.length
    /\ client' = [client EXCEPT !.have = @ + n, !.from = @ \cup {transfer.rep.tag}]
    /\ transfer' = [transfer EXCEPT !.start = @ + n, !.length = @ - n]
    /\ UNCHANGED <<clock, size, deployed, built>>

Finish ==
    /\ transfer # None
    /\ transfer.length = 0
    /\ client' = [client EXCEPT !.whole = client.have = transfer.rep.total]
    /\ transfer' = None
    /\ UNCHANGED <<clock, size, deployed, built>>

\* The connection breaks.
Break ==
    /\ transfer # None
    /\ transfer' = None
    /\ UNCHANGED <<clock, size, deployed, built, client>>

Next ==
    \/ \E v \in Versions : Deploy(v)
    \/ Rebuild
    \/ \E validator \in Validators : Request(validator)
    \/ Revalidate
    \/ \E n \in 1..MaxSize : Receive(n)
    \/ Finish
    \/ Break

Spec == Init /\ [][Next]_vars

-----------------------------------------------------------------------------
TypeOK ==
    /\ clock \in 0..MaxTime
    /\ size \in [Versions -> 0..MaxSize]
    /\ deployed \in Versions
    /\ built \in [Versions -> (0..MaxTime) \cup {None}]
    /\ client \in [tag : Versions \cup {None}, date : (0..MaxTime) \cup {None},
                   have : 0..MaxSize, from : SUBSET Versions, whole : BOOLEAN]
    /\ transfer = None \/ transfer.length \in 0..MaxSize

\* RFC 9110, 14.1.2: the positions a single range stands for, which is well
\* formed, or would be without its plus signs.
WellFormed(spec) ==
    /\ spec.unit = "bytes" /\ ~spec.several /\ spec.dash
    /\ \/ spec.first = Absent /\ IsNumber(spec.last)
       \/ IsNumber(spec.first) /\ spec.last = Absent
       \/ IsNumber(spec.first) /\ IsNumber(spec.last) /\ spec.first <= spec.last

Positions(spec, total) ==
    {i \in 0..(total - 1) :
        IF spec.first = Absent THEN i >= total - spec.last
        ELSE i >= spec.first /\ (IsNumber(spec.last) => i <= spec.last)}

(***************************************************************************)
(* parse_range selects exactly the bytes that RFC 9110 says a well-formed   *)
(* range stands for, refuses it just when there are none, and never lets a  *)
(* malformed one select any, for every size from nothing upwards; a plus    *)
(* sign alone, which makes a range malformed, changes nothing.              *)
(***************************************************************************)
RangesAreExact ==
    \A spec \in RangeSpec, v \in Versions :
        LET decision == ParseRange(spec, size[v])
        IN  IF WellFormed(spec)
            THEN IF Positions(spec, size[v]) = {}
                 THEN decision = Unsatisfiable
                 ELSE /\ decision.kind = "satisfiable"
                      /\ decision.start..decision.end = Positions(spec, size[v])
            ELSE decision.kind # "satisfiable"

(***************************************************************************)
(* A copy resumed with the ETag is never put together from two versions,    *)
(* and one the client takes for whole has all the bytes of its version,     *)
(* whatever was deployed, put back or rebuilt between the requests.         *)
(***************************************************************************)
CopiesAreHonest ==
    /\ client.from \subseteq {client.tag}
    /\ client.whole => client.have = size[client.tag]

(***************************************************************************)
(* What comes next in a response continues the copy: no byte of it is       *)
(* skipped or received twice.                                               *)
(***************************************************************************)
TransferContinuesCopy ==
    transfer # None =>
        /\ transfer.start = client.have
        /\ transfer.start + transfer.length = transfer.rep.total
=============================================================================
