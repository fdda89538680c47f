----------------------------- MODULE FetchClient -----------------------------
(***************************************************************************)
(* frankenfile get (src/src/fetch.rs): processes that redeem a code,        *)
(* download the bundle of the drop it names and extract it into a place of  *)
(* the cache that is named after the code, or into the directory that       *)
(* --output names, all on one machine.  A place that holds an earlier       *)
(* fetch, with its marker file, is reported without asking the server.      *)
(*                                                                         *)
(* The server appears as the drop each code names now; recode, revocation   *)
(* and expiry change it.  A drop's bundle does not change (ObjectStore), so *)
(* files are modelled by the drop they came from and by how many are there. *)
(***************************************************************************)
EXTENDS Naturals, FiniteSets

CONSTANTS
    Fetchers,    \* processes that run frankenfile get
    Codes,       \* pickup codes; the place of a code in the cache is the code
    Outputs,     \* directories that --output names
    Drops,
    Clashing,    \* drops that hold a file with the name of the marker
    MaxChanges,  \* bound of the model: changes of a code on the server
    MaxKills,    \* bound of the model: processes killed
    MaxEdits,    \* bound of the model: what users do to the directories
    None         \* an absent value

Places == Codes \cup Outputs

ASSUME FetchAssumption ==
    /\ Codes \cap Outputs = {}
    /\ Clashing \subseteq Drops
    /\ None \notin Drops \cup Places
    /\ MaxChanges \in Nat /\ MaxKills \in Nat /\ MaxEdits \in Nat

VARIABLES
    names,     \* the drop each code names on the server, None if none
    ever,      \* history: the drops each code has named
    dir,       \* what is at each place
    fetcher,   \* what each process is doing
    staging,   \* the number of .frankenfile-fetch-* directories
    result,    \* what each process reported last, NoResult if it failed
    changes, kills, edits   \* history: how many of each have happened

vars == <<names, ever, dir, fetcher, staging, result, changes, kills, edits>>

-----------------------------------------------------------------------------
Stages == {"idle", "probe", "prepare", "redeem", "download", "extract", "mark",
           "publish", "finish"}
Amounts == {"none", "some", "all"}

Absent == [kind |-> "absent", drop |-> None, files |-> "none"]
Directory(kind) == [kind |-> kind, drop |-> None, files |-> "none"]
Fetched(d, files) == [kind |-> "fetched", drop |-> d, files |-> files]

Idle == [stage |-> "idle", code |-> None, place |-> None, drop |-> None,
         files |-> "none"]
NoResult == [code |-> None, place |-> None, drop |-> None]

\* The processes that have a staging directory.
Staged == {f \in Fetchers : fetcher[f].stage \notin {"idle", "probe", "prepare"}}

TypeOK ==
    /\ names \in [Codes -> Drops \cup {None}]
    /\ ever \in [Codes -> SUBSET Drops]
    /\ dir \in [Places -> [kind : {"absent", "empty", "other", "fetched"},
                           drop : Drops \cup {None}, files : Amounts]]
    /\ fetcher \in [Fetchers -> [stage : Stages, code : Codes \cup {None},
                                 place : Places \cup {None},
                                 drop : Drops \cup {None}, files : Amounts]]
    /\ staging \in Nat
    /\ result \in [Fetchers -> [code : Codes \cup {None}, place : Places \cup {None},
                                drop : Drops \cup {None}]]
    /\ changes \in 0..MaxChanges /\ kills \in 0..MaxKills /\ edits \in 0..MaxEdits

Init ==
    /\ names = [c \in Codes |-> None]
    /\ ever = [c \in Codes |-> {}]
    /\ dir = [p \in Places |-> Absent]
    /\ fetcher = [f \in Fetchers |-> Idle]
    /\ staging = 0
    /\ result = [f \in Fetchers |-> NoResult]
    /\ changes = 0
    /\ kills = 0
    /\ edits = 0

-----------------------------------------------------------------------------
\* The server: a code comes to name a drop that no other code names, or none.
Repoint(c, d) ==
    /\ changes < MaxChanges
    /\ d # names[c]
    /\ d # None => \A other \in Codes : names[other] # d
    /\ names' = [names EXCEPT ![c] = d]
    /\ ever' = [ever EXCEPT ![c] = @ \cup ({d} \ {None})]
    /\ changes' = changes + 1
    /\ UNCHANGED <<dir, fetcher, staging, result, kills, edits>>

\* Mutant: the key of the cache leaves out the code.
DestinationShared(c) == CHOOSE p \in Codes : TRUE

\* parse_target and destination: the key of the cache is a hash of the URL of
\* the server and the code.
Destination(c) == c

\* A user runs the command, with --output or without.
Start(f, c, output) ==
    /\ fetcher[f].stage = "idle"
    /\ fetcher' = [fetcher EXCEPT ![f] =
                     [Idle EXCEPT !.stage = "probe", !.code = c,
                                  !.place = IF output = None THEN Destination(c)
                                            ELSE output]]
    /\ result' = [result EXCEPT ![f] = NoResult]
    /\ UNCHANGED <<names, ever, dir, staging, changes, kills, edits>>

\* The process ends with an error; its staging directory, if it has one, goes.
Fail(f) ==
    /\ fetcher' = [fetcher EXCEPT ![f] = Idle]
    /\ staging' = staging - Cardinality({f} \cap Staged)

\* cached_result: a place with a marker is reported.
ProbeHit(f) ==
    /\ fetcher[f].stage = "probe"
    /\ dir[fetcher[f].place].kind = "fetched"
    /\ result' = [result EXCEPT ![f] =
                    [code |-> fetcher[f].code, place |-> fetcher[f].place,
                     drop |-> dir[fetcher[f].place].drop]]
    /\ fetcher' = [fetcher EXCEPT ![f] = Idle]
    /\ UNCHANGED <<names, ever, dir, staging, changes, kills, edits>>

ProbeMiss(f) ==
    /\ fetcher[f].stage = "probe"
    /\ dir[fetcher[f].place].kind # "fetched"
    /\ fetcher' = [fetcher EXCEPT ![f].stage = "prepare"]
    /\ UNCHANGED <<names, ever, dir, staging, result, changes, kills, edits>>

\* The place must still be free; then there is a staging directory.
Prepare(f) ==
    /\ fetcher[f].stage = "prepare"
    /\ IF dir[fetcher[f].place].kind = "absent"
       THEN /\ fetcher' = [fetcher EXCEPT ![f].stage = "redeem"]
            /\ staging' = staging + 1
       ELSE Fail(f)
    /\ UNCHANGED <<names, ever, dir, result, changes, kills, edits>>

\* The server answers with the drop and a session, or rejects the code.
Redeem(f) ==
    /\ fetcher[f].stage = "redeem"
    /\ IF names[fetcher[f].code] # None
       THEN /\ fetcher' = [fetcher EXCEPT ![f].stage = "download",
                                          ![f].drop = names[fetcher[f].code]]
            /\ UNCHANGED staging
       ELSE Fail(f)
    /\ UNCHANGED <<names, ever, dir, result, changes, kills, edits>>

Download(f) ==
    /\ fetcher[f].stage = "download"
    /\ fetcher' = [fetcher EXCEPT ![f].stage = "extract"]
    /\ UNCHANGED <<names, ever, dir, staging, result, changes, kills, edits>>

\* Mutant: the extraction ends when the first entry has been written.
ExtractFirst(f) ==
    /\ fetcher[f].stage = "extract"
    /\ fetcher' = [fetcher EXCEPT ![f].files = "some", ![f].stage = "mark"]
    /\ UNCHANGED <<names, ever, dir, staging, result, changes, kills, edits>>

\* The entries are written one after another.
Extract(f) ==
    /\ fetcher[f].stage = "extract"
    /\ fetcher' = IF fetcher[f].files = "none"
                  THEN [fetcher EXCEPT ![f].files = "some"]
                  ELSE [fetcher EXCEPT ![f].files = "all", ![f].stage = "mark"]
    /\ UNCHANGED <<names, ever, dir, staging, result, changes, kills, edits>>

\* The marker is created in the staging directory; an entry of the bundle with
\* its name is in the way.
Mark(f) ==
    /\ fetcher[f].stage = "mark"
    /\ IF fetcher[f].drop \in Clashing
       THEN Fail(f)
       ELSE /\ fetcher' = [fetcher EXCEPT ![f].stage = "publish"]
            /\ UNCHANGED staging
    /\ UNCHANGED <<names, ever, dir, result, changes, kills, edits>>

\* Mutant: what has come to the place meanwhile is replaced.
RenamableAlways(p) == TRUE

\* rename of a directory: onto nothing, or onto an empty directory.
Renamable(p) == dir[p].kind \in {"absent", "empty"}

\* The payload is renamed to its place.
Publish(f) ==
    /\ fetcher[f].stage = "publish"
    /\ Renamable(fetcher[f].place)
    /\ dir' = [dir EXCEPT ![fetcher[f].place] =
                 Fetched(fetcher[f].drop, fetcher[f].files)]
    /\ fetcher' = [fetcher EXCEPT ![f].stage = "finish"]
    /\ UNCHANGED <<names, ever, staging, result, changes, kills, edits>>

PublishRefused(f) ==
    /\ fetcher[f].stage = "publish"
    /\ ~Renamable(fetcher[f].place)
    /\ Fail(f)
    /\ UNCHANGED <<names, ever, dir, result, changes, kills, edits>>

\* Mutant: the staging directory is kept, as TempDir::into_path does.
FinishKeeping(f) ==
    /\ fetcher[f].stage = "finish"
    /\ result' = [result EXCEPT ![f] =
                    [code |-> fetcher[f].code, place |-> fetcher[f].place,
                     drop |-> fetcher[f].drop]]
    /\ fetcher' = [fetcher EXCEPT ![f] = Idle]
    /\ UNCHANGED <<names, ever, dir, staging, changes, kills, edits>>

\* The parent is synced and the fetch reported; the TempDir takes the rest of
\* the staging directory with it.
Finish(f) ==
    /\ fetcher[f].stage = "finish"
    /\ result' = [result EXCEPT ![f] =
                    [code |-> fetcher[f].code, place |-> fetcher[f].place,
                     drop |-> fetcher[f].drop]]
    /\ fetcher' = [fetcher EXCEPT ![f] = Idle]
    /\ staging' = staging - 1
    /\ UNCHANGED <<names, ever, dir, changes, kills, edits>>

\* The connection, a limit or the disk fails.
Break(f) ==
    /\ f \in Staged
    /\ Fail(f)
    /\ UNCHANGED <<names, ever, dir, result, changes, kills, edits>>

\* The process is killed and leaves what it has staged.
Kill(f) ==
    /\ f \in Staged
    /\ kills < MaxKills
    /\ fetcher' = [fetcher EXCEPT ![f] = Idle]
    /\ kills' = kills + 1
    /\ UNCHANGED <<names, ever, dir, staging, result, changes, edits>>

\* Users make directories where --output points, and remove what is there, but
\* not under a process that is about to report it.
MakeDirectory(p, kind) ==
    /\ edits < MaxEdits
    /\ dir[p].kind = "absent"
    /\ dir' = [dir EXCEPT ![p] = Directory(kind)]
    /\ edits' = edits + 1
    /\ UNCHANGED <<names, ever, fetcher, staging, result, changes, kills>>

Remove(p) ==
    /\ edits < MaxEdits
    /\ dir[p].kind # "absent"
    /\ \A f \in Fetchers : fetcher[f].stage = "finish" => fetcher[f].place # p
    /\ dir' = [dir EXCEPT ![p] = Absent]
    /\ result' = [f \in Fetchers |->
                    IF result[f].place = p THEN NoResult ELSE result[f]]
    /\ edits' = edits + 1
    /\ UNCHANGED <<names, ever, fetcher, staging, changes, kills>>

Step(f) ==
    \/ \E c \in Codes, output \in Outputs \cup {None} : Start(f, c, output)
    \/ ProbeHit(f) \/ ProbeMiss(f) \/ Prepare(f) \/ Redeem(f) \/ Download(f)
    \/ Extract(f) \/ Mark(f)
    \/ Publish(f) \/ PublishRefused(f) \/ Finish(f) \/ Break(f) \/ Kill(f)

Next ==
    \/ \E c \in Codes, d \in Drops \cup {None} : Repoint(c, d)
    \/ \E f \in Fetchers : Step(f)
    \/ \E p \in Outputs, kind \in {"empty", "other"} : MakeDirectory(p, kind)
    \/ \E p \in Places : Remove(p)

Spec == Init /\ [][Next]_vars

-----------------------------------------------------------------------------
(***************************************************************************)
(* A place with a marker has all the files of one drop, whichever processes *)
(* were fetching to it, failed or were killed on the way: a later hit may   *)
(* trust it without looking.  And the marker is the client's: a drop that   *)
(* brings a file of that name never gets a place, in which one of the two   *)
(* would have to go or be taken for the other.                              *)
(***************************************************************************)
MarkedPlacesAreWhole ==
    \A p \in Places :
        dir[p].kind = "fetched" =>
            dir[p].drop \in Drops \ Clashing /\ dir[p].files = "all"

(***************************************************************************)
(* Of all the ways a fetch can end, at each of its steps, only being killed *)
(* leaves its staging directory, with up to --max-bytes twice over in it.   *)
(***************************************************************************)
StagingIsAccountedFor == staging = Cardinality(Staged) + kills

(***************************************************************************)
(* What a process has reported stays where it said: no other process that   *)
(* fetches to the same place, another drop perhaps, replaces or removes it. *)
(***************************************************************************)
ResultsStayInPlace ==
    \A f \in Fetchers :
        result[f] # NoResult =>
            dir[result[f].place] = Fetched(result[f].drop, "all")

(***************************************************************************)
(* A fetch into the cache reports a drop that its code has named.           *)
(***************************************************************************)
CacheReportsWhatTheCodeNamed ==
    \A f \in Fetchers :
        result[f].place \in Codes => result[f].drop \in ever[result[f].code]
=============================================================================
