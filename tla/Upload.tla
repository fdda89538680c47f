-------------------------------- MODULE Upload --------------------------------
(***************************************************************************)
(* One submission to the FrankenDrop console: frankendrop_submit and        *)
(* ingest_frankendrop of src/src/web.rs.  The parts of a multipart form     *)
(* arrive in an order the client chooses; files are stored under            *)
(* tmp/frankendrop-<token>, then create_drop captures them one after        *)
(* another on a blocking thread, which is not stopped when the handler is   *)
(* dropped.  Who may submit, and what a wrong password costs, is Console.   *)
(***************************************************************************)
EXTENDS Integers, Sequences, FiniteSets

CONSTANTS
    RawNames,    \* names that file parts come with; Unsafe is refused as a name
    Unsafe,
    MaxParts,    \* bound of the model: parts of the form
    MaxFiles     \* MAX_UPLOAD_FILES

(***************************************************************************)
(* A name is a stem and the counters appended to it: [stem |-> "a", tail    *)
(* |-> <<2>>] is a-2.txt.                                                   *)
(***************************************************************************)
Stems == {n.stem : n \in RawNames} \cup {"upload"}
Names == [stem : Stems, tail : Seq(Nat)]

ASSUME UploadAssumption ==
    /\ Unsafe \notin RawNames
    /\ RawNames \subseteq Names
    /\ MaxParts \in Nat /\ MaxFiles \in Nat \ {0}

VARIABLES
    handler,     \* what the handler is doing
    authorized,  \* by a session at arrival, or by a password since
    sent,        \* history: the raw names of the file parts received
    used,        \* the names taken in this submission
    files,       \* the stored files, in order
    dir,         \* the upload directory: content by name, empty if there is none
    task,        \* what create_drop is doing on its thread
    captured,    \* what it has captured so far
    published,   \* the entries of the drop that was inserted, empty if none
    answer,      \* what the client has been told
    parts        \* history: the number of parts received

vars == <<handler, authorized, sent, used, files, dir, task, captured, published,
          answer, parts>>

-----------------------------------------------------------------------------
Least(S) == CHOOSE n \in S : \A m \in S : n <= m

\* safe_component, or the name that replaces what it refuses.
SafeName(raw, n) == IF raw = Unsafe THEN [stem |-> "upload", tail |-> <<n>>] ELSE raw

\* Mutant: a file whose name is taken gets the counter 2.
UniqueNameOnce(name, taken) ==
    IF name \notin taken THEN name ELSE [name EXCEPT !.tail = Append(@, 2)]

\* uniquify_name: the first counter from 2 that is free.
UniqueName(name, taken) ==
    IF name \notin taken THEN name
    ELSE LET numbered(k) == [name EXCEPT !.tail = Append(@, k)]
             free == {k \in 2..(2 + Cardinality(taken)) : numbered(k) \notin taken}
         IN  numbered(Least(free))

Put(f, x, y) == [z \in DOMAIN f \cup {x} |-> IF z = x THEN y ELSE f[z]]

Init ==
    /\ handler = "receiving"
    /\ authorized \in BOOLEAN
    /\ sent = <<>>
    /\ used = {}
    /\ files = <<>>
    /\ dir = <<>>
    /\ task = "idle"
    /\ captured = <<>>
    /\ published = <<>>
    /\ answer = "none"
    /\ parts = 0

Receiving ==
    /\ handler = "receiving"
    /\ parts < MaxParts
    /\ parts' = parts + 1

\* The ingestion ends with a rejection; the handler cleans up before it answers.
Reject ==
    /\ handler' = "rejected"
    /\ UNCHANGED <<authorized, sent, used, files, dir, task, captured, published,
                   answer>>

\* A password part: ignored when a session has authorized the request.
Password(right) ==
    /\ Receiving
    /\ IF authorized \/ right
       THEN /\ authorized' = TRUE
            /\ UNCHANGED <<handler, sent, used, files, dir, task, captured,
                           published, answer>>
       ELSE Reject

\* A title, a duration, a limit: out of range, too long or cut off, it is
\* refused.  An unknown part is drained.
Field(valid) ==
    /\ Receiving
    /\ IF valid
       THEN UNCHANGED <<handler, authorized, sent, used, files, dir, task,
                        captured, published, answer>>
       ELSE Reject

\* Mutant: files are accepted and the password is verified in the end.
AdmitFileUnverified == TRUE

\* A file part is admitted.
AdmitFile == authorized

TooMany == Len(files) >= MaxFiles

\* A file part.  The last byte of a file that is cut off never comes: the part
\* is refused with the file half written; content 0 stands for half a file.
File(raw, whole) ==
    /\ Receiving
    /\ IF ~AdmitFile \/ TooMany
       THEN Reject
       ELSE LET name == UniqueName(SafeName(raw, Len(files) + 1), used)
            IN  /\ used' = used \cup {name}
                /\ dir' = Put(dir, name, IF whole THEN Len(files) + 1 ELSE 0)
                /\ sent' = IF whole THEN Append(sent, raw) ELSE sent
                /\ files' = IF whole THEN Append(files, name) ELSE files
                /\ handler' = IF whole THEN handler ELSE "rejected"
                /\ UNCHANGED <<authorized, task, captured, published, answer>>

\* A file part without a name: what a browser sends when nothing is chosen.
EmptyFile ==
    /\ Receiving
    /\ IF AdmitFile
       THEN UNCHANGED <<handler, authorized, sent, used, files, dir, task,
                        captured, published, answer>>
       ELSE Reject

\* The form is complete: create_drop starts, or there is nothing to publish.
EndOfForm ==
    /\ handler = "receiving"
    /\ IF authorized /\ files # <<>>
       THEN /\ handler' = "publishing"
            /\ task' = "capturing"
            /\ UNCHANGED <<authorized, sent, used, files, dir, captured,
                           published, answer>>
       ELSE Reject
    /\ UNCHANGED parts

\* The connection ends within the form and the body yields an error.
Interrupted ==
    /\ handler = "receiving"
    /\ Reject
    /\ UNCHANGED parts

\* create_drop captures the next input; one that is gone is an error.
Capture ==
    /\ task = "capturing"
    /\ Len(captured) < Len(files)
    /\ LET name == files[Len(captured) + 1]
       IN  IF name \in DOMAIN dir
           THEN /\ captured' = Append(captured, [name |-> name, content |-> dir[name]])
                /\ UNCHANGED task
           ELSE /\ task' = "failed"
                /\ UNCHANGED captured
    /\ UNCHANGED <<handler, authorized, sent, used, files, dir, published, answer,
                   parts>>

\* insert_drop commits.
Commit ==
    /\ task = "capturing"
    /\ Len(captured) = Len(files)
    /\ published' = captured
    /\ task' = "done"
    /\ UNCHANGED <<handler, authorized, sent, used, files, dir, captured, answer,
                   parts>>

\* A limit, a lifetime shorter than the code's, the disk, the database.
FailTask ==
    /\ task = "capturing"
    /\ task' = "failed"
    /\ UNCHANGED <<handler, authorized, sent, used, files, dir, captured,
                   published, answer, parts>>

\* Mutant: the handler gives up waiting and reports a failure.
JoinUnfinished ==
    /\ handler = "publishing"
    /\ handler' = IF task = "done" THEN "created" ELSE "rejected"
    /\ UNCHANGED <<authorized, sent, used, files, dir, task, captured, published,
                   answer, parts>>

\* The handler learns how create_drop has ended.
Join ==
    /\ handler = "publishing"
    /\ task \in {"done", "failed"}
    /\ handler' = IF task = "done" THEN "created" ELSE "rejected"
    /\ UNCHANGED <<authorized, sent, used, files, dir, task, captured, published,
                   answer, parts>>

\* remove_dir_all, and the answer.
Respond ==
    /\ handler \in {"created", "rejected"}
    /\ dir' = <<>>
    /\ answer' = handler
    /\ handler' = "done"
    /\ UNCHANGED <<authorized, sent, used, files, task, captured, published, parts>>

\* The client disconnects and the handler is dropped where it waits.
Drop ==
    /\ handler \in {"receiving", "publishing", "created", "rejected"}
    /\ handler' = "dropped"
    /\ UNCHANGED <<authorized, sent, used, files, dir, task, captured, published,
                   answer, parts>>

\* The server is killed.
Kill ==
    /\ handler \notin {"done", "killed"}
    /\ handler' = "killed"
    /\ task' = IF task = "capturing" THEN "failed" ELSE task
    /\ UNCHANGED <<authorized, sent, used, files, dir, captured, published, answer,
                   parts>>

Next ==
    \/ \E right \in BOOLEAN : Password(right)
    \/ \E valid \in BOOLEAN : Field(valid)
    \/ \E raw \in RawNames \cup {Unsafe}, whole \in BOOLEAN : File(raw, whole)
    \/ EmptyFile \/ EndOfForm \/ Interrupted
    \/ Capture \/ Commit \/ FailTask
    \/ Join \/ Respond \/ Drop \/ Kill

Spec == Init /\ [][Next]_vars

-----------------------------------------------------------------------------
TypeOK ==
    /\ handler \in {"receiving", "publishing", "created", "rejected", "done",
                    "dropped", "killed"}
    /\ authorized \in BOOLEAN
    /\ Len(files) \in 0..MaxFiles /\ Len(sent) = Len(files)
    /\ \A i \in 1..Len(files) : files[i] \in used
    /\ DOMAIN dir \subseteq used
    /\ task \in {"idle", "capturing", "done", "failed"}
    /\ Len(captured) <= Len(files)
    /\ answer \in {"none", "created", "rejected"}
    /\ parts \in 0..MaxParts

\* The name that a file part with this raw name, the nth, has a right to.
OwnName(name, raw, n) ==
    LET own == SafeName(raw, n)
    IN  \/ name = own
        \/ \E k \in 2..(2 + MaxFiles) : name = [own EXCEPT !.tail = Append(@, k)]

(***************************************************************************)
(* A drop holds every file that was sent, each with its own bytes and under *)
(* a name of its own made from the one it was sent with, whatever names     *)
(* coincide, among them the ones the code makes up; and it does so even if  *)
(* the handler was dropped while the files were captured.                   *)
(***************************************************************************)
PublishesWhatWasSent ==
    published # <<>> =>
        /\ Len(published) = Len(sent)
        /\ Len(sent) \in 1..MaxFiles
        /\ \A i \in 1..Len(sent) :
              /\ published[i].content = i
              /\ OwnName(published[i].name, sent[i], i)
        /\ \A i, j \in 1..Len(sent) :
              published[i].name = published[j].name => i = j

(***************************************************************************)
(* web.rs:818-821: no byte of a file is stored before a session or an       *)
(* in-form password has authorized the submission, whatever the order of    *)
(* its parts.                                                               *)
(***************************************************************************)
NothingStoredUnauthorized == dir # <<>> \/ published # <<>> => authorized

(***************************************************************************)
(* A client that is told its drop was created finds it, and one that is     *)
(* told it was not will not: trying again makes no second copy.             *)
(***************************************************************************)
AnswerIsTrue ==
    /\ answer = "created" => published # <<>>
    /\ answer = "rejected" => published = <<>> /\ task # "capturing"
=============================================================================
