---------------------------- MODULE ObjectStore ----------------------------
(***************************************************************************)
(* The content-addressed object store of src/src/storage.rs under several   *)
(* publications (Storage::create_drop, from the command line and from the   *)
(* web console) and several runs of gc --execute (Storage::garbage_collect).*)
(* They share a directory and a database and no lock.  A step here is one   *)
(* file-system call or one transaction.                                     *)
(*                                                                         *)
(* An object is named by the hash of its bytes, so an object and its name   *)
(* are one value.  Left out: what a capture reads and checks in its source  *)
(* file (it ends in the bytes of one object or in an error), the archive    *)
(* cache, which garbage_collect handles after the objects, and the columns  *)
(* of a drop other than the objects its entries name.                       *)
(***************************************************************************)
EXTENDS Integers, FiniteSets

CONSTANTS
    Drops,        \* drop identifiers, one for each publication
    Objects,      \* object hashes
    Publishers,   \* the processes and handlers that publish
    Collectors,   \* the runs of gc --execute that may overlap
    MaxKills,     \* bound of the model: processes killed in a behaviour
    None          \* an absent value

ASSUME KillAssumption == MaxKills \in Nat

VARIABLES
    objects,      \* the files under objects/
    tmp,          \* the publications that have a file under tmp/
    drops,        \* the rows of drops with the objects of their entries
    publisher,    \* what each publisher is doing, None when nothing
    collector,    \* what each collector is doing, None when nothing
    begun,        \* history: the publications begun
    raced,        \* history: those that were in progress while gc was
    kills         \* history: the number of processes killed

vars == <<objects, tmp, drops, publisher, collector, begun, raced, kills>>

-----------------------------------------------------------------------------
DropRow == [objs : SUBSET Objects, overdue : BOOLEAN]

\* A publication captures its files one after the other.  file is the one
\* being captured: copied into tmp/, then found to be in the store already
\* ("reuse") or not ("install"), then renamed into it ("seal").
Publication ==
    [stage : {"capture", "copied", "reuse", "install", "seal"},
     drop : Drops, todo : SUBSET Objects, done : SUBSET Objects,
     file : Objects \cup {None}]

\* A collector has read the references, walks objects/, and unlinks.
Collection ==
    [stage : {"walk", "unlink"}, doomed : SUBSET Drops,
     referenced : SUBSET Objects, unseen : SUBSET Objects,
     candidates : SUBSET Objects]

ASSUME NoneAssumption == None \notin DropRow \cup Publication \cup Collection

TypeOK ==
    /\ objects \subseteq Objects
    /\ tmp \subseteq Drops
    /\ drops \in [Drops -> DropRow \cup {None}]
    /\ publisher \in [Publishers -> Publication \cup {None}]
    /\ collector \in [Collectors -> Collection \cup {None}]
    /\ begun \subseteq Drops
    /\ raced \subseteq begun
    /\ kills \in 0..MaxKills

Stored == {d \in Drops : drops[d] # None}
Publishing == {p \in Publishers : publisher[p] # None}
Collecting == {c \in Collectors : collector[c] # None}

\* expired or revoked before the cutoff of gc
Overdue == {d \in Stored : drops[d].overdue}

\* Mutant: what a purged drop referenced is taken to be free although another
\* drop shares it.
ReferencedUnshared(doomed) ==
    (UNION {drops[d].objs : d \in Stored \ doomed})
        \ (UNION {drops[d].objs : d \in doomed})

\* referenced_objects_after_retention
ReferencedAfterRetention(doomed) ==
    UNION {drops[d].objs : d \in Stored \ doomed}

Init ==
    /\ objects = {}
    /\ tmp = {}
    /\ drops = [d \in Drops |-> None]
    /\ publisher = [p \in Publishers |-> None]
    /\ collector = [c \in Collectors |-> None]
    /\ begun = {}
    /\ raced = {}
    /\ kills = 0

-----------------------------------------------------------------------------
\* create_drop begins, with files whose contents are the objects of wanted.
Begin(p, d, wanted) ==
    /\ publisher[p] = None
    /\ d \notin begun
    /\ publisher' = [publisher EXCEPT ![p] =
          [stage |-> "capture", drop |-> d, todo |-> wanted, done |-> {},
           file |-> None]]
    /\ begun' = begun \cup {d}
    /\ raced' = IF Collecting # {} THEN raced \cup {d} ELSE raced
    /\ UNCHANGED <<objects, tmp, drops, collector, kills>>

At(p, stage) == publisher[p] # None /\ publisher[p].stage = stage

\* capture_file up to sync_all: the bytes are in a file under tmp/.
Copy(p, o) ==
    /\ At(p, "capture")
    /\ o \in publisher[p].todo
    /\ tmp' = tmp \cup {publisher[p].drop}
    /\ publisher' = [publisher EXCEPT ![p].stage = "copied", ![p].file = o]
    /\ UNCHANGED <<objects, drops, collector, begun, raced, kills>>

\* object_path.exists()
Probe(p) ==
    /\ At(p, "copied")
    /\ publisher' = [publisher EXCEPT ![p].stage =
          IF publisher[p].file \in objects THEN "reuse" ELSE "install"]
    /\ UNCHANGED <<objects, tmp, drops, collector, begun, raced, kills>>

Captured(p) ==
    [publisher[p] EXCEPT !.stage = "capture",
                         !.todo = @ \ {publisher[p].file},
                         !.done = @ \cup {publisher[p].file},
                         !.file = None]

\* The existing object is read back and its hash agrees; the copy is removed.
Reuse(p) ==
    /\ At(p, "reuse")
    /\ publisher[p].file \in objects
    /\ tmp' = tmp \ {publisher[p].drop}
    /\ publisher' = [publisher EXCEPT ![p] = Captured(p)]
    /\ UNCHANGED <<objects, drops, collector, begun, raced, kills>>

\* The copy is renamed into the store, over an object that appeared meanwhile.
Install(p) ==
    /\ At(p, "install")
    /\ objects' = objects \cup {publisher[p].file}
    /\ tmp' = tmp \ {publisher[p].drop}
    /\ publisher' = [publisher EXCEPT ![p].stage = "seal"]
    /\ UNCHANGED <<drops, collector, begun, raced, kills>>

\* set_permissions and sync_directory on what was renamed.
Seal(p) ==
    /\ At(p, "seal")
    /\ publisher[p].file \in objects
    /\ publisher' = [publisher EXCEPT ![p] = Captured(p)]
    /\ UNCHANGED <<objects, tmp, drops, collector, begun, raced, kills>>

\* insert_drop
Commit(p) ==
    /\ At(p, "capture")
    /\ publisher[p].todo = {}
    /\ drops' = [drops EXCEPT ![publisher[p].drop] =
                    [objs |-> publisher[p].done, overdue |-> FALSE]]
    /\ publisher' = [publisher EXCEPT ![p] = None]
    /\ UNCHANGED <<objects, tmp, collector, begun, raced, kills>>

\* Mutant: an error leaves the copy.
FailLeavingCopy(p) ==
    /\ publisher[p] # None
    /\ publisher' = [publisher EXCEPT ![p] = None]
    /\ UNCHANGED <<objects, tmp, drops, collector, begun, raced, kills>>

\* Any error: the source changed, the disk is full, the object to reuse or to
\* seal has gone, no code could be allocated.  TempCleanup removes the copy.
Fail(p) ==
    /\ publisher[p] # None
    /\ tmp' = tmp \ {publisher[p].drop}
    /\ publisher' = [publisher EXCEPT ![p] = None]
    /\ UNCHANGED <<objects, drops, collector, begun, raced, kills>>

\* The process is killed, or the host restarts: no destructor runs.
KillPublisher(p) ==
    /\ publisher[p] # None
    /\ kills < MaxKills
    /\ kills' = kills + 1
    /\ publisher' = [publisher EXCEPT ![p] = None]
    /\ UNCHANGED <<objects, tmp, drops, collector, begun, raced>>

-----------------------------------------------------------------------------
\* Time passes the expiry or the revocation of d by the retention of gc.
BecomeOverdue(d) ==
    /\ d \in Stored \ Overdue
    /\ drops' = [drops EXCEPT ![d].overdue = TRUE]
    /\ UNCHANGED <<objects, tmp, publisher, collector, begun, raced, kills>>

\* garbage_collect reads which objects the surviving drops reference.
Collect(c) ==
    /\ collector[c] = None
    /\ collector' = [collector EXCEPT ![c] =
          [stage |-> "walk", doomed |-> Overdue,
           referenced |-> ReferencedAfterRetention(Overdue),
           unseen |-> Objects, candidates |-> {}]]
    /\ raced' = raced \cup {publisher[p].drop : p \in Publishing}
    /\ UNCHANGED <<objects, tmp, drops, publisher, begun, kills>>

\* Mutant: only the objects of the drops to be purged are looked for.
UnreachableOfDoomed(c, o) ==
    /\ o \in objects \ collector[c].referenced
    /\ \E d \in collector[c].doomed \cap Stored : o \in drops[d].objs

Unreachable(c, o) == o \in objects \ collector[c].referenced

\* The walk over objects/ reaches o, or the place where o would be.
Visit(c, o) ==
    /\ c \in Collecting
    /\ o \in collector[c].unseen
    /\ collector' = [collector EXCEPT
          ![c].unseen = @ \ {o},
          ![c].candidates = IF Unreachable(c, o)
                            THEN @ \cup {o} ELSE @]
    /\ UNCHANGED <<objects, tmp, drops, publisher, begun, raced, kills>>

\* Mutant: the transaction of apply_retention is never committed.
PurgeRolledBack(c) ==
    /\ c \in Collecting
    /\ collector[c].stage = "walk"
    /\ collector[c].unseen = {}
    /\ collector' = [collector EXCEPT ![c].stage = "unlink"]
    /\ UNCHANGED <<objects, tmp, drops, publisher, begun, raced, kills>>

\* Mutant: a drop whose objects are to be unlinked goes with them.
PurgeUnreferenced(c) ==
    /\ c \in Collecting
    /\ collector[c].stage = "walk"
    /\ collector[c].unseen = {}
    /\ drops' = [d \in Drops |->
                    IF \/ d \in collector[c].doomed
                       \/ d \in Stored /\ drops[d].objs \cap collector[c].candidates # {}
                    THEN None ELSE drops[d]]
    /\ collector' = [collector EXCEPT ![c].stage = "unlink"]
    /\ UNCHANGED <<objects, tmp, publisher, begun, raced, kills>>

\* apply_retention: the overdue drops leave the database, then files go.
Purge(c) ==
    /\ c \in Collecting
    /\ collector[c].stage = "walk"
    /\ collector[c].unseen = {}
    /\ drops' = [d \in Drops |-> IF d \in collector[c].doomed
                                 THEN None ELSE drops[d]]
    /\ collector' = [collector EXCEPT ![c].stage = "unlink"]
    /\ UNCHANGED <<objects, tmp, publisher, begun, raced, kills>>

Unlink(c, o) ==
    /\ c \in Collecting
    /\ collector[c].stage = "unlink"
    /\ o \in collector[c].candidates \cap objects
    /\ objects' = objects \ {o}
    /\ collector' = [collector EXCEPT ![c].candidates = @ \ {o}]
    /\ UNCHANGED <<tmp, drops, publisher, begun, raced, kills>>

\* All candidates are gone, or one was gone before its turn (remove_file(path)?
\* returns the error and leaves the rest).
Finish(c) ==
    /\ c \in Collecting
    /\ collector[c].stage = "unlink"
    /\ \/ collector[c].candidates = {}
       \/ collector[c].candidates \ objects # {}
    /\ collector' = [collector EXCEPT ![c] = None]
    /\ UNCHANGED <<objects, tmp, drops, publisher, begun, raced, kills>>

\* gc is killed, or fails in its walk (entry? and metadata()?, which also an entry
\* that vanishes meanwhile brings about) or in the database.  MaxKills bounds all
\* of these: nothing in the code bounds the failures, and orphans are reclaimed
\* only if they stop.
KillCollector(c) ==
    /\ c \in Collecting
    /\ kills < MaxKills
    /\ kills' = kills + 1
    /\ collector' = [collector EXCEPT ![c] = None]
    /\ UNCHANGED <<objects, tmp, drops, publisher, begun, raced>>

-----------------------------------------------------------------------------
PublisherStep(p) ==
    \/ \E d \in Drops, wanted \in SUBSET Objects : Begin(p, d, wanted)
    \/ \E o \in Objects : Copy(p, o)
    \/ Probe(p)
    \/ Reuse(p)
    \/ Install(p)
    \/ Seal(p)
    \/ Commit(p)
    \/ Fail(p)
    \/ KillPublisher(p)

CollectorProgress(c) ==
    \/ Collect(c)
    \/ \E o \in Objects : Visit(c, o) \/ Unlink(c, o)
    \/ Purge(c)
    \/ Finish(c)

Next ==
    \/ \E p \in Publishers : PublisherStep(p)
    \/ \E d \in Drops : BecomeOverdue(d)
    \/ \E c \in Collectors : CollectorProgress(c) \/ KillCollector(c)

Spec == Init /\ [][Next]_vars

\* The gc timer fires again and again, and a run that is not killed goes on.
FairSpec == Spec /\ \A c \in Collectors : WF_vars(CollectorProgress(c))

-----------------------------------------------------------------------------
(***************************************************************************)
(* A drop in the database has all its objects in the store, and a           *)
(* publication keeps the objects it captured, unless the publication        *)
(* overlapped a run of gc: expiry, sharing of objects between drops, other  *)
(* publications, overlapping or killed runs of gc never take them.          *)
(***************************************************************************)
OnlyRacedDropsLoseObjects ==
    /\ \A d \in Stored \ raced : drops[d].objs \subseteq objects
    /\ \A p \in Publishing :
          publisher[p].drop \notin raced => publisher[p].done \subseteq objects

(***************************************************************************)
(* What product-contract.md:55 and architecture.md:63-64 promise without    *)
(* that exception: the command line is safe while the server is running,    *)
(* a manifest is inserted only once every object is durable.  So a drop in  *)
(* the database has all its objects.                                        *)
(***************************************************************************)
DropsAreComplete == \A d \in Stored : drops[d].objs \subseteq objects

(***************************************************************************)
(* A file under tmp/ is never shared, and is left behind only by a          *)
(* publisher that was killed: every error path removes it.                  *)
(***************************************************************************)
TempFilesAreAccountedFor ==
    Cardinality(tmp \ {publisher[p].drop : p \in Publishing}) <= kills

(***************************************************************************)
(* Bytes that no drop references do not stay for ever: gc finds them in the *)
(* end, also when earlier runs were killed or stopped at an object another  *)
(* run had removed.                                                         *)
(***************************************************************************)
OrphansAreReclaimed ==
    \A o \in Objects :
        []<>(o \notin objects \/ o \in ReferencedAfterRetention({}))

-----------------------------------------------------------------------------
\* The store as DropStore sees it: a drop is unpublished until its publication
\* has ended, one way or the other, and exposed if the publication was raced.
Phase ==
    [d \in Drops |->
        IF d \in Overdue THEN "overdue"
        ELSE IF d \in Stored THEN "kept"
        ELSE IF d \in begun \ {publisher[p].drop : p \in Publishing} THEN "ended"
        ELSE "unpublished"]
Contents == [d \in Drops |-> IF d \in Stored THEN drops[d].objs ELSE None]
Readable == {d \in Stored : drops[d].objs \subseteq objects}

Promise ==
    INSTANCE DropStore WITH
        phase <- Phase, contents <- Contents, exposed <- raced, readable <- Readable

(***************************************************************************)
(* Files, transactions, overlapping and killed runs of gc aside, the store  *)
(* does what DropStore says: contents never change, only what is overdue    *)
(* leaves, and what gc did not meet before it was published stays whole.    *)
(***************************************************************************)
ImplementsDropStore == Promise!Spec
=============================================================================
