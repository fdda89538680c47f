-------------------------------- MODULE Doctor --------------------------------
(***************************************************************************)
(* Storage::doctor of src/src/storage.rs over the object store: it reads    *)
(* which objects the drops reference, in one query, and then looks at them  *)
(* one after the other, while publications and runs of gc go on.  Bytes do  *)
(* not change once they are in the store, so no object is corrupt here, and *)
(* the lengths and the hashes that --deep recomputes always agree.          *)
(***************************************************************************)
EXTENDS ObjectStore

VARIABLES
    doctor,       \* the examination in progress, None if there is none
    disturbed     \* history: gc was in progress at some moment of it

doctorVars == <<doctor, disturbed>>
allVars == <<vars, doctorVars>>

-----------------------------------------------------------------------------
\* lost is history: the objects that were referenced and absent when the
\* references were read, and have been absent ever since.
Examination ==
    [unseen : SUBSET Objects, missing : SUBSET Objects, lost : SUBSET Objects]

ASSUME NoExamination == None \notin Examination

DoctorTypeOK ==
    /\ TypeOK
    /\ doctor \in Examination \cup {None}
    /\ disturbed \in BOOLEAN

DoctorInit ==
    /\ Init
    /\ doctor = None
    /\ disturbed = FALSE

Examining == doctor # None

\* Mutant: the query is the one of gc, so an overdue drop is not examined.
ReferencedObjectsKept == ReferencedAfterRetention(Overdue)

\* referenced_objects
ReferencedObjects == UNION {drops[d].objs : d \in Stored}

-----------------------------------------------------------------------------
\* quick_check, list_drops, and the references.
Examine ==
    /\ ~Examining
    /\ doctor' = [unseen |-> ReferencedObjects, missing |-> {},
                  lost |-> (UNION {drops[d].objs : d \in Stored}) \ objects]
    /\ disturbed' = (Collecting # {})
    /\ UNCHANGED vars

\* Mutant: an object that a publication has captured counts as there.
AbsentUnlessCaptured(o) ==
    o \notin objects \cup UNION {publisher[p].done : p \in Publishing}

\* symlink_metadata of the object's path fails.
Absent(o) == o \notin objects

LookAt(o) ==
    /\ Examining
    /\ o \in doctor.unseen
    /\ doctor' = [doctor EXCEPT !.unseen = @ \ {o},
                                !.missing = IF Absent(o) THEN @ \cup {o} ELSE @]
    /\ UNCHANGED <<vars, disturbed>>

\* The report (healthy if nothing is missing), or an error before it: with
\* --deep also when an object goes between its metadata and its rehashing.
Report ==
    /\ Examining
    /\ doctor' = None
    /\ disturbed' = FALSE
    /\ UNCHANGED vars

\* The store changes under the doctor.
StoreStep ==
    /\ Next
    /\ doctor' = IF Examining THEN [doctor EXCEPT !.lost = @ \ objects'] ELSE doctor
    /\ disturbed' = (disturbed \/ (Examining /\ collector' # collector))

DoctorNext ==
    \/ StoreStep
    \/ Examine
    \/ \E o \in Objects : LookAt(o)
    \/ Report

DoctorSpec == DoctorInit /\ [][DoctorNext]_allVars

\* The fairness of ObjectStore!FairSpec; nothing is asked of the doctor.
GcFairness == \A c \in Collectors : WF_allVars(CollectorProgress(c) /\ StoreStep)

-----------------------------------------------------------------------------
(***************************************************************************)
(* A report names every object that a drop referenced when the examination  *)
(* began and that has been absent since, whatever was published, purged or  *)
(* collected meanwhile: "healthy" is never said over a lasting loss.        *)
(***************************************************************************)
DoctorSeesLoss ==
    Examining /\ doctor.unseen = {} => doctor.lost \subseteq doctor.missing

(***************************************************************************)
(* An alarm raised while gc was idle is a drop's loss: publications in      *)
(* progress, whose objects come and are not yet referenced, raise none, and *)
(* the drop is one whose publication had overlapped gc.  (While gc runs an  *)
(* alarm may also be a drop that was purged after its references were read.)*)
(***************************************************************************)
AlarmsAreReal ==
    Examining /\ ~disturbed =>
        \A o \in doctor.missing : \E d \in Stored \cap raced : o \in drops[d].objs
=============================================================================
