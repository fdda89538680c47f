-------------------------- MODULE ArchiveCacheProofs --------------------------
(***************************************************************************)
(* The invariants of ArchiveCache, for any number of drops with one         *)
(* manifest, of requests for it, of faults and of runs of gc.               *)
(***************************************************************************)
EXTENDS ArchiveCache, FiniteSetTheorems, TLAPS

\* The lock is held by the one request that waits for a task.
LockInv ==
    \A r \in Requests :
        /\ request[r] = "waiting" <=> lock = r
        /\ request[r] = "waiting" => task[r] # "idle"
        /\ request[r] = "queued" => task[r] = "idle"

\* The tasks at work without the lock are those whose client left them.
LeftInv == left = {r \in Requests : task[r] # "idle" /\ lock # r}

Writing == {r \in Requests : task[r] = "write"}
LeftFiles == tmp - Cardinality(Writing) \in 0..(Cardinality(Requests) * spills)

\* What gc and a build can rely on as long as they have not met: a build that
\* may install or record runs alone and for a drop that is there, gc does not
\* purge the drop of the row without taking the archive, and nothing comes in
\* behind the archive it has taken.
ApartInv ==
    ~met =>
        /\ \A r \in Requests :
              task[r] \in {"write", "readback", "record"} =>
                  gc.stage = "idle" /\ drops[Wants[r]] # "purged"
        /\ gc.stage = "purge" /\ ~gc.listed => row \notin gc.doomed
        /\ gc.stage = "unrecord" => ~zip

StrayArchiveInv ==
    zip /\ row = None =>
        \/ \E r \in Requests : task[r] \in {"readback", "record"}
        \/ gc.stage = "unlink"
        \/ faults + spills > 0
        \/ met

CacheInv ==
    /\ TypeOK
    /\ LockInv
    /\ LeftInv
    /\ LeftFiles
    /\ ApartInv
    /\ StrayArchiveInv

-----------------------------------------------------------------------------
(***************************************************************************)
(* Sets of requests are finite, and grow or shrink by one.                  *)
(***************************************************************************)
LEMMA RequestsAreFew ==
  ASSUME NEW S, S \subseteq Requests
  PROVE  /\ IsFiniteSet(S) /\ Cardinality(S) \in Nat
         /\ Cardinality(Requests) \in Nat /\ Cardinality(S) <= Cardinality(Requests)
BY CacheAssumption, FS_Subset, FS_CardinalityType

LEMMA OneMore ==
  ASSUME NEW S, S \subseteq Requests, NEW r \in Requests \ S
  PROVE  Cardinality(S \cup {r}) = Cardinality(S) + 1
BY RequestsAreFew, FS_AddElement

LEMMA OneLess ==
  ASSUME NEW S, S \subseteq Requests, NEW r \in S
  PROVE  Cardinality(S \ {r}) = Cardinality(S) - 1
BY RequestsAreFew, FS_RemoveElement

LEMMA FewerAreFewer ==
  ASSUME NEW S, S \subseteq Requests, NEW T, T \subseteq S
  PROVE  Cardinality(T) <= Cardinality(S)
BY RequestsAreFew, FS_Subset

LEMMA NobodyIsZero == Cardinality({}) = 0
BY FS_EmptySet

LEMMA GcRows ==
  /\ GcIdle \in Gcs
  /\ \A listed \in BOOLEAN, doomed \in SUBSET Drops :
        [stage |-> "purge", listed |-> listed, doomed |-> doomed] \in Gcs
  /\ \A g \in Gcs, stage \in GcStages : [g EXCEPT !.stage = stage] \in Gcs
<1>1. GcIdle \in Gcs
  BY DEF GcIdle, Gcs, GcStages
<1>2. \A listed \in BOOLEAN, doomed \in SUBSET Drops :
        [stage |-> "purge", listed |-> listed, doomed |-> doomed] \in Gcs
  BY DEF Gcs, GcStages
<1>3. \A g \in Gcs, stage \in GcStages : [g EXCEPT !.stage = stage] \in Gcs
  BY DEF Gcs
<1> QED BY <1>1, <1>2, <1>3

LEMMA CacheInit == Init => CacheInv
<1> SUFFICES ASSUME Init PROVE CacheInv
  OBVIOUS
<1>1. TypeOK
  <2>1. gc \in Gcs
    BY GcRows DEF Init
  <2>2. /\ drops \in [Drops -> DropStates] /\ left \subseteq Requests
        /\ request \in [Requests -> {"idle", "queued", "waiting", "served", "failed"}]
        /\ task \in [Requests -> TaskStages]
    BY DEF Init, TaskStages
  <2>3. row \in Drops \cup {None} /\ lock \in Requests \cup {None} /\ tmp \in Nat
    BY DEF Init
  <2>4. zip \in BOOLEAN /\ met \in BOOLEAN
    BY DEF Init
  <2>5. runs \in 0..MaxRuns /\ faults \in 0..MaxFaults /\ spills \in 0..MaxFaults
    BY CacheAssumption DEF Init
  <2> QED BY <2>1, <2>2, <2>3, <2>4, <2>5 DEF TypeOK
<1>2. LockInv /\ ApartInv /\ StrayArchiveInv
  BY CacheAssumption DEF Init, LockInv, ApartInv, StrayArchiveInv, GcIdle
<1>3. Writing = {}
  BY DEF Init, Writing
<1>4. LeftInv
  BY DEF Init, LeftInv
<1>5. LeftFiles
  <2>1. Cardinality(Requests) \in Nat
    BY RequestsAreFew
  <2>2. tmp = 0 /\ spills = 0
    BY DEF Init
  <2>3. Cardinality(Requests) * spills = 0
    BY <2>1, <2>2
  <2>4. tmp - Cardinality(Writing) = 0
    BY <1>3, <2>2, NobodyIsZero
  <2> QED BY <2>3, <2>4 DEF LeftFiles
<1> QED BY <1>1, <1>2, <1>4, <1>5 DEF CacheInv

(***************************************************************************)
(* Each step keeps the types; a temporary file that goes away was there.    *)
(***************************************************************************)
LEMMA WrittenFilesAreThere ==
  ASSUME TypeOK, LeftFiles, NEW r \in Requests, task[r] = "write"
  PROVE  tmp - 1 \in Nat
<1>1. Writing \subseteq Requests /\ r \in Writing
  BY DEF Writing
<1>2. Cardinality(Writing) \in Nat /\ Cardinality(Writing \ {r}) \in Nat
  BY <1>1, RequestsAreFew
<1>3. Cardinality(Writing) >= 1
  BY <1>1, <1>2, OneLess
<1>4. tmp - Cardinality(Writing) >= 0 /\ tmp \in Nat
  BY DEF LeftFiles, TypeOK
<1> QED BY <1>2, <1>3, <1>4

LEMMA FaultsCount ==
  ASSUME TypeOK
  PROVE  /\ faults \in Nat /\ spills \in Nat
         /\ Fault => faults' = faults + 1 /\ spills' = spills /\ faults' \in 0..MaxFaults
         /\ Spill => faults' = faults /\ spills' = spills + 1 /\ spills' \in 0..MaxFaults
BY CacheAssumption DEF TypeOK, Fault, Spill

RequestStep(r) ==
    \/ Ask(r) \/ Acquire(r) \/ Respond(r) \/ Disconnect(r) \/ Discard(r)

BuildStep(r) ==
    \/ Lookup(r) \/ Check(r) \/ Build(r) \/ Install(r) \/ ReadBack(r) \/ Record(r)
    \/ FailBuild(r) \/ FailInstall(r) \/ FailRecord(r)

CollectorStep == Collect \/ Purge \/ UnlinkZip \/ Unrecord \/ KillGc

LEMMA NextIsAStep ==
  Next <=> \/ \E r \in Requests : RequestStep(r) \/ BuildStep(r)
           \/ Restart
           \/ \E d \in Drops : EndDrop(d)
           \/ CollectorStep
BY DEF Next, TaskStep, GcStep, RequestStep, BuildStep, CollectorStep

LEMMA RequestStepKeepsTypes ==
  ASSUME CacheInv, NEW r \in Requests, RequestStep(r)
  PROVE  TypeOK' /\ LockInv'
<1> USE CacheAssumption
<1>1. CASE Ask(r)
  BY <1>1 DEF CacheInv, Ask, TypeOK, LockInv
<1>2. CASE Acquire(r)
  BY <1>2 DEF CacheInv, Acquire, TypeOK, LockInv, TaskStages
<1>3. CASE Respond(r)
  BY <1>3 DEF CacheInv, Respond, Unlock, TypeOK, LockInv, TaskStages
<1>4. CASE Disconnect(r)
  BY <1>4, FaultsCount DEF CacheInv, Disconnect, Unlock, TypeOK, LockInv
<1>5. CASE Discard(r)
  BY <1>5 DEF CacheInv, Discard, TypeOK, LockInv, TaskStages
<1> QED BY <1>1, <1>2, <1>3, <1>4, <1>5 DEF RequestStep

(***************************************************************************)
(* A step of a build changes neither the requests nor the lock, and its     *)
(* task is not idle before or after it.                                     *)
(***************************************************************************)
LEMMA BuildStepKeepsTypes ==
  ASSUME CacheInv, NEW r \in Requests, BuildStep(r)
  PROVE  /\ TypeOK'
         /\ request' = request /\ lock' = lock /\ left' = left
         /\ task[r] # "idle" /\ task'[r] # "idle"
         /\ \A q \in Requests \ {r} : task'[q] = task[q]
<1> USE CacheAssumption DEF TaskStages
<1>1. CASE Lookup(r) \/ Check(r) \/ ReadBack(r)
  BY <1>1 DEF CacheInv, Lookup, Check, ReadBack, TypeOK
<1>2. CASE Build(r)
  BY <1>2 DEF CacheInv, Build, TypeOK
<1>3. CASE Install(r)
  <2>1. tmp - 1 \in Nat
    BY <1>3, WrittenFilesAreThere DEF CacheInv, Install
  <2> QED BY <1>3, <2>1 DEF CacheInv, Install, TypeOK
<1>4. CASE Record(r)
  BY <1>4 DEF CacheInv, Record, OwnerAfterUpsert, TypeOK
<1>5. CASE FailBuild(r)
  <2>1. task[r] = "write" => tmp - 1 \in Nat
    BY WrittenFilesAreThere DEF CacheInv
  <2> QED BY <1>5, <2>1, FaultsCount DEF CacheInv, FailBuild, TmpAfterFailedBuild, TypeOK
<1>6. CASE FailInstall(r) \/ FailRecord(r)
  BY <1>6, FaultsCount DEF CacheInv, FailInstall, FailRecord, TypeOK
<1> QED BY <1>1, <1>2, <1>3, <1>4, <1>5, <1>6 DEF BuildStep

LEMMA RestartKeepsTypes ==
  ASSUME CacheInv, Restart
  PROVE  TypeOK' /\ LockInv'
BY CacheAssumption, FaultsCount DEF CacheInv, Restart, TypeOK, LockInv, TaskStages

LEMMA CollectorKeepsTypes ==
  ASSUME CacheInv, CollectorStep \/ \E d \in Drops : EndDrop(d)
  PROVE  /\ TypeOK' /\ LockInv'
         /\ request' = request /\ task' = task /\ lock' = lock /\ left' = left
         /\ tmp' = tmp /\ spills' = spills
<1> USE CacheAssumption
<1>0. gc \in Gcs
  BY DEF CacheInv, TypeOK
<1>1. ASSUME NEW d \in Drops, EndDrop(d)
      PROVE  TypeOK'
  BY <1>0, <1>1 DEF CacheInv, EndDrop, TypeOK, DropStates
<1>2. ASSUME Collect PROVE TypeOK'
  <2>1. Stale \in BOOLEAN /\ {d \in Drops : drops[d] = "overdue"} \in SUBSET Drops
    BY DEF Stale
  <2>2. gc' \in Gcs
    BY <1>2, <2>1, GcRows DEF Collect
  <2>3. runs' \in 0..MaxRuns /\ met' \in BOOLEAN
    BY <1>2 DEF Collect, CacheInv, TypeOK
  <2>4. /\ drops' = drops /\ row' = row /\ zip' = zip /\ tmp' = tmp /\ request' = request
        /\ task' = task /\ lock' = lock /\ left' = left /\ faults' = faults /\ spills' = spills
    BY <1>2 DEF Collect
  <2> QED BY <1>0, <2>2, <2>3, <2>4 DEF CacheInv, TypeOK
<1>3. ASSUME Purge PROVE TypeOK'
  <2>1. gc' \in Gcs
    BY <1>0, <1>3, GcRows DEF Purge, GcStages
  <2>2. drops' \in [Drops -> DropStates] /\ row' \in Drops \cup {None}
    BY <1>3 DEF Purge, CacheInv, TypeOK, DropStates
  <2>3. /\ zip' = zip /\ tmp' = tmp /\ request' = request /\ task' = task /\ lock' = lock /\ left' = left
        /\ runs' = runs /\ faults' = faults /\ spills' = spills /\ met' = met
    BY <1>3 DEF Purge
  <2> QED BY <1>0, <2>1, <2>2, <2>3 DEF CacheInv, TypeOK
<1>4. ASSUME UnlinkZip \/ Unrecord PROVE TypeOK'
  <2>1. gc' \in Gcs
    BY <1>0, <1>4, GcRows DEF UnlinkZip, Unrecord, GcStages
  <2>2. zip' \in BOOLEAN /\ row' \in Drops \cup {None}
    BY <1>4 DEF UnlinkZip, Unrecord, CacheInv, TypeOK
  <2>3. /\ drops' = drops /\ tmp' = tmp /\ request' = request /\ task' = task /\ lock' = lock /\ left' = left
        /\ runs' = runs /\ faults' = faults /\ spills' = spills /\ met' = met
    BY <1>4 DEF UnlinkZip, Unrecord
  <2> QED BY <1>0, <2>1, <2>2, <2>3 DEF CacheInv, TypeOK
<1>5. ASSUME KillGc PROVE TypeOK'
  <2>1. gc' \in Gcs
    BY <1>5, GcRows DEF KillGc
  <2>2. faults' \in 0..MaxFaults /\ spills' = spills
    BY <1>5, FaultsCount DEF KillGc, CacheInv
  <2>3. /\ drops' = drops /\ row' = row /\ zip' = zip /\ tmp' = tmp /\ request' = request
        /\ task' = task /\ lock' = lock /\ left' = left /\ runs' = runs /\ met' = met
    BY <1>5 DEF KillGc
  <2> QED BY <1>0, <2>1, <2>2, <2>3 DEF CacheInv, TypeOK
<1>6. TypeOK'
  BY <1>1, <1>2, <1>3, <1>4, <1>5 DEF CollectorStep
<1>7. /\ request' = request /\ task' = task /\ lock' = lock /\ left' = left
      /\ tmp' = tmp /\ spills' = spills
  BY DEF CollectorStep, EndDrop, Collect, Purge, UnlinkZip, Unrecord, KillGc, Fault
<1>8. LockInv'
  BY <1>7 DEF CacheInv, LockInv
<1> QED BY <1>6, <1>7, <1>8

-----------------------------------------------------------------------------
(***************************************************************************)
(* A task at work loses the lock only when its client leaves it.            *)
(***************************************************************************)
LEMMA RequestStepKeepsLeft ==
  ASSUME CacheInv, NEW r \in Requests, RequestStep(r)
  PROVE  LeftInv'
<1> USE CacheAssumption DEF CacheInv, TypeOK, LockInv, LeftInv
<1>1. CASE Ask(r)
  BY <1>1 DEF Ask
<1>2. CASE Acquire(r)
  BY <1>2 DEF Acquire
<1>3. CASE Respond(r)
  BY <1>3 DEF Respond, Unlock
<1>4. CASE Disconnect(r)
  BY <1>4 DEF Disconnect, Unlock
<1>5. CASE Discard(r)
  BY <1>5 DEF Discard
<1> QED BY <1>1, <1>2, <1>3, <1>4, <1>5 DEF RequestStep

LEMMA OtherStepsKeepLeft ==
  ASSUME CacheInv,
         \/ \E r \in Requests : BuildStep(r)
         \/ Restart
         \/ CollectorStep \/ \E d \in Drops : EndDrop(d)
  PROVE  LeftInv'
<1>1. ASSUME NEW r \in Requests, BuildStep(r)
      PROVE  LeftInv'
  BY <1>1, BuildStepKeepsTypes DEF CacheInv, LeftInv
<1>2. ASSUME Restart
      PROVE  LeftInv'
  BY <1>2 DEF Restart, LeftInv
<1>3. ASSUME CollectorStep \/ \E d \in Drops : EndDrop(d)
      PROVE  LeftInv'
  BY <1>3, CollectorKeepsTypes DEF CacheInv, LeftInv
<1> QED BY <1>1, <1>2, <1>3

-----------------------------------------------------------------------------
(***************************************************************************)
(* The temporary files.  A step that starts to write adds one file, one     *)
(* that stops writing removes it, or leaves it and is a spill.  A spill     *)
(* makes room for as many files as there are requests.                      *)
(***************************************************************************)
LEMMA Written ==
  ASSUME CacheInv
  PROVE  /\ tmp \in Nat /\ spills \in Nat
         /\ Writing \subseteq Requests /\ Writing' \subseteq Requests
         /\ Cardinality(Writing) \in Nat /\ Cardinality(Writing') \in Nat
         /\ Cardinality(Writing) <= Cardinality(Requests)
         /\ Cardinality(Requests) \in Nat
         /\ Cardinality(Requests) * spills \in Nat
         /\ Cardinality(Requests) * (spills + 1)
               = Cardinality(Requests) * spills + Cardinality(Requests)
<1>1. tmp \in Nat /\ spills \in Nat
  BY FaultsCount DEF CacheInv, TypeOK
<1>2. Writing \subseteq Requests /\ Writing' \subseteq Requests
  BY DEF Writing
<1>3. /\ Cardinality(Writing) \in Nat /\ Cardinality(Writing') \in Nat
      /\ Cardinality(Writing) <= Cardinality(Requests) /\ Cardinality(Requests) \in Nat
  BY <1>2, RequestsAreFew
<1>4. \A c, s \in Nat : c * s \in Nat /\ c * (s + 1) = c * s + c
  OBVIOUS
<1> QED BY <1>1, <1>2, <1>3, <1>4

\* A step that changes no file, and starts and stops no writing.
LEMMA SameFiles ==
  ASSUME CacheInv, tmp' = tmp, spills' = spills, Writing' = Writing
  PROVE  LeftFiles'
BY DEF CacheInv, LeftFiles

\* A step that stops writing and removes the file.
LEMMA OneFileLess ==
  ASSUME CacheInv, NEW r \in Requests, task[r] = "write", task' = [task EXCEPT ![r] = task'[r]],
         task'[r] # "write", tmp' = tmp - 1, spills' = spills
  PROVE  LeftFiles'
<1>1. r \in Writing /\ Writing' = Writing \ {r}
  BY DEF CacheInv, TypeOK, Writing
<1>2. Cardinality(Writing') = Cardinality(Writing) - 1
  BY <1>1, Written, OneLess
<1>3. tmp' - Cardinality(Writing') = tmp - Cardinality(Writing)
  BY <1>2, Written
<1> QED BY <1>3 DEF CacheInv, LeftFiles

\* A step that stops some writing and leaves the files.
LEMMA FilesAreSpilled ==
  ASSUME CacheInv, Writing' \subseteq Writing, tmp' = tmp, spills' = spills + 1
  PROVE  LeftFiles'
<1> DEFINE room == Cardinality(Requests) * spills
           w == Cardinality(Writing)
<1>1. /\ Cardinality(Writing') <= w /\ w <= Cardinality(Requests)
      /\ Cardinality(Writing') \in Nat /\ w \in Nat /\ Cardinality(Requests) \in Nat
      /\ tmp \in Nat /\ room \in Nat
  BY Written, FewerAreFewer
<1>2. tmp - w \in 0..room
  BY DEF CacheInv, LeftFiles
<1>3. Cardinality(Requests) * spills' = room + Cardinality(Requests)
  BY Written
<1>4. tmp' - Cardinality(Writing') \in 0..(room + Cardinality(Requests))
  <2> HIDE DEF room, w
  <2> QED BY <1>1, <1>2
<1> QED BY <1>3, <1>4 DEF LeftFiles

LEMMA StepKeepsLeftFiles ==
  ASSUME CacheInv, Next
  PROVE  LeftFiles'
<1>1. TypeOK
  BY DEF CacheInv
<1>2. ASSUME NEW r \in Requests, RequestStep(r)
      PROVE  LeftFiles'
  <2>1. tmp' = tmp /\ spills' = spills
    BY <1>2 DEF RequestStep, Ask, Acquire, Respond, Disconnect, Discard, Fault
  <2>2. Writing' = Writing
    BY <1>1, <1>2 DEF RequestStep, Ask, Acquire, Respond, Disconnect, Discard, Writing, TypeOK,
                      CacheInv, LockInv
  <2> QED BY <2>1, <2>2, SameFiles
<1>3. ASSUME NEW r \in Requests, BuildStep(r)
      PROVE  LeftFiles'
  <2>1. ASSUME Lookup(r) \/ Check(r) \/ ReadBack(r) \/ Record(r) \/ FailRecord(r)
                  \/ (FailBuild(r) /\ task[r] = "build")
        PROVE  LeftFiles'
    <3>1. tmp' = tmp /\ spills' = spills
      BY <2>1 DEF Lookup, Check, ReadBack, Record, FailRecord, FailBuild, TmpAfterFailedBuild,
                  Fault
    <3>2. Writing' = Writing
      BY <1>1, <2>1 DEF Lookup, Check, ReadBack, Record, FailRecord, FailBuild, Writing, TypeOK
    <3> QED BY <3>1, <3>2, SameFiles
  <2>2. ASSUME Build(r)
        PROVE  LeftFiles'
    <3>1. r \notin Writing /\ Writing' = Writing \cup {r} /\ tmp' = tmp + 1 /\ spills' = spills
      BY <1>1, <2>2 DEF Build, Writing, TypeOK
    <3>2. Cardinality(Writing') = Cardinality(Writing) + 1
      BY <3>1, Written, OneMore
    <3>3. tmp' - Cardinality(Writing') = tmp - Cardinality(Writing)
      BY <3>1, <3>2, Written
    <3> QED BY <3>1, <3>3 DEF CacheInv, LeftFiles
  <2>3. ASSUME Install(r) \/ (FailBuild(r) /\ task[r] = "write")
        PROVE  LeftFiles'
    <3>1. /\ task[r] = "write" /\ task' = [task EXCEPT ![r] = task'[r]] /\ task'[r] # "write"
          /\ tmp' = tmp - 1 /\ spills' = spills
      BY <1>1, <2>3 DEF Install, FailBuild, TmpAfterFailedBuild, Fault, TypeOK
    <3> QED BY <3>1, OneFileLess
  <2>4. ASSUME FailInstall(r)
        PROVE  LeftFiles'
    <3>1. Writing' \subseteq Writing /\ tmp' = tmp /\ spills' = spills + 1
      BY <1>1, <2>4, FaultsCount DEF FailInstall, Writing, TypeOK
    <3> QED BY <3>1, FilesAreSpilled
  <2>5. FailBuild(r) => task[r] = "build" \/ task[r] = "write"
    BY DEF FailBuild
  <2> QED BY <1>3, <2>1, <2>2, <2>3, <2>4, <2>5 DEF BuildStep
<1>4. ASSUME Restart
      PROVE  LeftFiles'
  <2>1. Writing' \subseteq Writing /\ tmp' = tmp /\ spills' = spills + 1
    BY <1>1, <1>4, FaultsCount DEF Restart, Writing
  <2> QED BY <2>1, FilesAreSpilled
<1>5. ASSUME CollectorStep \/ \E d \in Drops : EndDrop(d)
      PROVE  LeftFiles'
  <2>1. task' = task /\ tmp' = tmp /\ spills' = spills
    BY <1>5, CollectorKeepsTypes
  <2> QED BY <2>1, SameFiles DEF Writing
<1> QED BY <1>2, <1>3, <1>4, <1>5, NextIsAStep

-----------------------------------------------------------------------------
(***************************************************************************)
(* What a build and gc rely on while they have not met.                     *)
(***************************************************************************)
LEMMA RequestStepKeepsApart ==
  ASSUME CacheInv, NEW r \in Requests, RequestStep(r)
  PROVE  ApartInv'
<1>1. /\ met' = met /\ gc' = gc /\ drops' = drops /\ row' = row /\ zip' = zip
  BY DEF RequestStep, Ask, Acquire, Respond, Disconnect, Discard
<1>2. \A q \in Requests : task'[q] \in {"write", "readback", "record"} => task[q] \in {"write", "readback", "record"}
  BY DEF RequestStep, Ask, Acquire, Respond, Disconnect, Discard, CacheInv, TypeOK
<1> QED BY <1>1, <1>2 DEF CacheInv, ApartInv

LEMMA BuildStepKeepsApart ==
  ASSUME CacheInv, NEW r \in Requests, BuildStep(r)
  PROVE  ApartInv'
<1> USE DEF CacheInv, TypeOK
<1>1. CASE \/ Lookup(r) \/ Check(r) \/ ReadBack(r)
           \/ FailBuild(r) \/ FailInstall(r) \/ FailRecord(r)
  <2>1. met' = met /\ gc' = gc /\ drops' = drops /\ row' = row /\ zip' = zip
    BY <1>1 DEF Lookup, Check, ReadBack, FailBuild, FailInstall, FailRecord
  <2>2. \A q \in Requests : task'[q] \in {"write", "readback", "record"} => task[q] \in {"write", "readback", "record"}
    BY <1>1 DEF Lookup, Check, ReadBack, FailBuild, FailInstall, FailRecord
  <2> QED BY <2>1, <2>2 DEF ApartInv
<1>2. CASE Build(r)
  BY <1>2 DEF Build, ApartInv
<1>3. CASE Install(r)
  BY <1>3 DEF Install, ApartInv
<1>4. CASE Record(r)
  BY <1>4 DEF Record, ApartInv
<1> QED BY <1>1, <1>2, <1>3, <1>4 DEF BuildStep

LEMMA CollectorKeepsApart ==
  ASSUME CacheInv, CollectorStep \/ \E d \in Drops : EndDrop(d)
  PROVE  ApartInv'
<1> USE CacheAssumption DEF CacheInv, TypeOK
<1>0. gc \in Gcs
  OBVIOUS
<1>1. ASSUME NEW d \in Drops, EndDrop(d)
      PROVE  ApartInv'
  BY <1>1 DEF EndDrop, ApartInv
<1>2. ASSUME Collect
      PROVE  ApartInv'
  <2>1. ~met' => \A r \in Requests : task[r] \notin {"write", "readback", "record"}
    BY <1>2 DEF Collect, Building
  <2>2. /\ gc'.stage = "purge" /\ gc'.listed = Stale /\ row' = row /\ task' = task
        /\ gc'.doomed = {d \in Drops : drops[d] = "overdue"}
    BY <1>2 DEF Collect
  <2>3. ~Stale => row \notin gc'.doomed
    BY <2>2 DEF Stale
  <2> QED BY <2>1, <2>2, <2>3 DEF ApartInv
<1>3. ASSUME Purge
      PROVE  ApartInv'
  <2>1. gc.stage = "purge" /\ task' = task /\ met' = met
    BY <1>3 DEF Purge
  <2>2. gc'.stage \in {"idle", "unlink"}
    BY <1>0, <1>3 DEF Purge, GcIdle, Gcs
  <2> QED BY <2>1, <2>2 DEF ApartInv
<1>4. ASSUME UnlinkZip
      PROVE  ApartInv'
  <2>1. gc.stage = "unlink" /\ task' = task /\ met' = met /\ ~zip'
    BY <1>4 DEF UnlinkZip
  <2>2. gc'.stage = "unrecord"
    BY <1>0, <1>4 DEF UnlinkZip, Gcs
  <2> QED BY <2>1, <2>2 DEF ApartInv
<1>5. ASSUME Unrecord \/ KillGc
      PROVE  ApartInv'
  <2>1. gc.stage # "idle" /\ task' = task /\ met' = met /\ gc'.stage = "idle"
    BY <1>5 DEF Unrecord, KillGc, GcIdle
  <2> QED BY <2>1 DEF ApartInv
<1> QED BY <1>1, <1>2, <1>3, <1>4, <1>5 DEF CollectorStep

(***************************************************************************)
(* An archive that no row names has its cause.                              *)
(***************************************************************************)
LEMMA RequestStepKeepsCause ==
  ASSUME CacheInv, NEW r \in Requests, RequestStep(r)
  PROVE  StrayArchiveInv'
<1>1. met' = met /\ gc' = gc /\ row' = row /\ zip' = zip
  BY DEF RequestStep, Ask, Acquire, Respond, Disconnect, Discard
<1>2. \A q \in Requests : task[q] \in {"readback", "record"} => task'[q] \in {"readback", "record"}
  BY DEF RequestStep, Ask, Acquire, Respond, Disconnect, Discard, CacheInv, TypeOK, LockInv
<1>3. faults + spills > 0 => faults' + spills' > 0
  BY FaultsCount DEF RequestStep, Ask, Acquire, Respond, Disconnect, Discard, CacheInv
<1> QED BY <1>1, <1>2, <1>3 DEF CacheInv, StrayArchiveInv

LEMMA BuildStepKeepsCause ==
  ASSUME CacheInv, NEW r \in Requests, BuildStep(r)
  PROVE  StrayArchiveInv'
<1>0. /\ TypeOK /\ StrayArchiveInv /\ faults \in Nat /\ spills \in Nat
  BY FaultsCount DEF CacheInv
<1>1. CASE Lookup(r) \/ Check(r) \/ Build(r)
  <2>1. gc' = gc /\ row' = row /\ zip' = zip /\ faults' = faults /\ spills' = spills
    BY <1>1 DEF Lookup, Check, Build
  <2>3. met => met'
    <3>1. CASE Lookup(r) \/ Check(r)
      <4>1. met' = met
        BY <3>1 DEF Lookup, Check
      <4> QED BY <4>1
    <3>2. CASE Build(r)
      BY <3>2, Zenon DEF Build
    <3> QED BY <1>1, <3>1, <3>2
  <2>2. \A q \in Requests : task[q] \in {"readback", "record"} => task'[q] \in {"readback", "record"}
    BY <1>0, <1>1 DEF Lookup, Check, Build, TypeOK
  <2> QED BY <1>0, <2>1, <2>2, <2>3 DEF StrayArchiveInv
<1>2. CASE Install(r)
  <2>1. task'[r] = "readback"
    BY <1>0, <1>2 DEF Install, TypeOK
  <2> QED BY <2>1 DEF StrayArchiveInv
<1>3. CASE Record(r)
  <2>1. CASE row = None => drops[Wants[r]] # "purged"
    <3>1. row' # None
      BY <1>3, <2>1, CacheAssumption DEF Record, OwnerAfterUpsert
    <3> QED BY <3>1 DEF StrayArchiveInv
  <2>2. CASE drops[Wants[r]] = "purged"
    <3>1. met
      BY <1>3, <2>2 DEF Record, CacheInv, ApartInv
    <3>2. met' = met
      BY <1>3 DEF Record
    <3> QED BY <3>1, <3>2 DEF StrayArchiveInv
  <2> QED BY <2>1, <2>2
<1>4. CASE ReadBack(r)
  <2>1. CASE zip
    <3>1. task'[r] = "record"
      BY <1>0, <1>4, <2>1 DEF ReadBack, TypeOK
    <3> QED BY <3>1 DEF StrayArchiveInv
  <2>2. CASE ~zip
    BY <1>4, <2>2 DEF ReadBack, StrayArchiveInv
  <2> QED BY <2>1, <2>2
<1>5. CASE FailBuild(r) \/ FailInstall(r) \/ FailRecord(r)
  <2>1. faults' + spills' > 0
    BY <1>0, <1>5, FaultsCount DEF FailBuild, FailInstall, FailRecord
  <2> QED BY <2>1 DEF StrayArchiveInv
<1> QED BY <1>1, <1>2, <1>3, <1>4, <1>5 DEF BuildStep

LEMMA OtherStepsKeepCause ==
  ASSUME CacheInv, Restart \/ CollectorStep \/ \E d \in Drops : EndDrop(d)
  PROVE  StrayArchiveInv'
<1>0. /\ TypeOK /\ StrayArchiveInv /\ ApartInv /\ faults \in Nat /\ spills \in Nat /\ gc \in Gcs
  BY FaultsCount DEF CacheInv, TypeOK
<1>1. ASSUME Restart \/ KillGc
      PROVE  StrayArchiveInv'
  <2>1. faults' + spills' > 0
    BY <1>0, <1>1, FaultsCount DEF Restart, KillGc
  <2> QED BY <2>1 DEF StrayArchiveInv
<1>2. ASSUME NEW d \in Drops, EndDrop(d)
      PROVE  StrayArchiveInv'
  BY <1>0, <1>2 DEF EndDrop, StrayArchiveInv
<1>3. ASSUME Collect
      PROVE  StrayArchiveInv'
  <2>1. /\ gc.stage = "idle" /\ row' = row /\ zip' = zip /\ task' = task
        /\ faults' = faults /\ spills' = spills
    BY <1>3 DEF Collect
  <2>2. met => met'
    BY <1>3, Zenon DEF Collect
  <2>3. gc.stage # "unlink"
    BY <2>1
  <2> QED BY <1>0, <2>1, <2>2, <2>3 DEF StrayArchiveInv
<1>4. ASSUME Purge
      PROVE  StrayArchiveInv'
  <2>1. /\ gc.stage = "purge" /\ zip' = zip /\ task' = task /\ met' = met
        /\ faults' = faults /\ spills' = spills
    BY <1>4 DEF Purge
  <2>2. CASE gc.listed
    <3>1. gc'.stage = "unlink"
      BY <1>0, <1>4, <2>2 DEF Purge, Gcs
    <3> QED BY <3>1 DEF StrayArchiveInv
  <2>3. CASE ~gc.listed
    <3>1. met \/ row' = row
      BY <1>0, <1>4, <2>1, <2>3 DEF Purge, ApartInv
    <3> QED BY <1>0, <2>1, <3>1 DEF StrayArchiveInv
  <2> QED BY <2>2, <2>3
<1>5. ASSUME UnlinkZip
      PROVE  StrayArchiveInv'
  BY <1>5 DEF UnlinkZip, StrayArchiveInv
<1>6. ASSUME Unrecord
      PROVE  StrayArchiveInv'
  BY <1>0, <1>6 DEF Unrecord, ApartInv, StrayArchiveInv
<1> QED BY <1>1, <1>2, <1>3, <1>4, <1>5, <1>6 DEF CollectorStep

-----------------------------------------------------------------------------
LEMMA StandingStill == CacheInv /\ UNCHANGED vars => CacheInv'
<1> SUFFICES ASSUME CacheInv, UNCHANGED vars PROVE CacheInv'
  OBVIOUS
<1>1. /\ drops' = drops /\ row' = row /\ zip' = zip /\ tmp' = tmp /\ request' = request
      /\ task' = task /\ lock' = lock /\ left' = left /\ gc' = gc /\ runs' = runs /\ faults' = faults
      /\ spills' = spills /\ met' = met
  BY DEF vars
<1>2. TypeOK' /\ LockInv'
  BY <1>1 DEF CacheInv, TypeOK, LockInv
<1>3. LeftInv' /\ LeftFiles'
  BY <1>1 DEF CacheInv, LeftInv, LeftFiles, Writing
<1>4. ApartInv' /\ StrayArchiveInv'
  BY <1>1 DEF CacheInv, ApartInv, StrayArchiveInv
<1> QED BY <1>2, <1>3, <1>4 DEF CacheInv

LEMMA CacheStep == CacheInv /\ Next => CacheInv'
<1> SUFFICES ASSUME CacheInv, Next PROVE CacheInv'
  OBVIOUS
<1>0. LeftFiles'
  BY StepKeepsLeftFiles
<1>1. ASSUME NEW r \in Requests, RequestStep(r)
      PROVE  CacheInv'
  BY <1>0, <1>1, RequestStepKeepsTypes, RequestStepKeepsLeft, RequestStepKeepsApart,
     RequestStepKeepsCause DEF CacheInv
<1>2. ASSUME NEW r \in Requests, BuildStep(r)
      PROVE  CacheInv'
  <2>1. LockInv'
    BY <1>2, BuildStepKeepsTypes DEF CacheInv, LockInv
  <2> QED BY <1>0, <1>2, <2>1, BuildStepKeepsTypes, OtherStepsKeepLeft, BuildStepKeepsApart,
             BuildStepKeepsCause DEF CacheInv
<1>3. ASSUME Restart
      PROVE  CacheInv'
  <2>1. ApartInv'
    BY <1>3 DEF CacheInv, ApartInv, Restart
  <2> QED BY <1>0, <1>3, <2>1, RestartKeepsTypes, OtherStepsKeepLeft, OtherStepsKeepCause
          DEF CacheInv
<1>4. ASSUME CollectorStep \/ \E d \in Drops : EndDrop(d)
      PROVE  CacheInv'
  BY <1>0, <1>4, CollectorKeepsTypes, OtherStepsKeepLeft, CollectorKeepsApart,
     OtherStepsKeepCause DEF CacheInv
<1> QED BY <1>1, <1>2, <1>3, <1>4, NextIsAStep

(***************************************************************************)
(* The invariant holds whatever the requests, the builds, the faults and gc *)
(* do.                                                                      *)
(***************************************************************************)
THEOREM CacheInvariance == Spec => []CacheInv
BY CacheInit, CacheStep, StandingStill, PTL DEF Spec

(***************************************************************************)
(* Every variable keeps its type; a temporary file that is removed was      *)
(* there to be removed (build_zip of src/src/archive.rs).                   *)
(***************************************************************************)
THEOREM CacheTypeCorrect == Spec => []TypeOK
BY CacheInvariance, PTL DEF CacheInv

(***************************************************************************)
(* However many clients want one archive, disconnect and ask again, and     *)
(* whatever fails meanwhile, at most one of the tasks that build it at the  *)
(* same time has a client: each of the others was left by a client that     *)
(* disconnected (archive_response of src/src/web.rs).                       *)
(***************************************************************************)
THEOREM BuildsAreFew == Spec => []BuildsAreAccountedFor
<1>1. CacheInv => BuildsAreAccountedFor
  <2> SUFFICES ASSUME CacheInv PROVE BuildsAreAccountedFor
    OBVIOUS
  <2> DEFINE orphans == Building \cap left
  <2>1. /\ Building \subseteq Requests /\ orphans \subseteq Requests
        /\ Cardinality(Building) \in Nat /\ Cardinality(orphans) \in Nat
    <3>1. Building \subseteq Requests
      BY DEF Building
    <3> QED BY <3>1, RequestsAreFew
  <2>2. \A r \in Building \ left : lock = r
    BY DEF Building, CacheInv, LeftInv
  <2>3. CASE Building \subseteq left
    <3>1. Building = orphans
      BY <2>3
    <3>2. Cardinality(Building) = Cardinality(orphans)
      BY <3>1
    <3> QED
      <4> HIDE DEF orphans
      <4>1. Cardinality(Building) <= 1 + Cardinality(orphans)
        BY <2>1, <3>2
      <4> QED BY <4>1 DEF BuildsAreAccountedFor, orphans
  <2>4. CASE \E r \in Building : r \notin left
    <3>1. PICK r \in Building : r \notin left
      BY <2>4
    <3>2. Building = orphans \cup {r}
      BY <2>2, <3>1
    <3>3. Cardinality(orphans \cup {r}) = Cardinality(orphans) + 1
      BY <2>1, <3>1, OneMore
    <3>4. Cardinality(Building) = Cardinality(orphans) + 1
      BY <3>2, <3>3
    <3> QED
      <4> HIDE DEF orphans
      <4>1. Cardinality(Building) <= 1 + Cardinality(orphans)
        BY <2>1, <3>4
      <4> QED BY <4>1 DEF BuildsAreAccountedFor, orphans
  <2> QED BY <2>3, <2>4
<1> QED BY <1>1, CacheInvariance, PTL

(***************************************************************************)
(* No temporary file and no archive of the cache is left without the fault, *)
(* the spill or the meeting with gc that explains it.                       *)
(***************************************************************************)
THEOREM FilesAreExplained == Spec => []FilesAreAccountedFor
<1>1. CacheInv => FilesAreAccountedFor
  BY DEF CacheInv, LeftFiles, Writing, StrayArchiveInv, FilesAreAccountedFor
<1> QED BY <1>1, CacheInvariance, PTL

=============================================================================
