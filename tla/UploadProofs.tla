----------------------------- MODULE UploadProofs -----------------------------
(***************************************************************************)
(* A submission of any length, with any names, to a server that may be      *)
(* killed or left by the client at any step.                                *)
(***************************************************************************)
EXTENDS Upload, FiniteSetTheorems, WellFoundedInduction, TLAPS

Numbered(name, k) == [name EXCEPT !.tail = Append(@, k)]

Entries == [name : Names, content : Nat]

\* What the handler, the task and the client can be told.
Types ==
    /\ handler \in {"receiving", "publishing", "created", "rejected", "done",
                    "dropped", "killed"}
    /\ authorized \in BOOLEAN
    /\ sent \in Seq(RawNames \cup {Unsafe})
    /\ files \in Seq(Names) /\ Len(sent) = Len(files) /\ Len(files) <= MaxFiles
    /\ DOMAIN dir \subseteq used
    /\ task \in {"idle", "capturing", "done", "failed"}
    /\ captured \in Seq(Entries) /\ Len(captured) <= Len(files)
    /\ answer \in {"none", "created", "rejected"}
    /\ parts \in 0..MaxParts

\* Each file has a name of its own; while files come in no other name is taken,
\* so a counter is free among the first ones.
NamesAreOwn ==
    /\ \A i \in 1..Len(files) : files[i] \in used /\ OwnName(files[i], sent[i], i)
    /\ \A i, j \in 1..Len(files) : files[i] = files[j] => i = j
    /\ IsFiniteSet(used)
    /\ handler = "receiving" => Cardinality(used) <= Len(files)

\* The directory is removed only by a handler that has been told how the task
\* ended.
FilesAreThere ==
    handler # "done" =>
        \A i \in 1..Len(files) : files[i] \in DOMAIN dir /\ dir[files[i]] = i

CapturedAsStored ==
    \A i \in 1..Len(captured) : captured[i] = [name |-> files[i], content |-> i]

TaskInv ==
    /\ handler = "receiving" => task = "idle"
    /\ task = "capturing" => handler \in {"publishing", "dropped"}
    /\ task # "idle" => files # <<>>
    /\ task = "done" => published = captured /\ Len(captured) = Len(files)
    /\ task # "done" => published = <<>>

AuthorizedFirst == ~authorized => dir = <<>> /\ files = <<>> /\ task = "idle"

AnswersAgree ==
    /\ handler = "created" \/ answer = "created" => task = "done"
    /\ handler = "rejected" \/ answer = "rejected" => task \in {"idle", "failed"}
    /\ answer # "none" => handler = "done"

UploadInv ==
    /\ Types
    /\ NamesAreOwn
    /\ FilesAreThere
    /\ CapturedAsStored
    /\ TaskInv
    /\ AuthorizedFirst
    /\ AnswersAgree

-----------------------------------------------------------------------------
(***************************************************************************)
(* Names: what safe_component lets through or is replaced by is a name, and *)
(* uniquify_name finds a counter that is free.  One of the first counters   *)
(* is, as there are more of them than names that are taken.                 *)
(***************************************************************************)
LEMMA LeastIsIn ==
  ASSUME NEW S \in SUBSET Nat, S # {}
  PROVE  Least(S) \in S
<1>1. IsWellFoundedOn(OpToRel(<, Nat), Nat)
  BY NatLessThanWellFounded
<1>2. PICK x \in S : \A y \in S : <<y, x>> \notin OpToRel(<, Nat)
  BY <1>1, WFMin
<1>3. \A y \in S : ~(y < x)
  BY <1>2 DEF OpToRel
<1>4. \E n \in S : \A m \in S : n <= m
  BY <1>3
<1> QED BY <1>4 DEF Least

LEMMA SafeNamesAreNames ==
  ASSUME NEW raw \in RawNames \cup {Unsafe}, NEW n \in Nat
  PROVE  SafeName(raw, n) \in Names
<1>1. <<n>> \in Seq(Nat)
  OBVIOUS
<1>2. \A t \in Seq(Nat) : [stem |-> "upload", tail |-> t] \in Names
  BY DEF Names, Stems
<1>3. raw # Unsafe => raw \in Names
  BY UploadAssumption
<1> QED BY <1>1, <1>2, <1>3 DEF SafeName

LEMMA NumberedNamesDiffer ==
  ASSUME NEW name \in Names, NEW j \in Nat, NEW k \in Nat
  PROVE  /\ Numbered(name, j) \in Names
         /\ Numbered(name, j) = Numbered(name, k) => j = k
<1>1. name.tail \in Seq(Nat) /\ name.stem \in Stems
  BY DEF Names
<1>2. Append(name.tail, j) \in Seq(Nat) /\ Append(name.tail, k) \in Seq(Nat)
  BY <1>1
<1>3. Append(name.tail, j) = Append(name.tail, k) => j = k
  <2>1. /\ Append(name.tail, j)[Len(name.tail) + 1] = j
        /\ Append(name.tail, k)[Len(name.tail) + 1] = k
    BY <1>1
  <2> QED BY <2>1
<1>4. /\ Numbered(name, j) = [stem |-> name.stem, tail |-> Append(name.tail, j)]
      /\ Numbered(name, k) = [stem |-> name.stem, tail |-> Append(name.tail, k)]
  <2>1. \A t \in Seq(Nat) :
          [name EXCEPT !.tail = t] = [stem |-> name.stem, tail |-> t]
    BY DEF Names
  <2> QED BY <1>2, <2>1 DEF Numbered
<1>5. Numbered(name, j).tail = Append(name.tail, j) /\ Numbered(name, k).tail = Append(name.tail, k)
  BY <1>4
<1>6. Numbered(name, j) \in Names
  BY <1>1, <1>2, <1>4 DEF Names
<1> QED BY <1>3, <1>5, <1>6

LEMMA UniqueNameIsFree ==
  ASSUME NEW name \in Names, NEW taken, IsFiniteSet(taken)
  PROVE  /\ UniqueName(name, taken) \notin taken
         /\ UniqueName(name, taken) \in Names
         /\ \/ UniqueName(name, taken) = name
            \/ \E k \in 2..(2 + Cardinality(taken)) :
                  UniqueName(name, taken) = Numbered(name, k)
<1> DEFINE c == Cardinality(taken)
           tried == 2..(2 + c)
           free == {k \in tried : Numbered(name, k) \notin taken}
<1>1. c \in Nat
  BY FS_CardinalityType
<1>2. free # {}
  <2> SUFFICES ASSUME \A k \in tried : Numbered(name, k) \in taken
               PROVE  FALSE
    OBVIOUS
  <2>1. IsFiniteSet(tried) /\ Cardinality(tried) = c + 1
    BY <1>1, FS_Interval
  <2> DEFINE given == [k \in tried |-> Numbered(name, k)]
  <2>2. given \in [tried -> taken]
    OBVIOUS
  <2>3. c < Cardinality(tried)
    BY <1>1, <2>1
  <2> HIDE DEF given
  <2>4. PICK j \in tried, k \in tried : j # k /\ given[j] = given[k]
    BY <2>1, <2>2, <2>3, FS_PigeonHole
  <2>5. j \in Nat /\ k \in Nat /\ Numbered(name, j) = Numbered(name, k)
    BY <1>1, <2>4 DEF given
  <2> QED BY <2>4, <2>5, NumberedNamesDiffer
<1>3. free \in SUBSET Nat
  BY <1>1
<1>4. Least(free) \in free
  BY <1>2, <1>3, LeastIsIn
<1>5. UniqueName(name, taken) = IF name \notin taken THEN name ELSE Numbered(name, Least(free))
  BY DEF UniqueName, Numbered
<1>6. /\ Least(free) \in tried /\ Least(free) \in Nat
      /\ Numbered(name, Least(free)) \notin taken
  BY <1>3, <1>4
<1>7. Numbered(name, Least(free)) \in Names
  BY <1>6, NumberedNamesDiffer
<1> HIDE DEF free, tried
<1> QED BY <1>5, <1>6, <1>7 DEF tried

-----------------------------------------------------------------------------
LEMMA InitIsSound == Init => UploadInv
<1> SUFFICES ASSUME Init PROVE UploadInv
  OBVIOUS
<1>1. IsFiniteSet(used) /\ Cardinality(used) = 0
  BY FS_EmptySet DEF Init
<1>2. Len(files) = 0 /\ files = <<>> /\ sent = <<>> /\ captured = <<>> /\ dir = <<>>
  BY DEF Init
<1>3. DOMAIN dir = {}
  BY <1>2
<1>4. Types
  BY <1>2, <1>3, UploadAssumption DEF Init, Types
<1> QED
  BY <1>1, <1>2, <1>4 DEF Init, UploadInv, NamesAreOwn, FilesAreThere,
     CapturedAsStored, TaskInv, AuthorizedFirst, AnswersAgree

(***************************************************************************)
(* A step that neither takes a file nor removes the directory leaves every  *)
(* file where it is, under its name.                                        *)
(***************************************************************************)
LEMMA FilesStay ==
  ASSUME UploadInv, sent' = sent, used' = used, files' = files, dir' = dir,
         handler' = "receiving" => handler = "receiving",
         handler' # "done" => handler # "done"
  PROVE  NamesAreOwn' /\ FilesAreThere'
BY DEF UploadInv, NamesAreOwn, FilesAreThere

(***************************************************************************)
(* A part that stores nothing: the handler goes on or rejects the form.     *)
(***************************************************************************)
LEMMA NothingStoredIsSound ==
  ASSUME UploadInv, handler = "receiving", handler' \in {"receiving", "rejected"},
         authorized' \in BOOLEAN, authorized => authorized',
         parts' \in 0..MaxParts,
         UNCHANGED <<sent, used, files, dir, task, captured, published, answer>>
  PROVE  UploadInv'
<1>1. NamesAreOwn' /\ FilesAreThere'
  BY FilesStay
<1>2. task = "idle" /\ answer = "none"
  BY DEF UploadInv, TaskInv, AnswersAgree, Types
<1>3. Types'
  BY DEF UploadInv, Types
<1>4. CapturedAsStored' /\ TaskInv' /\ AuthorizedFirst' /\ AnswersAgree'
  BY <1>2 DEF UploadInv, CapturedAsStored, TaskInv, AuthorizedFirst, AnswersAgree
<1> QED BY <1>1, <1>3, <1>4 DEF UploadInv

LEMMA ReceivingCounts ==
  ASSUME UploadInv, Receiving
  PROVE  handler = "receiving" /\ parts' \in 0..MaxParts
BY UploadAssumption DEF UploadInv, Types, Receiving

LEMMA PasswordIsSound ==
  ASSUME UploadInv, NEW right \in BOOLEAN, Password(right)
  PROVE  UploadInv'
<1>1. handler = "receiving" /\ parts' \in 0..MaxParts
  BY ReceivingCounts DEF Password
<1>2. authorized \in BOOLEAN
  BY DEF UploadInv, Types
<1> QED BY <1>1, <1>2, NothingStoredIsSound DEF Password, Reject

LEMMA FieldIsSound ==
  ASSUME UploadInv, NEW valid \in BOOLEAN, Field(valid)
  PROVE  UploadInv'
<1>1. handler = "receiving" /\ parts' \in 0..MaxParts
  BY ReceivingCounts DEF Field
<1>2. authorized \in BOOLEAN
  BY DEF UploadInv, Types
<1> QED BY <1>1, <1>2, NothingStoredIsSound DEF Field, Reject

LEMMA EmptyFileIsSound ==
  ASSUME UploadInv, EmptyFile
  PROVE  UploadInv'
<1>1. handler = "receiving" /\ parts' \in 0..MaxParts
  BY ReceivingCounts DEF EmptyFile
<1>2. authorized \in BOOLEAN
  BY DEF UploadInv, Types
<1> QED BY <1>1, <1>2, NothingStoredIsSound DEF EmptyFile, Reject

LEMMA InterruptedIsSound ==
  ASSUME UploadInv, Interrupted
  PROVE  UploadInv'
<1>1. authorized \in BOOLEAN /\ parts \in 0..MaxParts
  BY DEF UploadInv, Types
<1> QED BY <1>1, NothingStoredIsSound DEF Interrupted, Reject

(***************************************************************************)
(* A file part that is refused, or that is stored, whole or cut off.        *)
(***************************************************************************)
LEMMA FileIsSound ==
  ASSUME UploadInv, NEW raw \in RawNames \cup {Unsafe}, NEW whole \in BOOLEAN,
         File(raw, whole)
  PROVE  UploadInv'
<1>1. handler = "receiving" /\ parts' \in 0..MaxParts
  BY ReceivingCounts DEF File
<1>2. authorized \in BOOLEAN /\ task = "idle" /\ answer = "none"
  BY <1>1 DEF UploadInv, TaskInv, AnswersAgree, Types
<1>3. CASE ~AdmitFile \/ TooMany
  BY <1>1, <1>2, <1>3, NothingStoredIsSound DEF File, Reject
<1>4. CASE AdmitFile /\ ~TooMany
  <2> DEFINE n == Len(files) + 1
             own == SafeName(raw, n)
             name == UniqueName(own, used)
  <2>1. /\ used' = used \cup {name}
        /\ dir' = Put(dir, name, IF whole THEN n ELSE 0)
        /\ sent' = IF whole THEN Append(sent, raw) ELSE sent
        /\ files' = IF whole THEN Append(files, name) ELSE files
        /\ handler' = IF whole THEN handler ELSE "rejected"
        /\ authorized' = authorized /\ task' = task /\ captured' = captured
        /\ published' = published /\ answer' = answer
        /\ authorized = TRUE
    BY <1>2, <1>4 DEF File, AdmitFile
  <2>2. /\ Len(files) \in Nat /\ n \in Nat /\ n <= MaxFiles /\ MaxFiles \in Nat
        /\ Len(sent) = Len(files) /\ files \in Seq(Names) /\ sent \in Seq(RawNames \cup {Unsafe})
    BY <1>4, UploadAssumption DEF UploadInv, Types, TooMany
  <2>3. own \in Names
    BY <2>2, SafeNamesAreNames
  <2>4. IsFiniteSet(used) /\ Cardinality(used) \in Nat /\ Cardinality(used) <= Len(files)
    BY <1>1, FS_CardinalityType DEF UploadInv, NamesAreOwn
  <2>5. name \notin used /\ name \in Names
    BY <2>3, <2>4, UniqueNameIsFree
  <2>6. name = own \/ \E k \in 2..(2 + MaxFiles) : name = [own EXCEPT !.tail = Append(@, k)]
    <3>1. name = own \/ \E k \in 2..(2 + Cardinality(used)) : name = Numbered(own, k)
      BY <2>3, <2>4, UniqueNameIsFree
    <3>2. \A k \in 2..(2 + Cardinality(used)) : k \in 2..(2 + MaxFiles)
      BY <2>2, <2>4
    <3> HIDE DEF name, own
    <3> QED BY <3>1, <3>2 DEF Numbered
  <2>7. OwnName(name, raw, n)
    BY <2>6 DEF OwnName
  <2> HIDE DEF name, own
  <2>8. /\ DOMAIN dir' = DOMAIN dir \cup {name}
        /\ dir'[name] = IF whole THEN n ELSE 0
        /\ \A z \in DOMAIN dir : z # name => dir'[z] = dir[z]
    BY <2>1 DEF Put
  <2>9. IsFiniteSet(used') /\ Cardinality(used') <= Len(files) + 1
    <3>1. IsFiniteSet(used \cup {name}) /\ Cardinality(used \cup {name}) = Cardinality(used) + 1
      BY <2>4, <2>5, FS_AddElement
    <3> QED BY <2>1, <2>2, <2>4, <3>1
  <2>10. \A i \in 1..Len(files) : files[i] \in used /\ files[i] # name
    BY <2>5 DEF UploadInv, NamesAreOwn
  <2>11. DOMAIN dir' \subseteq used'
    BY <2>1, <2>8 DEF UploadInv, Types
  <2>12. CASE whole
    <3>1. /\ Len(files') = n /\ Len(sent') = n /\ files' \in Seq(Names)
          /\ sent' \in Seq(RawNames \cup {Unsafe})
          /\ files'[n] = name /\ sent'[n] = raw
          /\ \A i \in 1..Len(files) : files'[i] = files[i] /\ sent'[i] = sent[i]
      BY <2>1, <2>2, <2>5, <2>12
    <3>2. Len(captured) \in Nat /\ Len(captured) <= Len(files)
      BY DEF UploadInv, Types
    <3>3. Types'
      BY <1>1, <2>1, <2>2, <2>11, <2>12, <3>1, <3>2 DEF UploadInv, Types
    <3>4. \A i \in 1..n : i = n \/ i \in 1..Len(files)
      BY <2>2
    <3>5. NamesAreOwn'
      <4>1. \A i \in 1..n : files'[i] \in used' /\ OwnName(files'[i], sent'[i], i)
        BY <2>1, <2>7, <3>1, <3>4 DEF UploadInv, NamesAreOwn
      <4>2. \A i, j \in 1..n : files'[i] = files'[j] => i = j
        BY <2>10, <3>1, <3>4 DEF UploadInv, NamesAreOwn
      <4> QED BY <2>9, <3>1, <4>1, <4>2 DEF NamesAreOwn
    <3>6. FilesAreThere'
      <4>1. \A i \in 1..Len(files) : files[i] \in DOMAIN dir /\ dir[files[i]] = i
        BY <1>1 DEF UploadInv, FilesAreThere
      <4>2. \A i \in 1..n : files'[i] \in DOMAIN dir' /\ dir'[files'[i]] = i
        BY <2>8, <2>10, <2>12, <3>1, <3>4, <4>1
      <4> QED BY <3>1, <4>2 DEF FilesAreThere
    <3>7. CapturedAsStored'
      BY <2>1, <2>2, <3>1, <3>2 DEF UploadInv, CapturedAsStored
    <3>8. TaskInv' /\ AuthorizedFirst' /\ AnswersAgree'
      BY <1>1, <1>2, <2>1, <2>12 DEF UploadInv, TaskInv, AuthorizedFirst, AnswersAgree
    <3> QED BY <3>3, <3>5, <3>6, <3>7, <3>8 DEF UploadInv
  <2>13. CASE ~whole
    <3>1. files' = files /\ sent' = sent /\ handler' = "rejected"
      BY <2>1, <2>13
    <3>2. Types'
      BY <1>1, <2>1, <2>11, <3>1 DEF UploadInv, Types
    <3>3. NamesAreOwn'
      BY <2>1, <2>9, <3>1 DEF UploadInv, NamesAreOwn
    <3>4. FilesAreThere'
      BY <1>1, <2>8, <2>10, <3>1 DEF UploadInv, FilesAreThere
    <3>5. CapturedAsStored'
      BY <2>1, <3>1 DEF UploadInv, CapturedAsStored
    <3>6. TaskInv' /\ AuthorizedFirst' /\ AnswersAgree'
      BY <1>1, <1>2, <2>1, <3>1 DEF UploadInv, TaskInv, AuthorizedFirst, AnswersAgree
    <3> QED BY <3>2, <3>3, <3>4, <3>5, <3>6 DEF UploadInv
  <2> QED BY <2>12, <2>13
<1> QED BY <1>3, <1>4

LEMMA EndOfFormIsSound ==
  ASSUME UploadInv, EndOfForm
  PROVE  UploadInv'
<1>1. handler = "receiving" /\ parts' = parts
  BY DEF EndOfForm
<1>2. authorized \in BOOLEAN /\ parts \in 0..MaxParts
  BY DEF UploadInv, Types
<1>3. CASE ~(authorized /\ files # <<>>)
  BY <1>1, <1>2, <1>3, NothingStoredIsSound DEF EndOfForm, Reject
<1>4. CASE authorized /\ files # <<>>
  <2>1. /\ handler' = "publishing" /\ task' = "capturing"
        /\ UNCHANGED <<authorized, sent, used, files, dir, captured, published, answer>>
    BY <1>4 DEF EndOfForm
  <2>2. NamesAreOwn' /\ FilesAreThere'
    BY <1>1, <2>1, FilesStay
  <2>3. Types' /\ CapturedAsStored'
    BY <1>1, <2>1 DEF UploadInv, Types, CapturedAsStored
  <2>4. TaskInv' /\ AuthorizedFirst' /\ AnswersAgree'
    BY <1>1, <1>4, <2>1 DEF UploadInv, Types, TaskInv, AuthorizedFirst, AnswersAgree
  <2> QED BY <2>2, <2>3, <2>4 DEF UploadInv
<1> QED BY <1>3, <1>4

(***************************************************************************)
(* The task finds each file where the handler has put it, also when the     *)
(* handler is gone.                                                         *)
(***************************************************************************)
LEMMA CaptureIsSound ==
  ASSUME UploadInv, Capture
  PROVE  UploadInv'
<1> DEFINE i == Len(captured) + 1
           entry == [name |-> files[i], content |-> dir[files[i]]]
<1>1. /\ task = "capturing" /\ Len(captured) < Len(files)
      /\ UNCHANGED <<handler, authorized, sent, used, files, dir, published, answer, parts>>
  BY DEF Capture
<1>2. /\ Len(captured) \in Nat /\ Len(files) \in Nat /\ files \in Seq(Names)
      /\ captured \in Seq(Entries) /\ i \in 1..Len(files) /\ i \in Nat
  BY <1>1 DEF UploadInv, Types
<1>3. handler # "done"
  BY <1>1 DEF UploadInv, TaskInv
<1>4. files[i] \in DOMAIN dir /\ dir[files[i]] = i /\ files[i] \in Names
  BY <1>2, <1>3 DEF UploadInv, FilesAreThere
<1>5. captured' = Append(captured, entry) /\ task' = task
  BY <1>4 DEF Capture
<1>6. entry = [name |-> files[i], content |-> i] /\ entry \in Entries
  BY <1>2, <1>4 DEF Entries
<1>7. NamesAreOwn' /\ FilesAreThere'
  BY <1>1, FilesStay
<1> HIDE DEF entry
<1>8. /\ captured' \in Seq(Entries) /\ Len(captured') = i /\ captured'[i] = entry
      /\ \A j \in 1..Len(captured) : captured'[j] = captured[j]
  BY <1>2, <1>5, <1>6
<1>9. Types'
  BY <1>1, <1>2, <1>5, <1>8 DEF UploadInv, Types
<1>10. CapturedAsStored'
  <2>1. \A j \in 1..i : j = i \/ j \in 1..Len(captured)
    BY <1>2
  <2> QED BY <1>1, <1>6, <1>8, <2>1 DEF UploadInv, CapturedAsStored
<1>11. TaskInv' /\ AuthorizedFirst' /\ AnswersAgree'
  BY <1>1, <1>5 DEF UploadInv, TaskInv, AuthorizedFirst, AnswersAgree
<1> QED BY <1>7, <1>9, <1>10, <1>11 DEF UploadInv

LEMMA CommitIsSound ==
  ASSUME UploadInv, Commit
  PROVE  UploadInv'
<1>1. NamesAreOwn' /\ FilesAreThere'
  BY FilesStay DEF Commit
<1>2. Types' /\ CapturedAsStored'
  BY DEF Commit, UploadInv, Types, CapturedAsStored
<1>3. TaskInv' /\ AuthorizedFirst' /\ AnswersAgree'
  BY DEF Commit, UploadInv, TaskInv, AuthorizedFirst, AnswersAgree, Types
<1> QED BY <1>1, <1>2, <1>3 DEF UploadInv

LEMMA FailTaskIsSound ==
  ASSUME UploadInv, FailTask
  PROVE  UploadInv'
<1>1. NamesAreOwn' /\ FilesAreThere'
  BY FilesStay DEF FailTask
<1>2. Types' /\ CapturedAsStored'
  BY DEF FailTask, UploadInv, Types, CapturedAsStored
<1>3. TaskInv' /\ AuthorizedFirst' /\ AnswersAgree'
  BY DEF FailTask, UploadInv, TaskInv, AuthorizedFirst, AnswersAgree, Types
<1> QED BY <1>1, <1>2, <1>3 DEF UploadInv

LEMMA JoinIsSound ==
  ASSUME UploadInv, Join
  PROVE  UploadInv'
<1>1. NamesAreOwn' /\ FilesAreThere'
  BY FilesStay DEF Join
<1>2. Types' /\ CapturedAsStored'
  BY DEF Join, UploadInv, Types, CapturedAsStored
<1>3. TaskInv' /\ AuthorizedFirst' /\ AnswersAgree'
  BY DEF Join, UploadInv, TaskInv, AuthorizedFirst, AnswersAgree, Types
<1> QED BY <1>1, <1>2, <1>3 DEF UploadInv

(***************************************************************************)
(* The directory goes when no task reads from it any more.                  *)
(***************************************************************************)
LEMMA RespondIsSound ==
  ASSUME UploadInv, Respond
  PROVE  UploadInv'
<1>1. /\ dir' = <<>> /\ DOMAIN dir' = {} /\ handler' = "done" /\ answer' = handler
      /\ handler \in {"created", "rejected"}
  BY DEF Respond
<1>2. Types'
  BY <1>1 DEF Respond, UploadInv, Types
<1>3. NamesAreOwn' /\ FilesAreThere' /\ CapturedAsStored'
  BY <1>1 DEF Respond, UploadInv, NamesAreOwn, FilesAreThere, CapturedAsStored
<1>4. TaskInv' /\ AuthorizedFirst' /\ AnswersAgree'
  BY <1>1 DEF Respond, UploadInv, TaskInv, AuthorizedFirst, AnswersAgree, Types
<1> QED BY <1>2, <1>3, <1>4 DEF UploadInv

LEMMA DropIsSound ==
  ASSUME UploadInv, Drop
  PROVE  UploadInv'
<1>1. NamesAreOwn' /\ FilesAreThere'
  BY FilesStay DEF Drop
<1>2. Types' /\ CapturedAsStored'
  BY DEF Drop, UploadInv, Types, CapturedAsStored
<1>3. TaskInv' /\ AuthorizedFirst' /\ AnswersAgree'
  BY DEF Drop, UploadInv, TaskInv, AuthorizedFirst, AnswersAgree, Types
<1> QED BY <1>1, <1>2, <1>3 DEF UploadInv

LEMMA KillIsSound ==
  ASSUME UploadInv, Kill
  PROVE  UploadInv'
<1>1. NamesAreOwn' /\ FilesAreThere'
  BY FilesStay DEF Kill
<1>2. Types' /\ CapturedAsStored'
  BY DEF Kill, UploadInv, Types, CapturedAsStored
<1>3. TaskInv' /\ AuthorizedFirst' /\ AnswersAgree'
  BY DEF Kill, UploadInv, TaskInv, AuthorizedFirst, AnswersAgree, Types
<1> QED BY <1>1, <1>2, <1>3 DEF UploadInv

LEMMA StandingStillIsSound ==
  ASSUME UploadInv, UNCHANGED vars
  PROVE  UploadInv'
<1>1. NamesAreOwn' /\ FilesAreThere'
  BY FilesStay DEF vars
<1>2. Types' /\ CapturedAsStored'
  BY DEF vars, UploadInv, Types, CapturedAsStored
<1>3. TaskInv' /\ AuthorizedFirst' /\ AnswersAgree'
  BY DEF vars, UploadInv, TaskInv, AuthorizedFirst, AnswersAgree
<1> QED BY <1>1, <1>2, <1>3 DEF UploadInv

-----------------------------------------------------------------------------
(***************************************************************************)
(* Files, directory, task and answer agree in every state of a submission.  *)
(***************************************************************************)
THEOREM UploadInvariance == Spec => []UploadInv
<1>1. UploadInv /\ [Next]_vars => UploadInv'
  <2> SUFFICES ASSUME UploadInv, [Next]_vars
               PROVE  UploadInv'
    OBVIOUS
  <2> QED BY PasswordIsSound, FieldIsSound, FileIsSound, EmptyFileIsSound,
             EndOfFormIsSound, InterruptedIsSound, CaptureIsSound, CommitIsSound,
             FailTaskIsSound, JoinIsSound, RespondIsSound, DropIsSound, KillIsSound,
             StandingStillIsSound DEF Next
<1> QED BY <1>1, InitIsSound, PTL DEF Spec

(***************************************************************************)
(* The handler, its task and what they share keep their types; a form has   *)
(* never more files than MAX_UPLOAD_FILES.                                  *)
(***************************************************************************)
THEOREM UploadTypeCorrect == Spec => []TypeOK
<1>1. UploadInv => TypeOK
  BY UploadAssumption DEF UploadInv, Types, NamesAreOwn, TypeOK
<1> QED BY <1>1, UploadInvariance, PTL

(***************************************************************************)
(* A drop that the console publishes holds every file that was sent, each   *)
(* with its bytes and under a name of its own, however many files there     *)
(* are and whatever they are called (uniquify_name finds a counter that is  *)
(* free), also when the handler is dropped while the task captures them.    *)
(***************************************************************************)
THEOREM UploadsAreWhole == Spec => []PublishesWhatWasSent
<1>1. ASSUME UploadInv, published # <<>>
      PROVE  /\ Len(published) = Len(sent)
             /\ Len(sent) \in 1..MaxFiles
             /\ \A i \in 1..Len(sent) :
                   /\ published[i].content = i
                   /\ OwnName(published[i].name, sent[i], i)
             /\ \A i, j \in 1..Len(sent) : published[i].name = published[j].name => i = j
  <2>1. /\ published = captured /\ Len(captured) = Len(files) /\ files # <<>>
    BY <1>1 DEF UploadInv, TaskInv
  <2>2. Len(sent) = Len(files) /\ Len(files) \in 1..MaxFiles
    BY <1>1, <2>1, UploadAssumption DEF UploadInv, Types
  <2>3. \A i \in 1..Len(sent) : published[i] = [name |-> files[i], content |-> i]
    BY <1>1, <2>1, <2>2 DEF UploadInv, CapturedAsStored
  <2>4. ASSUME NEW i \in 1..Len(sent)
        PROVE  published[i].name = files[i] /\ published[i].content = i
    <3>1. published[i] = [name |-> files[i], content |-> i]
      BY <2>3
    <3> QED BY <3>1
  <2> QED BY <1>1, <2>1, <2>2, <2>4 DEF UploadInv, NamesAreOwn
<1>2. UploadInv => PublishesWhatWasSent
  BY <1>1 DEF PublishesWhatWasSent
<1> QED BY <1>2, UploadInvariance, PTL

(***************************************************************************)
(* No byte of a file is stored before the submission is authorized.         *)
(***************************************************************************)
THEOREM StoringIsAuthorized == Spec => []NothingStoredUnauthorized
<1>1. UploadInv => NothingStoredUnauthorized
  BY DEF UploadInv, TaskInv, AuthorizedFirst, NothingStoredUnauthorized, Types
<1> QED BY <1>1, UploadInvariance, PTL

(***************************************************************************)
(* What the client is told of its submission is so, and stays so.           *)
(***************************************************************************)
THEOREM AnswersAreTrue == Spec => []AnswerIsTrue
<1>1. ASSUME UploadInv
      PROVE  AnswerIsTrue
  <2>1. task = "done" => published # <<>>
    BY <1>1 DEF UploadInv, TaskInv, Types
  <2> QED BY <1>1, <2>1 DEF UploadInv, TaskInv, AnswersAgree, AnswerIsTrue
<1> QED BY <1>1, UploadInvariance, PTL

=============================================================================
