--------------------------- MODULE CommandLineProofs ---------------------------
(***************************************************************************)
(* For any number of processes and starts there is one key (MasterKey), and *)
(* the commands of any of them, on any drops and references, change what    *)
(* the operator has named (CommandLine).                                    *)
(***************************************************************************)
EXTENDS CommandLine, NaturalsInduction, FiniteSetTheorems, TLAPS

(***************************************************************************)
(* The inductive invariant.  create_new makes one process the writer: its   *)
(* key is its own, so two of them could not both have created the file.     *)
(***************************************************************************)
Types ==
    /\ file \in [kind : {"absent", "part", "whole"}, key : Keys \cup {None}]
    /\ proc \in [Processes ->
                   [stage : {"off", "look", "read", "create", "write", "ready"},
                    key : Keys \cup {None}]]
    /\ runs \in [Processes -> 0..MaxRuns]
    /\ \A p \in Processes : proc[p].stage # "off" => runs[p] \in 1..MaxRuns

Writer ==
    \A p \in Processes :
        proc[p].stage = "write" => /\ file = Part(proc[p].key)
                                   /\ proc[p].key \in {p} \X (1..MaxRuns)

IInv == Types /\ (file.kind = "absent" <=> file.key = None) /\ Writer /\ OneKey

LEMMA NoneIsNoKey == None \notin Keys
BY KeyAssumption DEF Keys

LEMMA InitIInv == Init => IInv
BY KeyAssumption DEF Init, IInv, Types, Writer, OneKey, Off, Absent

LEMMA NextKeepsIInv == IInv /\ [Next]_vars => IInv'
<1> SUFFICES ASSUME IInv, [Next]_vars
             PROVE  IInv'
  OBVIOUS
<1> USE KeyAssumption, NoneIsNoKey
<1>1. ASSUME NEW p \in Processes, Start(p)
      PROVE  IInv'
  BY <1>1 DEF Start, IInv, Types, Writer, OneKey, Off
<1>2. ASSUME NEW p \in Processes, Look(p)
      PROVE  IInv'
  BY <1>2 DEF Look, IInv, Types, Writer, OneKey
<1>3. ASSUME NEW p \in Processes, ReadKey(p)
      PROVE  IInv'
  BY <1>3 DEF ReadKey, ReadableWhole, IInv, Types, Writer, OneKey, Off, Whole
<1>4. ASSUME NEW p \in Processes, Create(p)
      PROVE  IInv'
  <2>1. CASE MayCreate
    <3>1. /\ file' = [kind |-> "part", key |-> Own(p)]
          /\ proc' = [proc EXCEPT ![p] = [stage |-> "write", key |-> Own(p)]]
          /\ runs' = runs /\ file.kind = "absent"
      BY <1>4, <2>1 DEF Create, MayCreate, Part
    <3>2. Own(p) \in Keys /\ Own(p) \in {p} \X (1..MaxRuns)
      BY <1>4 DEF Create, IInv, Types, Own, Keys
    <3>3. \A q \in Processes : proc[q].stage \notin {"write", "ready"}
      BY <3>1 DEF IInv, Writer, OneKey, Part, Whole
    <3>4. file'.kind = "part" /\ file'.key = Own(p)
      BY <3>1
    <3>5. /\ file' \in [kind : {"absent", "part", "whole"}, key : Keys \cup {None}]
          /\ file'.kind = "absent" <=> file'.key = None
      BY <3>1, <3>2, <3>4
    <3>6. Types'
      <4>1. [stage |-> "write", key |-> Own(p)] \in
              [stage : {"off", "look", "read", "create", "write", "ready"},
               key : Keys \cup {None}]
        BY <3>2
      <4>2. proc[p].stage # "off"
        BY <1>4 DEF Create
      <4> QED BY <3>1, <3>5, <4>1, <4>2 DEF IInv, Types
    <3>7. /\ proc'[p] = [stage |-> "write", key |-> Own(p)]
          /\ \A q \in Processes \ {p} : proc'[q] = proc[q]
      BY <3>1 DEF IInv, Types
    <3>8. Writer'
      BY <3>1, <3>2, <3>3, <3>7 DEF Writer, Part
    <3>9. OneKey'
      BY <3>3, <3>7 DEF OneKey
    <3> QED BY <3>5, <3>6, <3>8, <3>9 DEF IInv
  <2>2. CASE ~MayCreate
    BY <1>4, <2>2 DEF Create, IInv, Types, Writer, OneKey, Off
  <2> QED BY <2>1, <2>2
<1>5. ASSUME NEW p \in Processes, Write(p)
      PROVE  IInv'
  <2>1. /\ proc[p].stage = "write" /\ file = Part(proc[p].key)
        /\ file' = [kind |-> "whole", key |-> proc[p].key]
        /\ proc' = [proc EXCEPT ![p].stage = "ready"] /\ runs' = runs
        /\ proc[p].key \in {p} \X (1..MaxRuns) /\ proc[p].key \in Keys
    BY <1>5 DEF Write, Whole, IInv, Writer, Keys
  <2>2. \A q \in Processes \ {p} : proc[q].stage \notin {"write", "ready"}
    <3>1. file.kind = "part"
      BY <2>1 DEF Part
    <3>2. ASSUME NEW q \in Processes, proc[q].stage = "ready"
          PROVE  FALSE
      BY <3>1, <3>2 DEF IInv, OneKey, Whole
    <3>3. ASSUME NEW q \in Processes \ {p}, proc[q].stage = "write"
          PROVE  FALSE
      <4>1. proc[q].key \in {q} \X (1..MaxRuns) /\ proc[q].key = proc[p].key
        BY <2>1, <3>3 DEF IInv, Writer, Part
      <4> QED BY <2>1, <4>1
    <3> QED BY <3>2, <3>3
  <2> QED BY <2>1, <2>2 DEF IInv, Types, Writer, OneKey, Part, Whole
<1>6. ASSUME NEW p \in Processes, Stop(p)
      PROVE  IInv'
  BY <1>6 DEF Stop, IInv, Types, Writer, OneKey, Off
<1>7. CASE UNCHANGED vars
  BY <1>7 DEF vars, IInv, Types, Writer, OneKey
<1> QED BY <1>1, <1>2, <1>3, <1>4, <1>5, <1>6, <1>7 DEF Next

(***************************************************************************)
(* The key file and the processes agree in every state, wherever processes *)
(* are stopped (load_or_create of src/src/security.rs).                    *)
(***************************************************************************)
THEOREM Invariance == Spec => []IInv
BY InitIInv, NextKeepsIInv, PTL DEF Spec

(***************************************************************************)
(* The file and the processes keep their types, and the file is half        *)
(* written exactly with the key of the process that writes it.              *)
(***************************************************************************)
THEOREM TypeCorrect == Spec => []TypeOK
<1>1. IInv => TypeOK
  BY DEF IInv, Types, Writer, TypeOK
<1> QED BY <1>1, Invariance, PTL

(***************************************************************************)
(* All processes that run have the key of the file, however many start at   *)
(* once on a fresh state directory (create_new in load_or_create).          *)
(***************************************************************************)
THEOREM ThereIsOneKey == Spec => []OneKey
<1>1. IInv => OneKey
  BY DEF IInv
<1> QED BY <1>1, Invariance, PTL

(***************************************************************************)
(* No step of any process changes a key that is whole.                      *)
(***************************************************************************)
THEOREM KeyStays == Spec => KeyIsForGood
<1>1. IInv /\ [Next]_vars => [file.kind = "whole" => file' = file]_vars
  BY DEF Next, Start, Look, ReadKey, Create, MayCreate, Write, Stop, IInv, Writer,
         Part, vars
<1> QED BY <1>1, Invariance, PTL DEF Spec, KeyIsForGood

-----------------------------------------------------------------------------
(***************************************************************************)
(* Numbers: what Min and Max choose exists.                                 *)
(***************************************************************************)
LEMMA LeastExists ==
  ASSUME NEW S \in SUBSET Nat, S # {}
  PROVE  \E x \in S : \A y \in S : x <= y
<1>1. IsWellFoundedOn(OpToRel(<, Nat), Nat)
  BY NatLessThanWellFounded
<1>2. PICK x \in S : \A y \in S : <<y, x>> \notin OpToRel(<, Nat)
  BY <1>1, WFMin
<1>3. \A y \in S : ~(y < x)
  BY <1>2 DEF OpToRel
<1> QED BY <1>3

LEMMA GreatestExists ==
  ASSUME NEW n \in Nat, NEW S \in SUBSET (0..n), S # {}
  PROVE  \E x \in S : \A y \in S : x >= y
<1> DEFINE T == {n - x : x \in S}
<1>1. T \in SUBSET Nat /\ T # {}
  <2>1. \A x \in S : x \in 0..n /\ n - x \in Nat
    OBVIOUS
  <2>2. PICK x \in S : TRUE
    OBVIOUS
  <2>3. n - x \in T
    BY <2>2
  <2> QED BY <2>1, <2>3
<1>2. PICK t \in T : \A u \in T : t <= u
  BY <1>1, LeastExists
<1>3. PICK x \in S : t = n - x
  BY <1>2
<1>4. ASSUME NEW y \in S
      PROVE  x >= y
  <2>1. n - y \in T
    OBVIOUS
  <2>2. n - x <= n - y
    BY <1>2, <1>3, <2>1
  <2> QED BY <2>2, x \in 0..n, y \in 0..n
<1> QED BY <1>4

(***************************************************************************)
(* Text: what trim leaves of a text is a text.                              *)
(***************************************************************************)
LEMMA TrimmedIsText ==
  ASSUME NEW text \in Seq(STRING)
  PROVE  Trim(text) \in Seq(STRING)
<1> DEFINE kept == {i \in DOMAIN text : text[i] \notin Blanks}
<1>1. CASE kept = {}
  BY <1>1 DEF Trim
<1>2. CASE kept # {}
  <2>1. DOMAIN text = 1..Len(text) /\ Len(text) \in Nat
    OBVIOUS
  <2>2. kept \in SUBSET (0..Len(text)) /\ kept \in SUBSET Nat
    BY <2>1
  <2>3. Min(kept) \in kept
    <3>1. \E x \in kept : \A y \in kept : x <= y
      BY <1>2, <2>2, LeastExists
    <3> HIDE DEF kept
    <3> QED BY <3>1 DEF Min
  <2>4. Max(kept) \in kept
    <3>1. \E x \in kept : \A y \in kept : x >= y
      BY <1>2, <2>1, <2>2, GreatestExists
    <3> HIDE DEF kept
    <3> QED BY <3>1 DEF Max
  <2>5. Min(kept) \in 1..Len(text) /\ Max(kept) \in 1..Len(text)
    BY <2>1, <2>3, <2>4
  <2>6. SubSeq(text, Min(kept), Max(kept)) \in Seq(STRING)
    <3> HIDE DEF kept
    <3> QED BY <2>1, <2>5
  <2> QED BY <1>2, <2>6 DEF Trim
<1> QED BY <1>1, <1>2

LEMMA UppercaseLetterByLetter ==
  ASSUME NEW text \in Seq(STRING)
  PROVE  /\ Uppercase(text) \in Seq({ToUpper(c) : c \in STRING})
         /\ Len(Uppercase(text)) = Len(text)
         /\ \A i \in 1..Len(text) : Uppercase(text)[i] = ToUpper(text[i])
<1> DEFINE U == {ToUpper(c) : c \in STRING}
<1>1. DOMAIN text = 1..Len(text) /\ Len(text) \in Nat
  OBVIOUS
<1>2. Uppercase(text) = [i \in 1..Len(text) |-> ToUpper(text[i])]
  BY <1>1 DEF Uppercase
<1>3. \A i \in 1..Len(text) : ToUpper(text[i]) \in U
  OBVIOUS
<1>4. Uppercase(text) \in [1..Len(text) -> U]
  <2> HIDE DEF U
  <2> QED BY <1>2, <1>3
<1> QED
  <2> HIDE DEF U
  <2> QED BY <1>1, <1>2, <1>4

(***************************************************************************)
(* What LIKE matches when every character is escaped is what begins with    *)
(* the reference, upper and lower case apart.                               *)
(***************************************************************************)
LEMMA LikeIsPrefix ==
  ASSUME NEW reference \in Seq(STRING), Acceptable(reference), NEW d \in DropIds
  PROVE  Like([i \in DOMAIN reference |-> Escaped(reference[i])], d)
           <=> IsPrefix(Uppercase(reference), Uppercase(d))
<1> DEFINE U == {ToUpper(c) : c \in STRING}
           r == Uppercase(reference)
           t == Uppercase(d)
<1>1. d \in Seq(STRING)
  BY TextAssumption
<1>2. [i \in DOMAIN reference |-> Escaped(reference[i])] = reference
  BY DEF Escaped
<1>3. \A i \in DOMAIN reference : reference[i] # "any"
  <2>1. \A i \in DOMAIN reference : reference[i] \in Range(reference)
    BY DEF Range
  <2>2. "any" \notin Letters \cup Digits \cup {"-", "_"}
    BY TextAssumption DEF Letters, Lower
  <2> QED BY <2>1, <2>2 DEF Acceptable
<1>4. Like(reference, d) <=>
        /\ Len(reference) <= Len(d)
        /\ \A i \in 1..Len(reference) : ToUpper(reference[i]) = ToUpper(d[i])
  BY <1>3 DEF Like
<1>5. /\ r \in Seq(U) /\ t \in Seq(U)
      /\ Len(r) = Len(reference) /\ Len(t) = Len(d)
      /\ \A i \in 1..Len(reference) : r[i] = ToUpper(reference[i])
      /\ \A i \in 1..Len(d) : t[i] = ToUpper(d[i])
  BY <1>1, UppercaseLetterByLetter
<1>6. Len(reference) \in Nat /\ Len(d) \in Nat
  BY <1>1
<1> HIDE DEF U, r, t
<1>7. Like(reference, d) <=>
        Len(r) <= Len(t) /\ \A i \in 1..Len(r) : r[i] = t[i]
  BY <1>4, <1>5, <1>6
<1>8. ASSUME Len(r) <= Len(t)
      PROVE  (SubSeq(r, 1, Len(r)) = SubSeq(t, 1, Len(r)))
               <=> \A i \in 1..Len(r) : r[i] = t[i]
  <2>1. /\ SubSeq(r, 1, Len(r)) = [i \in 1..Len(r) |-> r[i]]
        /\ SubSeq(t, 1, Len(r)) = [i \in 1..Len(r) |-> t[i]]
    BY <1>5, <1>6, <1>8
  <2> QED BY <2>1
<1>9. Like(reference, d) <=> IsPrefix(r, t)
  BY <1>7, <1>8 DEF IsPrefix
<1> QED BY <1>2, <1>9 DEF r, t

\* What begins with the reference letter for letter does so case apart.
LEMMA ExactlyIsAlike ==
  ASSUME NEW reference \in Seq(STRING), NEW some \in SUBSET DropIds
  PROVE  Exactly(reference, some) \subseteq Alike(reference, some)
<1> SUFFICES ASSUME NEW d \in some, IsPrefix(reference, d)
             PROVE  IsPrefix(Uppercase(reference), Uppercase(d))
  BY DEF Exactly, Alike
<1> DEFINE U == {ToUpper(c) : c \in STRING}
           r == Uppercase(reference)
           t == Uppercase(d)
<1>1. d \in Seq(STRING)
  BY TextAssumption
<1>2. /\ r \in Seq(U) /\ t \in Seq(U)
      /\ Len(r) = Len(reference) /\ Len(t) = Len(d)
      /\ \A i \in 1..Len(reference) : r[i] = ToUpper(reference[i])
      /\ \A i \in 1..Len(d) : t[i] = ToUpper(d[i])
  BY <1>1, UppercaseLetterByLetter
<1>3. /\ Len(reference) \in Nat /\ Len(d) \in Nat /\ Len(reference) <= Len(d)
      /\ SubSeq(reference, 1, Len(reference)) = SubSeq(d, 1, Len(reference))
  BY <1>1 DEF IsPrefix
<1>4. \A i \in 1..Len(reference) : reference[i] = d[i]
  <2>1. /\ SubSeq(reference, 1, Len(reference)) = [i \in 1..Len(reference) |-> reference[i]]
        /\ SubSeq(d, 1, Len(reference)) = [i \in 1..Len(reference) |-> d[i]]
    BY <1>1, <1>3
  <2> QED BY <1>3, <2>1
<1> HIDE DEF U, r, t
<1>5. Len(r) <= Len(t) /\ \A i \in 1..Len(r) : r[i] = t[i]
  BY <1>2, <1>3, <1>4
<1>6. /\ SubSeq(r, 1, Len(r)) = [i \in 1..Len(r) |-> r[i]]
      /\ SubSeq(t, 1, Len(r)) = [i \in 1..Len(r) |-> t[i]]
  BY <1>2, <1>3, <1>5
<1>7. IsPrefix(r, t)
  BY <1>5, <1>6 DEF IsPrefix
<1> QED BY <1>7 DEF r, t

-----------------------------------------------------------------------------
(***************************************************************************)
(* The inductive invariant of the commands.  A row and an announcement name *)
(* the run that made them; a run of a process that has not committed yet    *)
(* has made none, so what it commits cannot be taken for what an earlier    *)
(* run announced.                                                           *)
(***************************************************************************)
Began(run) == run[2] <= runs[run[1]]

CommandTypes ==
    /\ rows \in [DropIds -> Rows \cup {None}]
    /\ job \in [Processes -> Jobs \cup {None}]
    /\ announced \subseteq [by : Runs, drop : DropIds, code : Codes]

OnlyReadyOnesWork == \A p \in Processes : job[p] # None => proc[p].stage = "ready"

\* A recode goes on only with a reference that the code accepts, and a command
\* prints about a drop.
JobsAreSound ==
    \A p \in Processes : job[p] # None =>
        /\ job[p].reference # None => Acceptable(Trim(job[p].reference))
        /\ job[p].step = "print" => job[p].drop \in DropIds

RowsAreOurs ==
    \A d \in DropIds : rows[d] # None =>
        file = Whole(rows[d].key) /\ Began(rows[d].by)

CodesAreUnique ==
    \A d, e \in DropIds :
        rows[d] # None /\ rows[e] # None /\ rows[d].code = rows[e].code => d = e

Committed(p) == job[p] # None /\ job[p].step \in {"print", "done"}

NothingBeforeCommit ==
    \A p \in Processes : proc[p].stage # "off" /\ ~Committed(p) =>
        /\ \A d \in DropIds : rows[d] # None => rows[d].by # Own(p)
        /\ \A a \in announced : a.by # Own(p)

\* A run has written a code in the row of a drop, and it is there unless another
\* run has written over it.
Wrote(run, d, code) ==
    rows[d] # None /\ (rows[d].by = run => rows[d].code = code)

PrintsWhatItWrote ==
    \A p \in Processes : job[p] # None /\ job[p].step = "print" =>
        Wrote(Own(p), job[p].drop, job[p].code)

AnnouncedIsWritten ==
    \A a \in announced : Began(a.by) /\ Wrote(a.by, a.drop, a.code)

CommandInv ==
    /\ IInv
    /\ CommandTypes
    /\ OnlyReadyOnesWork
    /\ JobsAreSound
    /\ RowsAreOurs
    /\ CodesAreUnique
    /\ NothingBeforeCommit
    /\ PrintsWhatItWrote
    /\ AnnouncedIsWritten
    /\ RecodesWhatIsNamed

LEMMA InitIsSound == CommandInit => CommandInv
<1> SUFFICES ASSUME CommandInit PROVE CommandInv
  OBVIOUS
<1>1. IInv
  BY InitIInv DEF CommandInit
<1> QED
  BY <1>1 DEF CommandInit, CommandInv, CommandTypes, OnlyReadyOnesWork, JobsAreSound,
     RowsAreOurs, CodesAreUnique, NothingBeforeCommit, PrintsWhatItWrote,
     AnnouncedIsWritten, RecodesWhatIsNamed, Init, Off

(***************************************************************************)
(* What a step of the key's protocol does to a process: it starts a new run *)
(* or goes on with the one it has, and comes to be ready only from within.  *)
(***************************************************************************)
LEMMA KeyStepEffect ==
  ASSUME IInv, Next, NEW p \in Processes
  PROVE  /\ \/ runs'[p] = runs[p]
            \/ proc'[p].stage = "look" /\ runs'[p] = runs[p] + 1
         /\ proc[p].stage = "off" /\ proc'[p].stage # "off" => runs'[p] = runs[p] + 1
         /\ proc'[p].stage = "ready" /\ proc[p].stage = "ready" =>
              proc'[p] = proc[p] /\ runs'[p] = runs[p]
<1>1. PICK q \in Processes :
        Start(q) \/ Look(q) \/ ReadKey(q) \/ Create(q) \/ Write(q) \/ Stop(q)
  BY DEF Next
<1>2. CASE Start(q)
  BY <1>2 DEF Start, IInv, Types
<1>3. CASE Look(q)
  BY <1>3 DEF Look, IInv, Types
<1>4. CASE ReadKey(q)
  BY <1>4 DEF ReadKey, Off, IInv, Types
<1>5. CASE Create(q)
  BY <1>5 DEF Create, Off, IInv, Types
<1>6. CASE Write(q)
  BY <1>6 DEF Write, IInv, Types
<1>7. CASE Stop(q)
  BY <1>7 DEF Stop, Off, IInv, Types
<1> QED BY <1>1, <1>2, <1>3, <1>4, <1>5, <1>6, <1>7

LEMMA ReadyEnds ==
  ASSUME IInv, Next, NEW p \in Processes, proc[p].stage = "ready"
  PROVE  proc'[p].stage \in {"ready", "off"}
BY DEF Next, Start, Look, ReadKey, Create, Write, Stop, Off, IInv, Types

LEMMA WholeKeyStays ==
  ASSUME IInv, Next, file.kind = "whole"
  PROVE  file' = file
BY DEF Next, Start, Look, ReadKey, Create, MayCreate, Write, Stop, IInv, Writer, Part

LEMMA KeyStepIsSound ==
  ASSUME CommandInv, KeyStep
  PROVE  CommandInv'
<1>1. IInv /\ Next
  BY DEF CommandInv, KeyStep
<1>2. IInv'
  BY <1>1, NextKeepsIInv
<1>3. /\ rows' = rows /\ announced' = announced /\ addressed' = addressed
      /\ job' = [p \in Processes |-> IF proc'[p].stage = "ready" THEN job[p] ELSE None]
  BY DEF KeyStep
<1>4. CommandTypes'
  BY <1>3 DEF CommandInv, CommandTypes, Rows, Keys, Runs
<1>5. OnlyReadyOnesWork'
  BY <1>3 DEF OnlyReadyOnesWork
<1>6. ASSUME NEW p \in Processes, job'[p] # None
      PROVE  job'[p] = job[p] /\ runs'[p] = runs[p] /\ proc[p].stage = "ready"
  <2>1. job'[p] = job[p] /\ proc'[p].stage = "ready"
    BY <1>3, <1>6
  <2>2. proc[p].stage = "ready"
    BY <1>6, <2>1 DEF CommandInv, OnlyReadyOnesWork
  <2> QED BY <1>1, <2>1, <2>2, KeyStepEffect
<1>7. JobsAreSound'
  BY <1>6 DEF CommandInv, JobsAreSound
<1>8. \A run \in Runs : Began(run) => Began(run)'
  <2> SUFFICES ASSUME NEW run \in Runs, Began(run)
               PROVE  Began(run)'
    OBVIOUS
  <2>1. run[1] \in Processes /\ run[2] \in 1..MaxRuns
    BY DEF Runs
  <2>2. runs'[run[1]] = runs[run[1]] \/ runs'[run[1]] = runs[run[1]] + 1
    BY <1>1, <2>1, KeyStepEffect
  <2>3. runs[run[1]] \in Nat
    BY <1>1, <2>1, KeyAssumption DEF IInv, Types
  <2> QED BY <2>1, <2>2, <2>3, KeyAssumption DEF Began
<1>9. RowsAreOurs'
  <2> SUFFICES ASSUME NEW d \in DropIds, rows'[d] # None
               PROVE  (file = Whole(rows[d].key) /\ Began(rows[d].by))'
    BY DEF RowsAreOurs
  <2>1. file = Whole(rows[d].key) /\ Began(rows[d].by) /\ rows[d].by \in Runs
    BY <1>3 DEF CommandInv, RowsAreOurs, CommandTypes, Rows
  <2>2. file' = file
    BY <1>1, <2>1, WholeKeyStays DEF Whole
  <2>3. Began(rows[d].by)'
    BY <1>3, <1>8, <2>1 DEF Began
  <2> QED BY <1>3, <2>1, <2>2, <2>3 DEF Whole
<1>10. CodesAreUnique'
  BY <1>3 DEF CommandInv, CodesAreUnique
<1>11. NothingBeforeCommit'
  <2> SUFFICES ASSUME NEW p \in Processes, proc'[p].stage # "off", ~Committed(p)'
               PROVE  /\ \A d \in DropIds : rows'[d] # None => rows'[d].by # Own(p)'
                      /\ \A a \in announced' : a.by # Own(p)'
    BY DEF NothingBeforeCommit
  <2>1. CASE runs'[p] = runs[p] /\ proc[p].stage # "off"
    <3>1. Own(p)' = Own(p)
      BY <2>1 DEF Own
    <3>2. ~Committed(p) \/ (proc[p].stage = "ready" /\ proc'[p].stage # "ready")
      <4> SUFFICES ASSUME Committed(p), ~(proc[p].stage = "ready" /\ proc'[p].stage # "ready")
                   PROVE  FALSE
        OBVIOUS
      <4>1. job[p] # None /\ proc[p].stage = "ready"
        BY DEF Committed, CommandInv, OnlyReadyOnesWork
      <4>2. job'[p] = job[p]
        BY <1>3, <4>1
      <4> QED BY <4>2 DEF Committed
    <3>3. ~(proc[p].stage = "ready" /\ proc'[p].stage # "ready")
      BY <1>1, ReadyEnds
    <3> QED
      BY <1>3, <2>1, <3>1, <3>2, <3>3 DEF CommandInv, NothingBeforeCommit
  <2>2. CASE runs'[p] = runs[p] + 1
    <3>1. \A run \in Runs : Began(run) => run # Own(p)'
      <4>1. runs[p] \in Nat
        BY <1>1, KeyAssumption DEF IInv, Types
      <4> QED BY <2>2, <4>1, KeyAssumption DEF Began, Own, Runs
    <3>2. \A d \in DropIds : rows[d] # None => rows[d].by \in Runs /\ Began(rows[d].by)
      BY DEF CommandInv, RowsAreOurs, CommandTypes, Rows
    <3>3. \A a \in announced : a.by \in Runs /\ Began(a.by)
      BY DEF CommandInv, AnnouncedIsWritten, CommandTypes
    <3> QED BY <1>3, <3>1, <3>2, <3>3
  <2>3. runs'[p] = runs[p] \/ runs'[p] = runs[p] + 1
    BY <1>1, KeyStepEffect
  <2>4. proc[p].stage = "off" => runs'[p] = runs[p] + 1
    BY <1>1, KeyStepEffect
  <2> QED BY <2>1, <2>2, <2>3, <2>4
<1>12. PrintsWhatItWrote'
  <2> SUFFICES ASSUME NEW p \in Processes, job'[p] # None, job'[p].step = "print"
               PROVE  Wrote(Own(p), job[p].drop, job[p].code)'
    BY DEF PrintsWhatItWrote
  <2>1. job'[p] = job[p] /\ Own(p)' = Own(p)
    BY <1>6 DEF Own
  <2> QED BY <1>3, <2>1 DEF CommandInv, PrintsWhatItWrote, Wrote
<1>13. AnnouncedIsWritten'
  <2>1. \A a \in announced : Began(a.by)'
    BY <1>8 DEF CommandInv, AnnouncedIsWritten, CommandTypes
  <2> QED BY <1>3, <2>1 DEF CommandInv, AnnouncedIsWritten, Wrote
<1>14. RecodesWhatIsNamed'
  BY <1>3 DEF CommandInv, RecodesWhatIsNamed
<1> QED
  BY <1>2, <1>4, <1>5, <1>7, <1>9, <1>10, <1>11, <1>12, <1>13, <1>14 DEF CommandInv

(***************************************************************************)
(* The steps of the commands leave the key's protocol alone.                *)
(***************************************************************************)
LEMMA KeyIsLeftAlone ==
  ASSUME CommandInv, UNCHANGED vars
  PROVE  IInv'
BY NextKeepsIInv DEF CommandInv

LEMMA DrawIsSound ==
  ASSUME CommandInv,
         NEW p \in Processes, NEW code \in Codes, NEW reference \in References \cup {None},
         Draw(p, reference, code)
  PROVE  CommandInv'
<1> DEFINE new == [step |-> "commit", reference |-> reference, code |-> code, drop |-> None]
<1>1. IInv'
  BY KeyIsLeftAlone DEF Draw
<1>2. /\ job' = [job EXCEPT ![p] = new]
      /\ proc[p].stage = "ready" /\ job[p] = None
      /\ reference # None => Acceptable(Trim(reference))
      /\ file' = file /\ proc' = proc /\ runs' = runs
      /\ rows' = rows /\ announced' = announced /\ addressed' = addressed
  BY DEF Draw, vars
<1>3. new \in Jobs /\ new # None
  <2>1. new \in Jobs
    BY DEF Jobs
  <2> QED BY <2>1, NoneIsNoRecord
<1>4. new.step = "commit" /\ new.reference = reference
  OBVIOUS
<1> HIDE DEF new
<1>5. job'[p] = new /\ \A q \in Processes \ {p} : job'[q] = job[q]
  BY <1>2 DEF CommandInv, CommandTypes
<1>6. CommandTypes'
  BY <1>2, <1>3 DEF CommandInv, CommandTypes, Rows, Keys, Runs
<1>7. OnlyReadyOnesWork'
  BY <1>2, <1>5 DEF CommandInv, OnlyReadyOnesWork
<1>8. JobsAreSound'
  BY <1>2, <1>4, <1>5 DEF CommandInv, JobsAreSound
<1>9. RowsAreOurs' /\ CodesAreUnique' /\ AnnouncedIsWritten' /\ RecodesWhatIsNamed'
  BY <1>2 DEF CommandInv, RowsAreOurs, CodesAreUnique, AnnouncedIsWritten, Wrote,
     RecodesWhatIsNamed, Began
<1>10. NothingBeforeCommit'
  <2>1. \A q \in Processes : ~Committed(q)' => ~Committed(q)
    BY <1>2, <1>5 DEF Committed
  <2> QED BY <1>2, <2>1 DEF CommandInv, NothingBeforeCommit, Own
<1>11. PrintsWhatItWrote'
  BY <1>2, <1>4, <1>5 DEF CommandInv, PrintsWhatItWrote, Wrote, Own
<1> QED
  BY <1>1, <1>6, <1>7, <1>8, <1>9, <1>10, <1>11 DEF CommandInv

(***************************************************************************)
(* Publish and Rotate both write the row of a drop, under a code that no    *)
(* other row has, and remember for which drop.                              *)
(***************************************************************************)
LEMMA WritingIsSound ==
  ASSUME CommandInv, NEW p \in Processes, NEW d \in DropIds,
         NEW left \in Nat \cup {None},
         At(p, "commit"), Tagged(proc[p].key, job[p].code) \subseteq {d},
         rows' = [rows EXCEPT ![d] = Row(p, left)],
         job' = [job EXCEPT ![p].step = "print", ![p].drop = d],
         UNCHANGED vars, announced' = announced,
         RecodesWhatIsNamed'
  PROVE  CommandInv'
<1> DEFINE new == [step |-> "print", reference |-> job[p].reference,
                   code |-> job[p].code, drop |-> d]
<1>1. IInv'
  BY KeyIsLeftAlone
<1>2. file' = file /\ proc' = proc /\ runs' = runs
  BY DEF vars
<1>3. /\ proc[p].stage = "ready" /\ job[p] # None /\ job[p].step = "commit"
      /\ job[p] \in Jobs /\ job[p].code \in Codes
  <2>1. proc[p].stage = "ready" /\ job[p] # None /\ job[p].step = "commit"
    BY DEF At
  <2>2. job[p] \in Jobs
    BY <2>1 DEF CommandInv, CommandTypes
  <2> QED BY <2>1, <2>2 DEF Jobs
<1>4. new \in Jobs /\ new # None
  <2>1. new \in Jobs
    BY <1>3 DEF Jobs
  <2> QED BY <2>1, NoneIsNoRecord
<1>5. job'[p] = new
  BY <1>3 DEF CommandInv, CommandTypes, Jobs
<1>6. /\ new.step = "print" /\ new.drop = d /\ new.code = job[p].code
      /\ new.reference = job[p].reference
  OBVIOUS
<1> HIDE DEF new
<1>7. \A q \in Processes \ {p} : job'[q] = job[q]
  BY DEF CommandInv, CommandTypes
<1>8. file = Whole(proc[p].key) /\ runs[p] \in 1..MaxRuns /\ proc[p].key \in Keys \cup {None}
  BY <1>3 DEF CommandInv, IInv, OneKey, Types
<1>9. /\ Own(p) \in Runs /\ Began(Own(p))
  BY <1>8, KeyAssumption DEF Own, Runs, Began
<1> DEFINE row == Row(p, left)
<1>10. /\ rows'[d] = row
       /\ \A e \in DropIds \ {d} : rows'[e] = rows[e]
       /\ row.key = proc[p].key /\ row.code = job[p].code /\ row.by = Own(p)
  BY DEF CommandInv, CommandTypes, Row
<1>11. row \in Rows /\ row # None
  <2>1. row \in Rows
    BY <1>3, <1>8, <1>9 DEF Row, Rows
  <2> HIDE DEF row
  <2> QED BY <2>1, NoneIsNoRecord
<1> HIDE DEF row
<1>12. CommandTypes'
  <2>1. job' \in [Processes -> Jobs \cup {None}]
    BY <1>4, <1>5, <1>7 DEF CommandInv, CommandTypes
  <2>2. rows' \in [DropIds -> Rows \cup {None}]
    BY <1>10, <1>11 DEF CommandInv, CommandTypes
  <2> QED BY <2>1, <2>2 DEF CommandInv, CommandTypes, Rows, Keys, Runs
<1>13. OnlyReadyOnesWork'
  BY <1>2, <1>3, <1>7 DEF CommandInv, OnlyReadyOnesWork
<1>14. JobsAreSound'
  BY <1>3, <1>5, <1>6, <1>7 DEF CommandInv, JobsAreSound
<1>15. RowsAreOurs'
  <2>1. (Began(Own(p)))' /\ \A e \in DropIds : rows[e] # None => Began(rows[e].by)
    BY <1>2, <1>9 DEF CommandInv, RowsAreOurs, Began, Own
  <2> QED BY <1>2, <1>8, <1>9, <1>10, <2>1 DEF CommandInv, RowsAreOurs, Began
<1>16. CodesAreUnique'
  <2>1. \A e \in DropIds : rows[e] # None => rows[e].key = proc[p].key
    BY <1>8 DEF CommandInv, RowsAreOurs, Whole
  <2>2. \A e \in DropIds \ {d} : rows[e] # None => rows[e].code # job[p].code
    BY <2>1 DEF Tagged, StoredDrops
  <2> QED BY <1>10, <2>2 DEF CommandInv, CodesAreUnique
<1>17. ~Committed(p)
  BY <1>3 DEF Committed
<1>18. NothingBeforeCommit'
  <2> SUFFICES ASSUME NEW q \in Processes, proc'[q].stage # "off", ~Committed(q)'
               PROVE  /\ \A e \in DropIds : rows'[e] # None => rows'[e].by # Own(q)'
                      /\ \A a \in announced' : a.by # Own(q)'
    BY DEF NothingBeforeCommit
  <2>1. q # p
    BY <1>4, <1>5, <1>6 DEF Committed
  <2>2. ~Committed(q) /\ proc[q].stage # "off"
    BY <1>2, <1>7, <2>1 DEF Committed
  <2>3. Own(q)' = Own(q) /\ Own(p) # Own(q)
    BY <1>2, <2>1 DEF Own
  <2> QED BY <1>10, <2>2, <2>3 DEF CommandInv, NothingBeforeCommit
<1>19. PrintsWhatItWrote'
  <2> SUFFICES ASSUME NEW q \in Processes, job'[q] # None, job'[q].step = "print"
               PROVE  Wrote(Own(q), job[q].drop, job[q].code)'
    BY DEF PrintsWhatItWrote
  <2>1. CASE q = p
    BY <1>5, <1>6, <1>10, <1>11, <2>1 DEF Wrote
  <2>2. CASE q # p
    <3>1. job'[q] = job[q] /\ Own(q)' = Own(q) /\ Own(p) # Own(q)
      BY <1>2, <1>7, <2>2 DEF Own
    <3>2. job[q].drop \in DropIds
      BY <3>1 DEF CommandInv, JobsAreSound
    <3> QED BY <1>10, <1>11, <3>1, <3>2 DEF CommandInv, PrintsWhatItWrote, Wrote
  <2> QED BY <2>1, <2>2
<1>20. AnnouncedIsWritten'
  <2>1. \A a \in announced : a.by # Own(p) /\ a.drop \in DropIds
    BY <1>3, <1>17 DEF CommandInv, NothingBeforeCommit, CommandTypes
  <2> QED BY <1>2, <1>10, <1>11, <2>1 DEF CommandInv, AnnouncedIsWritten, Wrote, Began
<1> QED
  BY <1>1, <1>12, <1>13, <1>14, <1>15, <1>16, <1>18, <1>19, <1>20 DEF CommandInv

LEMMA PublishIsSound ==
  ASSUME CommandInv, NEW p \in Processes, NEW d \in DropIds, NEW limit \in Limits,
         Publish(p, d, limit)
  PROVE  CommandInv'
<1>1. /\ At(p, "commit") /\ Tagged(proc[p].key, job[p].code) \subseteq {d}
      /\ rows' = [rows EXCEPT ![d] = Row(p, limit)]
      /\ job' = [job EXCEPT ![p].step = "print", ![p].drop = d]
      /\ UNCHANGED vars /\ announced' = announced /\ addressed' = addressed
  BY DEF Publish
<1>2. RecodesWhatIsNamed'
  BY <1>1 DEF CommandInv, RecodesWhatIsNamed
<1>3. limit \in Nat \cup {None}
  BY LimitAssumption
<1> QED BY <1>1, <1>2, <1>3, WritingIsSound

(***************************************************************************)
(* What the query of rotate_code selects is what the operator has named.    *)
(***************************************************************************)
LEMMA MatchesAreNamed ==
  ASSUME NEW reference \in Seq(STRING), Acceptable(reference)
  PROVE  Matches(reference) = Alike(reference, ActiveDrops)
BY LikeIsPrefix DEF Matches, Alike, ActiveDrops, StoredDrops

LEMMA RotateIsSound ==
  ASSUME CommandInv, NEW p \in Processes, Rotate(p)
  PROVE  CommandInv'
<1> DEFINE reference == Trim(job[p].reference)
           chosen == Chosen(Matches(reference))
           named == Alike(reference, ActiveDrops)
<1>1. /\ At(p, "commit") /\ job[p].reference # None
      /\ addressed' = [reference |-> reference, stored |-> StoredDrops,
                       active |-> ActiveDrops, chosen |-> chosen]
      /\ UNCHANGED vars /\ announced' = announced
  BY DEF Rotate
<1>2. job[p] # None /\ job[p] \in Jobs /\ job[p].step = "commit"
  BY <1>1 DEF At, CommandInv, CommandTypes
<1>3. job[p].reference \in Seq(STRING)
  BY <1>1, <1>2, TextAssumption DEF Jobs
<1>4. reference \in Seq(STRING) /\ Acceptable(reference)
  BY <1>1, <1>2, <1>3, TrimmedIsText DEF CommandInv, JobsAreSound
<1>5. Matches(reference) = named
  BY <1>4, MatchesAreNamed
<1>6. chosen = IF Cardinality(named) = 1 THEN named ELSE {}
  BY <1>5 DEF Chosen
<1>7. RecodesWhatIsNamed'
  <2> DEFINE exactly == Exactly(reference, ActiveDrops)
  <2>1. exactly \subseteq named /\ IsFiniteSet(named)
    <3>1. ActiveDrops \in SUBSET DropIds /\ IsFiniteSet(DropIds)
      BY TextAssumption DEF ActiveDrops, StoredDrops
    <3>2. exactly \subseteq named
      BY <1>4, <3>1, ExactlyIsAlike
    <3>3. named \subseteq DropIds
      BY <3>1 DEF Alike
    <3> QED BY <3>1, <3>2, <3>3, FS_Subset
  <2> HIDE DEF exactly, named, chosen, reference
  <2>2. exactly # {} => chosen \subseteq exactly
    BY <1>6, <2>1, FS_Singleton
  <2>3. /\ addressed'.reference = reference /\ addressed'.active = ActiveDrops
        /\ addressed'.chosen = chosen
    BY <1>1
  <2>4. /\ Exactly(addressed'.reference, addressed'.active) = exactly
        /\ Alike(addressed'.reference, addressed'.active) = named
    BY <2>3 DEF exactly, named
  <2> QED BY <1>6, <2>2, <2>3, <2>4 DEF RecodesWhatIsNamed, Exactly, Alike
<1>8. CASE chosen = {}
  <2> DEFINE new == [job[p] EXCEPT !.step = "failed"]
  <2>1. job' = [job EXCEPT ![p] = new] /\ rows' = rows
    BY <1>8 DEF Rotate
  <2>2. new \in Jobs /\ new.step = "failed" /\ new.reference = job[p].reference
    BY <1>2 DEF Jobs
  <2>3. new # None
    <3> HIDE DEF new
    <3> QED BY <2>2, NoneIsNoRecord
  <2> HIDE DEF new
  <2>4. job'[p] = new /\ \A q \in Processes \ {p} : job'[q] = job[q]
    BY <2>1 DEF CommandInv, CommandTypes
  <2>5. file' = file /\ proc' = proc /\ runs' = runs
    BY <1>1 DEF vars
  <2>6. IInv'
    BY <1>1, KeyIsLeftAlone
  <2>7. CommandTypes'
    BY <1>1, <2>1, <2>2 DEF CommandInv, CommandTypes, Rows, Keys, Runs
  <2>8. OnlyReadyOnesWork' /\ JobsAreSound'
    BY <1>1, <1>2, <2>2, <2>4, <2>5 DEF CommandInv, OnlyReadyOnesWork, JobsAreSound
  <2>9. RowsAreOurs' /\ CodesAreUnique' /\ AnnouncedIsWritten'
    BY <1>1, <2>1, <2>5 DEF CommandInv, RowsAreOurs, CodesAreUnique, AnnouncedIsWritten,
       Wrote, Began
  <2>10. NothingBeforeCommit'
    <3>1. \A q \in Processes : ~Committed(q)' => ~Committed(q)
      BY <1>2, <2>4 DEF Committed
    <3> QED BY <1>1, <2>1, <2>5, <3>1 DEF CommandInv, NothingBeforeCommit, Own
  <2>11. PrintsWhatItWrote'
    BY <2>1, <2>2, <2>4, <2>5 DEF CommandInv, PrintsWhatItWrote, Wrote, Own
  <2> QED
    BY <1>7, <2>6, <2>7, <2>8, <2>9, <2>10, <2>11 DEF CommandInv
<1>9. CASE chosen # {}
  <2>1. PICK d \in chosen :
           /\ rows' = [rows EXCEPT ![d] = Row(p, rows[d].left)]
           /\ job' = [job EXCEPT ![p].step = "print", ![p].drop = d]
           /\ Tagged(proc[p].key, job[p].code) \subseteq {d}
    BY <1>9 DEF Rotate
  <2>2. d \in DropIds /\ rows[d] # None
    BY <2>1 DEF Chosen, Matches, ActiveDrops, StoredDrops
  <2>3. rows[d].left \in Nat \cup {None}
    BY <2>2 DEF CommandInv, CommandTypes, Rows
  <2> QED BY <1>1, <1>7, <2>1, <2>2, <2>3, WritingIsSound
<1> QED BY <1>8, <1>9

LEMMA AnnounceIsSound ==
  ASSUME CommandInv, NEW p \in Processes, Announce(p)
  PROVE  CommandInv'
<1> DEFINE new == [job[p] EXCEPT !.step = "done"]
           a == [by |-> Own(p), drop |-> job[p].drop, code |-> job[p].code]
<1>1. /\ At(p, "print")
      /\ announced' = announced \cup {a}
      /\ job' = [job EXCEPT ![p] = new]
      /\ file' = file /\ proc' = proc /\ runs' = runs
      /\ rows' = rows /\ addressed' = addressed
  BY DEF Announce, vars
<1>2. /\ proc[p].stage = "ready" /\ job[p] # None /\ job[p].step = "print"
      /\ job[p] \in Jobs /\ job[p].drop \in DropIds
  BY <1>1 DEF At, CommandInv, CommandTypes, JobsAreSound
<1>3. /\ new \in Jobs /\ new.step = "done"
      /\ new.reference = job[p].reference
  BY <1>2 DEF Jobs
<1>4. new # None
  <2> HIDE DEF new
  <2> QED BY <1>3, NoneIsNoRecord
<1> HIDE DEF new
<1>5. job'[p] = new /\ \A q \in Processes \ {p} : job'[q] = job[q]
  BY <1>1 DEF CommandInv, CommandTypes
<1>6. Own(p) \in Runs /\ Began(Own(p))
  <2>1. runs[p] \in 1..MaxRuns
    BY <1>2 DEF CommandInv, IInv, Types
  <2> QED BY <2>1, KeyAssumption DEF Own, Runs, Began
<1>7. IInv'
  BY KeyIsLeftAlone DEF Announce
<1>8. CommandTypes'
  <2>1. a \in [by : Runs, drop : DropIds, code : Codes]
    BY <1>2, <1>6 DEF Jobs
  <2> HIDE DEF a
  <2> QED BY <1>1, <1>3, <2>1 DEF CommandInv, CommandTypes, Rows, Keys, Runs
<1>9. OnlyReadyOnesWork' /\ JobsAreSound'
  BY <1>1, <1>2, <1>3, <1>5 DEF CommandInv, OnlyReadyOnesWork, JobsAreSound
<1>10. RowsAreOurs' /\ CodesAreUnique' /\ RecodesWhatIsNamed'
  BY <1>1 DEF CommandInv, RowsAreOurs, CodesAreUnique, RecodesWhatIsNamed, Began
<1>11. Committed(p) /\ Committed(p)'
  BY <1>2, <1>3, <1>4, <1>5 DEF Committed
<1>12. NothingBeforeCommit'
  <2> SUFFICES ASSUME NEW q \in Processes, proc'[q].stage # "off", ~Committed(q)'
               PROVE  /\ \A e \in DropIds : rows'[e] # None => rows'[e].by # Own(q)'
                      /\ \A b \in announced' : b.by # Own(q)'
    BY DEF NothingBeforeCommit
  <2>1. q # p
    BY <1>11
  <2>2. ~Committed(q) /\ proc[q].stage # "off"
    BY <1>1, <1>5, <2>1 DEF Committed
  <2>3. Own(q)' = Own(q) /\ a.by # Own(q)
    BY <1>1, <2>1 DEF Own
  <2> HIDE DEF a
  <2> QED BY <1>1, <2>2, <2>3 DEF CommandInv, NothingBeforeCommit
<1>13. PrintsWhatItWrote'
  BY <1>1, <1>3, <1>5 DEF CommandInv, PrintsWhatItWrote, Wrote, Own
<1>14. AnnouncedIsWritten'
  <2>1. Wrote(a.by, a.drop, a.code)
    BY <1>2 DEF CommandInv, PrintsWhatItWrote
  <2>2. Began(a.by)
    BY <1>6
  <2> HIDE DEF a
  <2> QED BY <1>1, <2>1, <2>2 DEF CommandInv, AnnouncedIsWritten, Wrote, Began
<1> QED
  BY <1>7, <1>8, <1>9, <1>10, <1>12, <1>13, <1>14 DEF CommandInv

\* Deactivate, ExpireCode and Redeem leave the key, the code and the writer of a
\* row as they are.
LEMMA WearingIsSound ==
  ASSUME CommandInv, NEW d \in DropIds, NEW row \in Rows,
         rows[d] # None, rows' = [rows EXCEPT ![d] = row],
         row.key = rows[d].key, row.code = rows[d].code, row.by = rows[d].by,
         UNCHANGED <<vars, job, announced, addressed>>
  PROVE  CommandInv'
<1>1. /\ file' = file /\ proc' = proc /\ runs' = runs
      /\ job' = job /\ announced' = announced /\ addressed' = addressed
  BY DEF vars
<1>2. CommandTypes'
  BY <1>1 DEF CommandInv, CommandTypes, Rows, Keys, Runs
<1>3. /\ rows'[d] = row
      /\ \A e \in DropIds \ {d} : rows'[e] = rows[e]
  BY DEF CommandInv, CommandTypes
<1>4. IInv'
  BY KeyIsLeftAlone
<1>5. OnlyReadyOnesWork' /\ JobsAreSound' /\ RecodesWhatIsNamed'
  BY <1>1 DEF CommandInv, OnlyReadyOnesWork, JobsAreSound, RecodesWhatIsNamed
<1>6. \A e \in DropIds :
        /\ rows'[e] = None <=> rows[e] = None
        /\ rows'[e] # None => /\ rows'[e].key = rows[e].key
                              /\ rows'[e].code = rows[e].code
                              /\ rows'[e].by = rows[e].by
  BY <1>3, NoneIsNoRecord
<1>7. RowsAreOurs' /\ CodesAreUnique'
  BY <1>1, <1>6 DEF CommandInv, RowsAreOurs, CodesAreUnique, Began, Whole
<1>8. NothingBeforeCommit'
  BY <1>1, <1>6 DEF CommandInv, NothingBeforeCommit, Committed, Own
<1>9. PrintsWhatItWrote'
  BY <1>1, <1>6 DEF CommandInv, PrintsWhatItWrote, Wrote, JobsAreSound, Own
<1>10. AnnouncedIsWritten'
  BY <1>1, <1>6 DEF CommandInv, AnnouncedIsWritten, Wrote, CommandTypes, Began
<1> QED
  BY <1>2, <1>4, <1>5, <1>7, <1>8, <1>9, <1>10 DEF CommandInv

LEMMA EndingIsSound ==
  ASSUME CommandInv, NEW d \in DropIds, Deactivate(d) \/ ExpireCode(d)
  PROVE  CommandInv'
<1>1. rows[d] # None /\ UNCHANGED <<vars, job, announced, addressed>>
  BY DEF Deactivate, ExpireCode, ActiveDrops, StoredDrops
<1>2. rows[d] \in Rows
  BY <1>1 DEF CommandInv, CommandTypes
<1>3. PICK row \in Rows :
         /\ rows' = [rows EXCEPT ![d] = row]
         /\ row.key = rows[d].key /\ row.code = rows[d].code /\ row.by = rows[d].by
  <2> DEFINE ended == [rows[d] EXCEPT !.active = FALSE]
             late == [rows[d] EXCEPT !.fresh = FALSE]
  <2>1. ended \in Rows /\ late \in Rows
    BY <1>2 DEF Rows
  <2>2. /\ ended.key = rows[d].key /\ ended.code = rows[d].code /\ ended.by = rows[d].by
        /\ late.key = rows[d].key /\ late.code = rows[d].code /\ late.by = rows[d].by
    BY <1>2 DEF Rows
  <2>3. rows' = [rows EXCEPT ![d] = ended] \/ rows' = [rows EXCEPT ![d] = late]
    BY DEF Deactivate, ExpireCode
  <2> HIDE DEF ended, late
  <2> QED BY <2>1, <2>2, <2>3
<1> QED BY <1>1, <1>3, WearingIsSound

LEMMA RedeemIsSound ==
  ASSUME CommandInv, NEW p \in Processes, NEW text, Redeem(p, text)
  PROVE  CommandInv'
<1>1. UNCHANGED <<vars, job, announced, addressed>>
  BY DEF Redeem
<1>2. PICK d \in Found(p, text) :
         rows' = [rows EXCEPT ![d].left = IF @ = None THEN None ELSE @ - 1]
  BY DEF Redeem
<1>3. d \in DropIds /\ rows[d] # None /\ rows[d].left # 0
  BY <1>2 DEF Found, Redeemable, ActiveDrops, StoredDrops
<1>4. rows[d] \in Rows
  BY <1>3 DEF CommandInv, CommandTypes
<1> DEFINE left == IF rows[d].left = None THEN None ELSE rows[d].left - 1
           row == [rows[d] EXCEPT !.left = left]
<1>5. left \in Nat \cup {None}
  BY <1>3, <1>4 DEF Rows
<1>6. rows' = [rows EXCEPT ![d] = row]
  BY <1>2
<1> HIDE DEF left
<1>7. /\ row \in Rows
      /\ row.key = rows[d].key /\ row.code = rows[d].code /\ row.by = rows[d].by
  BY <1>4, <1>5 DEF Rows
<1> QED BY <1>1, <1>3, <1>6, <1>7, WearingIsSound

LEMMA StandingStillIsSound ==
  ASSUME CommandInv, UNCHANGED allVars
  PROVE  CommandInv'
<1>1. IInv'
  BY KeyIsLeftAlone DEF allVars
<1>2. /\ rows' = rows /\ job' = job /\ announced' = announced /\ addressed' = addressed
      /\ file' = file /\ proc' = proc /\ runs' = runs
  BY DEF allVars, commandVars, vars
<1>3. CommandTypes' /\ OnlyReadyOnesWork' /\ JobsAreSound' /\ RowsAreOurs' /\ CodesAreUnique'
  BY <1>2 DEF CommandInv, CommandTypes, OnlyReadyOnesWork, JobsAreSound, RowsAreOurs,
     CodesAreUnique, Began, Keys, Runs
<1>4. NothingBeforeCommit' /\ PrintsWhatItWrote' /\ AnnouncedIsWritten' /\ RecodesWhatIsNamed'
  BY <1>2 DEF CommandInv, NothingBeforeCommit, PrintsWhatItWrote, AnnouncedIsWritten,
     Wrote, RecodesWhatIsNamed, Began, Own, Committed
<1> QED BY <1>1, <1>3, <1>4 DEF CommandInv

(***************************************************************************)
(* The rows, the commands and what they printed agree in every state,       *)
(* whatever processes run, stop or are killed.                              *)
(***************************************************************************)
THEOREM CommandInvariance == CommandSpec => []CommandInv
<1>1. CommandInv /\ [CommandNext]_allVars => CommandInv'
  <2> SUFFICES ASSUME CommandInv, [CommandNext]_allVars
               PROVE  CommandInv'
    OBVIOUS
  <2> QED BY KeyStepIsSound, DrawIsSound, PublishIsSound, RotateIsSound, AnnounceIsSound,
             RedeemIsSound, EndingIsSound, StandingStillIsSound DEF CommandNext
<1> QED BY <1>1, InitIsSound, PTL DEF CommandSpec

(***************************************************************************)
(* The commands go by the protocol of the key: with what they do in between *)
(* it is still one key for all of them, and for good.                       *)
(***************************************************************************)
THEOREM CommandsShareTheKey == CommandSpec => []OneKey /\ KeyIsForGood
<1>1. CommandInit => Init
  BY DEF CommandInit
<1>2. [CommandNext]_allVars => [Next]_vars
  BY DEF CommandNext, KeyStep, Draw, Publish, Rotate, Announce, Redeem, Deactivate,
         ExpireCode, allVars
<1>3. CommandSpec => Spec
  BY <1>1, <1>2, PTL DEF CommandSpec, Spec
<1> QED BY <1>3, ThereIsOneKey, KeyStays, PTL

(***************************************************************************)
(* Whatever identifiers, references and alphabet, a recode changes a drop    *)
(* if it is the only active one that begins with the reference, upper and   *)
(* lower case apart, and nothing else; one that names active drops letter   *)
(* for letter changes none but those.  Every character that is accepted     *)
(* stands for itself in the pattern for LIKE (rotate_code of src/src/db.rs).*)
(* It does not say that the reference is a prefix of what is changed: that  *)
(* is IdentifiersNameTheirDrop, which the code does not keep.               *)
(***************************************************************************)
THEOREM RecodesGoWhereTheyAreSent == CommandSpec => []RecodesWhatIsNamed
<1>1. CommandInv => RecodesWhatIsNamed
  BY DEF CommandInv
<1> QED BY <1>1, CommandInvariance, PTL

(***************************************************************************)
(* The drops of one state directory never share a code, although every      *)
(* process draws its own and looks whether it is taken before it commits    *)
(* (code_tag_exists, and UNIQUE on code_tag).                               *)
(***************************************************************************)
THEOREM NoTwoDropsShareACode == CommandSpec => []CodesAreUnique
<1>1. CommandInv => CodesAreUnique
  BY DEF CommandInv
<1> QED BY <1>1, CommandInvariance, PTL

(***************************************************************************)
(* What normalize_code makes of a written code.  Inserted says what         *)
(* InsertAt does, position by position; the lemmas after it say what Trim   *)
(* and Compact leave of a text with one blank or separator in it.           *)
(***************************************************************************)
Alphabet == Letters \cup Digits

Inserted(s, i, c) ==
    [k \in 1..(Len(s) + 1) |-> IF k < i THEN s[k] ELSE IF k = i THEN c ELSE s[k - 1]]

LEMMA InsertAtInserts ==
  ASSUME NEW S, NEW s \in Seq(S), NEW c \in S, NEW i \in 1..(Len(s) + 1)
  PROVE  /\ InsertAt(s, i, c) = Inserted(s, i, c)
         /\ Inserted(s, i, c) \in Seq(S)
         /\ Len(Inserted(s, i, c)) = Len(s) + 1
<1> DEFINE before == SubSeq(s, 1, i - 1)
           front == before \o <<c>>
           back == SubSeq(s, i, Len(s))
           whole == front \o back
<1>1. /\ before \in Seq(S) /\ Len(before) = i - 1
      /\ \A k \in 1..(i - 1) : before[k] = s[k]
  OBVIOUS
<1>2. /\ back \in Seq(S) /\ Len(back) = Len(s) - i + 1
      /\ \A k \in 1..(Len(s) - i + 1) : back[k] = s[i + k - 1]
  OBVIOUS
<1>3. InsertAt(s, i, c) = whole
  BY DEF InsertAt
<1>4. Len(s) \in Nat /\ i \in Nat /\ i >= 1 /\ i <= Len(s) + 1
  OBVIOUS
<1>5. /\ front \in Seq(S) /\ Len(front) = i
      /\ \A k \in 1..(i - 1) : front[k] = s[k]
      /\ front[i] = c
  <2> HIDE DEF before
  <2> QED BY <1>1, <1>4
<1>6. /\ whole \in Seq(S)
      /\ Len(whole) = Len(s) + 1
      /\ \A k \in 1..i : whole[k] = front[k]
      /\ \A k \in (i + 1)..(Len(s) + 1) : whole[k] = back[k - i]
  <2> HIDE DEF front, back
  <2> QED BY <1>2, <1>4, <1>5
<1> HIDE DEF front, back, whole
<1>7. \A k \in 1..(Len(s) + 1) :
         whole[k] = IF k < i THEN s[k] ELSE IF k = i THEN c ELSE s[k - 1]
  <2>1. \A k \in (i + 1)..(Len(s) + 1) : k - i \in 1..(Len(s) - i + 1)
    BY <1>4
  <2>2. \A k \in (i + 1)..(Len(s) + 1) : whole[k] = s[k - 1]
    BY <1>2, <1>4, <1>6, <2>1
  <2> QED BY <1>4, <1>5, <1>6, <2>2
<1>8. whole = [k \in 1..(Len(s) + 1) |-> whole[k]]
  BY <1>6
<1>9. whole = Inserted(s, i, c)
  BY <1>7, <1>8 DEF Inserted
<1> QED BY <1>3, <1>6, <1>9

LEMMA LeastAndGreatest ==
  ASSUME NEW T, NEW a \in T, NEW b \in T, T \subseteq Int,
         \A x \in T : a <= x /\ x <= b
  PROVE  Min(T) = a /\ Max(T) = b
<1>1. \A x \in T : x = a <=> \A y \in T : x =< y
  OBVIOUS
<1>2. \A x \in T : x = b <=> \A y \in T : x >= y
  OBVIOUS
<1> QED BY <1>1, <1>2 DEF Min, Max

LEMMA IntervalEnds ==
  ASSUME NEW a \in Int, NEW b \in Int, a <= b
  PROVE  Min(a..b) = a /\ Max(a..b) = b
<1>1. a \in a..b /\ b \in a..b /\ a..b \subseteq Int /\ \A x \in a..b : a <= x /\ x <= b
  OBVIOUS
<1> DEFINE T == a..b
<1> HIDE DEF T
<1>2. Min(T) = a /\ Max(T) = b
  BY <1>1, LeastAndGreatest DEF T
<1> QED BY <1>2 DEF T

LEMMA AlphabetIsPlain == Alphabet \cap (Blanks \cup Separators) = {}
BY AlphabetAssumption DEF Alphabet, Letters, Lower, Blanks, Separators

LEMMA TrimKeeps ==
  ASSUME NEW S, NEW s \in Seq(S), s # <<>>,
         s[1] \notin Blanks, s[Len(s)] \notin Blanks
  PROVE  Trim(s) = s
<1> DEFINE kept == {i \in DOMAIN s : s[i] \notin Blanks}
<1>1. 1 \in kept /\ Len(s) \in kept /\ kept \subseteq 1..Len(s) /\ Len(s) \in Nat /\ 1 <= Len(s)
  OBVIOUS
<1>2. Min(kept) = 1 /\ Max(kept) = Len(s)
  <2> DEFINE m == Len(s)
  <2>1. 1 \in kept /\ m \in kept /\ kept \subseteq Int /\ \A x \in kept : 1 <= x /\ x <= m
    BY <1>1
  <2> HIDE DEF kept, m
  <2>2. Min(kept) = 1 /\ Max(kept) = m
    BY <2>1, LeastAndGreatest
  <2> QED BY <2>2 DEF m
<1>3. SubSeq(s, 1, Len(s)) = s
  OBVIOUS
<1> QED BY <1>1, <1>2, <1>3 DEF Trim

LEMMA NthOfAll ==
  ASSUME NEW m \in Nat
  PROVE  Cardinality(1..m) = m /\ \A k \in 1..m : Nth(1..m, k) = k
<1>1. ASSUME NEW i \in 1..m
      PROVE  Cardinality({j \in 1..m : j <= i}) = i
  <2>1. {j \in 1..m : j <= i} = 1..i /\ i \in Nat \ {0}
    OBVIOUS
  <2>2. Cardinality(1..i) = i
    BY <2>1, FS_Interval
  <2> QED BY <2>1, <2>2
<1> QED BY <1>1, FS_Interval DEF Nth

LEMMA NthOfAllButOne ==
  ASSUME NEW m \in Nat, NEW n \in 1..(m + 1)
  PROVE  /\ Cardinality((1..(m + 1)) \ {n}) = m
         /\ \A k \in 1..m :
               Nth((1..(m + 1)) \ {n}, k) = IF k < n THEN k ELSE k + 1
<1> DEFINE kept == (1..(m + 1)) \ {n}
<1>1. Cardinality(kept) = m
  <2>1. Cardinality(1..(m + 1)) = m + 1 /\ IsFiniteSet(1..(m + 1))
    BY FS_Interval
  <2>2. Cardinality((1..(m + 1)) \ {n}) = IF n \in 1..(m + 1) THEN (m + 1) - 1 ELSE m + 1
    BY <2>1, FS_RemoveElement
  <2> QED BY <2>2
<1>2. ASSUME NEW i \in kept
      PROVE  Cardinality({j \in kept : j <= i}) = IF i < n THEN i ELSE i - 1
  <2>1. {j \in kept : j <= i} = (1..i) \ {n} /\ i \in Nat \ {0} /\ i # n
    OBVIOUS
  <2>2. IsFiniteSet(1..i) /\ Cardinality(1..i) = i
    BY <2>1, FS_Interval
  <2>3. Cardinality((1..i) \ {n}) = IF n \in 1..i THEN i - 1 ELSE i
    BY <2>2, FS_RemoveElement
  <2>4. n \in 1..i <=> ~ (i < n)
    BY <2>1
  <2>5. Cardinality({j \in kept : j <= i}) = IF n \in 1..i THEN i - 1 ELSE i
    BY <2>1, <2>3
  <2> QED BY <2>4, <2>5
<1>3. ASSUME NEW k \in 1..m
      PROVE  Nth(kept, k) = IF k < n THEN k ELSE k + 1
  <2> DEFINE at == IF k < n THEN k ELSE k + 1
             Count(i) == Cardinality({j \in kept : j <= i})
  <2>1. at \in kept /\ \A i \in kept : i \in Nat /\ i # n
    OBVIOUS
  <2>2. \A i \in kept : Count(i) = IF i < n THEN i ELSE i - 1
    BY <1>2
  <2>3. Nth(kept, k) = CHOOSE i \in kept : Count(i) = k
    BY DEF Nth
  <2> HIDE DEF Count
  <2>4. \A i \in kept : Count(i) = k <=> i = at
    BY <2>1, <2>2
  <2> HIDE DEF at
  <2>5. Nth(kept, k) = at
    BY <2>1, <2>3, <2>4
  <2> QED BY <2>5 DEF at
<1> QED BY <1>1, <1>3

LEMMA CompactKeeps ==
  ASSUME NEW s \in Seq(Alphabet)
  PROVE  Compact(s) = s
<1> DEFINE kept == {i \in DOMAIN s : s[i] \notin Separators}
<1>1. kept = 1..Len(s) /\ Len(s) \in Nat
  BY AlphabetIsPlain
<1>2. Compact(s) = [k \in 1..Cardinality(kept) |-> s[Nth(kept, k)]]
  BY DEF Compact
<1> HIDE DEF kept
<1>3. Compact(s) = [k \in 1..Len(s) |-> s[k]]
  BY <1>1, <1>2, NthOfAll
<1> QED BY <1>3

LEMMA CompactDrops ==
  ASSUME NEW s \in Seq(Alphabet), NEW n \in 1..(Len(s) + 1), NEW c \in Separators
  PROVE  Compact(Inserted(s, n, c)) = s
<1> DEFINE t == Inserted(s, n, c)
           kept == {i \in DOMAIN t : t[i] \notin Separators}
<1>1. kept = (1..(Len(s) + 1)) \ {n} /\ Len(s) \in Nat
  BY AlphabetIsPlain DEF Inserted
<1>2. Compact(t) = [k \in 1..Cardinality(kept) |-> t[Nth(kept, k)]]
  BY DEF Compact
<1>3. \A k \in 1..Len(s) : t[IF k < n THEN k ELSE k + 1] = s[k]
  BY <1>1 DEF Inserted
<1> HIDE DEF kept, t
<1>4. /\ Cardinality(kept) = Len(s)
      /\ \A k \in 1..Len(s) : Nth(kept, k) = IF k < n THEN k ELSE k + 1
  <2> DEFINE m == Len(s)
  <2>1. m \in Nat /\ n \in 1..(m + 1) /\ kept = (1..(m + 1)) \ {n}
    BY <1>1
  <2> HIDE DEF m
  <2>2. Cardinality(kept) = m /\ \A k \in 1..m : Nth(kept, k) = IF k < n THEN k ELSE k + 1
    BY <2>1, NthOfAllButOne
  <2> QED BY <2>2 DEF m
<1>5. Compact(t) = [k \in 1..Len(s) |-> s[k]]
  BY <1>2, <1>3, <1>4
<1> QED BY <1>5 DEF t

\* A separator stays for Compact, or is a blank at an end that Trim removes.
LEMMA TrimAndCompactDrop ==
  ASSUME NEW s \in Seq(Alphabet), s # <<>>,
         NEW n \in 1..(Len(s) + 1), NEW c \in Separators
  PROVE  Compact(Trim(InsertAt(s, n, c))) = s
<1> DEFINE S == Alphabet \cup Separators
           t == Inserted(s, n, c)
<1>1. /\ s \in Seq(S) /\ c \in S /\ Len(s) \in Nat /\ 1 <= Len(s)
      /\ \A i \in 1..Len(s) : s[i] \notin Blanks
  BY AlphabetIsPlain
<1>2. InsertAt(s, n, c) = t /\ t \in Seq(S) /\ Len(t) = Len(s) + 1 /\ t # <<>>
  <2> HIDE DEF S
  <2>1. InsertAt(s, n, c) = t /\ t \in Seq(S) /\ Len(t) = Len(s) + 1
    BY <1>1, InsertAtInserts
  <2> HIDE DEF t
  <2> QED BY <1>1, <2>1
<1>3. CASE c \notin Blanks \/ n \in 2..Len(s)
  <2>1. t[1] \notin Blanks /\ t[Len(t)] \notin Blanks
    BY <1>1, <1>2, <1>3 DEF Inserted
  <2>2. Trim(t) = t
    BY <1>2, <2>1, TrimKeeps
  <2> QED BY <1>2, <2>2, CompactDrops
<1>4. CASE c \in Blanks /\ n = 1
  <2> DEFINE kept == {i \in DOMAIN t : t[i] \notin Blanks}
  <2>1. kept = 2..(Len(s) + 1)
    BY <1>1, <1>4 DEF Inserted
  <2>2. Min(kept) = 2 /\ Max(kept) = Len(s) + 1 /\ kept # {}
    <3> DEFINE last == Len(s) + 1
    <3>1. last \in Int /\ 2 <= last /\ kept = 2..last
      BY <1>1, <2>1
    <3> HIDE DEF kept, last
    <3>2. Min(2..last) = 2 /\ Max(2..last) = last
      BY <3>1, IntervalEnds
    <3>3. last \in 2..last
      BY <3>1
    <3> QED BY <3>1, <3>2, <3>3 DEF last
  <2>3. SubSeq(t, 2, Len(s) + 1) = s
    <3>1. /\ SubSeq(t, 2, Len(s) + 1) \in Seq(S) /\ Len(SubSeq(t, 2, Len(s) + 1)) = Len(s)
          /\ \A k \in 1..Len(s) : SubSeq(t, 2, Len(s) + 1)[k] = t[k + 1]
      BY <1>1, <1>2
    <3>2. \A k \in 1..Len(s) : t[k + 1] = s[k]
      BY <1>1, <1>4 DEF Inserted
    <3> QED BY <3>1, <3>2
  <2>4. Trim(t) = s
    BY <2>2, <2>3 DEF Trim
  <2> QED BY <1>2, <2>4, CompactKeeps
<1>5. CASE c \in Blanks /\ n = Len(s) + 1
  <2> DEFINE kept == {i \in DOMAIN t : t[i] \notin Blanks}
  <2>1. kept = 1..Len(s)
    BY <1>1, <1>5 DEF Inserted
  <2>2. Min(kept) = 1 /\ Max(kept) = Len(s) /\ kept # {}
    <3> HIDE DEF kept
    <3> QED BY <1>1, <2>1, IntervalEnds
  <2>3. SubSeq(t, 1, Len(s)) = s
    <3>1. /\ SubSeq(t, 1, Len(s)) \in Seq(S) /\ Len(SubSeq(t, 1, Len(s))) = Len(s)
          /\ \A k \in 1..Len(s) : SubSeq(t, 1, Len(s))[k] = t[k]
      BY <1>1, <1>2
    <3>2. \A k \in 1..Len(s) : t[k] = s[k]
      BY <1>1, <1>5 DEF Inserted
    <3> QED BY <3>1, <3>2
  <2>4. Trim(t) = s
    BY <2>2, <2>3 DEF Trim
  <2> QED BY <1>2, <2>4, CompactKeeps
<1> QED BY <1>1, <1>3, <1>4, <1>5

\* A code is in upper case, and a code in lower case becomes it.
LEMMA EitherCaseIsTheCode ==
  ASSUME NEW code \in Codes, NEW written \in {code, Lowered(code)}
  PROVE  /\ written \in Seq(Alphabet) /\ Len(written) = CodeLength
         /\ Uppercase(written) = code
<1>1. /\ code \in [1..CodeLength -> Range(UpperOf) \cup Digits]
      /\ CodeLength \in Nat
  BY AlphabetAssumption
<1>2. \A c \in Range(UpperOf) \cup Digits : c \notin Lower /\ ToUpper(c) = c
  BY AlphabetAssumption DEF Lower, ToUpper, Range
<1>3. ASSUME NEW i \in 1..CodeLength
      PROVE  /\ written[i] \in Alphabet
             /\ ToUpper(written[i]) = code[i]
  <2>1. code[i] \in Range(UpperOf) \cup Digits
    BY <1>1
  <2>2. CASE written = code
    BY <1>2, <2>1, <2>2 DEF Alphabet, Letters
  <2>3. CASE written = Lowered(code) /\ \E l \in Lower : UpperOf[l] = code[i]
    <3>1. written[i] \in Lower /\ UpperOf[written[i]] = code[i]
      BY <1>1, <2>3 DEF Lowered
    <3> QED BY <3>1 DEF ToUpper, Alphabet, Letters
  <2>4. CASE written = Lowered(code) /\ ~ \E l \in Lower : UpperOf[l] = code[i]
    <3>1. written[i] = code[i]
      BY <1>1, <2>4 DEF Lowered
    <3> QED BY <3>1, <1>2, <2>1 DEF Alphabet, Letters
  <2> QED BY <2>2, <2>3, <2>4
<1>4. DOMAIN written = 1..CodeLength /\ written = [i \in 1..CodeLength |-> written[i]]
  BY <1>1 DEF Lowered
<1>5. written \in Seq(Alphabet) /\ Len(written) = CodeLength
  BY <1>1, <1>3, <1>4
<1>6. Uppercase(written) = [i \in 1..CodeLength |-> code[i]]
  BY <1>3, <1>4 DEF Uppercase
<1> QED BY <1>1, <1>5, <1>6

(***************************************************************************)
(* normalize_code reads the code from each way of writing it down: in       *)
(* either case, and with a blank or a hyphen anywhere in it or around it.   *)
(***************************************************************************)
THEOREM SpellingsAreRead ==
  \A code \in Codes : \A text \in Spellings(code) : Normalize(text) = code
<1> SUFFICES ASSUME NEW code \in Codes, NEW text \in Spellings(code)
             PROVE  Normalize(text) = code
  OBVIOUS
<1>1. PICK written \in {code, Lowered(code)} :
         text \in {written} \cup {InsertAt(written, i, s) :
                                    i \in 1..(CodeLength + 1), s \in Separators}
  BY DEF Spellings
<1>2. /\ written \in Seq(Alphabet) /\ Len(written) = CodeLength
      /\ Uppercase(written) = code /\ CodeLength \in Nat \ {0} /\ written # <<>>
  BY EitherCaseIsTheCode, AlphabetAssumption
<1>3. Compact(Trim(text)) = written
  <2>1. CASE text = written
    <3>1. written[1] \notin Blanks /\ written[Len(written)] \notin Blanks
      BY <1>2, AlphabetIsPlain
    <3>2. Trim(written) = written
      BY <1>2, <3>1, TrimKeeps
    <3> QED BY <1>2, <2>1, <3>2, CompactKeeps
  <2>2. CASE \E i \in 1..(CodeLength + 1), s \in Separators : text = InsertAt(written, i, s)
    BY <1>2, <2>2, TrimAndCompactDrop
  <2> QED BY <1>1, <2>1, <2>2
<1>4. Len(code) = CodeLength /\ Range(code) \subseteq Letters \cup Digits
  <2>1. code \in [1..CodeLength -> Letters \cup Digits]
    BY AlphabetAssumption DEF Letters
  <2> QED BY <1>2, <2>1 DEF Range
<1> QED BY <1>2, <1>3, <1>4 DEF Normalize

(***************************************************************************)
(* What create or recode has printed is found, however it is written down   *)
(* and at every process that has its key, to be the code of its drop and of *)
(* no other, until the drop is recoded: it opens the drop as long as that   *)
(* is active, the code unexpired and a redemption left, and after that      *)
(* nothing.  Processes that start together, are killed after the commit or  *)
(* print late do not matter.  (Whether the source is throttled, which comes *)
(* before the text is looked at, is FailureBudget's.)                       *)
(***************************************************************************)
THEOREM AnnouncedCodesOpenTheirDrop == CommandSpec => []AnnouncedCodesWork
<1>1. ASSUME CommandInv
      PROVE  AnnouncedCodesWork
  <2> SUFFICES ASSUME NEW a \in announced, NEW p \in Processes,
                      rows[a.drop].by = a.by,
                      proc[p].stage = "ready", NEW text \in Spellings(a.code)
               PROVE  Found(p, text) = {a.drop} \cap Redeemable
    BY DEF AnnouncedCodesWork
  <2>1. a.code \in Codes /\ a.drop \in DropIds
    BY <1>1 DEF CommandInv, CommandTypes
  <2>2. Normalize(text) = a.code
    BY <2>1, SpellingsAreRead
  <2>3. rows[a.drop] # None /\ rows[a.drop].code = a.code
    BY <1>1 DEF CommandInv, AnnouncedIsWritten, Wrote
  <2>4. rows[a.drop].key = proc[p].key
    BY <1>1, <2>1, <2>3 DEF CommandInv, RowsAreOurs, IInv, OneKey, Whole
  <2>5. \A d \in Redeemable : rows[d].code = a.code <=> d = a.drop
    BY <1>1, <2>1, <2>3 DEF CommandInv, CodesAreUnique, Redeemable, ActiveDrops, StoredDrops
  <2>6. \A d \in Redeemable : rows[d].key = proc[p].key
    BY <1>1, <2>1, <2>3, <2>4
       DEF CommandInv, RowsAreOurs, Whole, Redeemable, ActiveDrops, StoredDrops
  <2> QED BY <2>2, <2>5, <2>6 DEF Found
<1> QED BY <1>1, CommandInvariance, PTL

=============================================================================
