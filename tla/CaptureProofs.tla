---------------------------- MODULE CaptureProofs ----------------------------
(***************************************************************************)
(* The invariants of Capture, for every source, every list of inputs and    *)
(* every number of changes made while they are captured.                    *)
(***************************************************************************)
EXTENDS Capture, SequenceTheorems, FunctionTheorems, FiniteSetTheorems, TLAPS

Stages ==
    {"input", "list", "inspect", "before", "open", "copy", "settle", "done", "refused",
     "interrupted"}
WalkFields == {"stage", "next", "root", "at", "todo"}
Entries ==
    [path : Seq(Nat), kind : {"file", "directory"}, data : Seq(Nat), moment : Seq(Nat),
     clear : BOOLEAN]

CaptureTypeOK ==
    /\ tree \in [Paths -> Things \cup {None}]
    /\ DOMAIN files \subseteq FileIds
    /\ files \in [DOMAIN files -> [data : Seq(Nat), stamp : Nat]]
    /\ clock \in Nat /\ edits \in Nat
    /\ inputs \in InputLists
    /\ DOMAIN walk = WalkFields
    /\ walk.stage \in Stages /\ walk.next \in Nat \ {0}
    /\ open \in Captures \cup {None}
    /\ entries \in Seq(Entries)

\* Below an input there is an input, a file that is opened was found, and
\* nothing of it has been read by then.
WalkInv ==
    /\ walk.stage \in {"list", "inspect", "before", "open", "copy", "settle"} =>
          walk.root \in Paths
    /\ walk.stage \in {"open", "copy", "settle"} => open # None /\ walk.at \in Paths
    /\ walk.stage = "open" => open.copied = <<>>

\* Every file of the tree has its bytes, and no timestamp is of the future.
SourceInv ==
    /\ \A p \in Paths : KindAt(p) = "file" => tree[p].id \in DOMAIN files
    /\ \A id \in DOMAIN files : files[id].stamp <= clock

ReadOf(moment, copied) ==
    /\ Len(copied) <= Len(moment)
    /\ \A i \in 1..Len(copied) : copied[i] = moment[i]

\* While a file is copied either it is as it was when it was opened, and what
\* was read is its beginning, or its timestamp has moved on for good, or a
\* change was hidden by the coarseness of timestamps.
CopyInv ==
    walk.stage \in {"copy", "settle"} =>
        /\ open.id \in DOMAIN files
        /\ open.stamp <= files[open.id].stamp
        /\ \/ open.hidden
           \/ open.stamp < files[open.id].stamp
           \/ files[open.id].data = open.moment /\ ReadOf(open.moment, open.copied)

OneMomentEach ==
    \A i \in DOMAIN entries : entries[i].clear => entries[i].data = entries[i].moment

CaptureInv ==
    /\ CaptureTypeOK
    /\ WalkInv
    /\ SourceInv
    /\ CopyInv
    /\ OneMomentEach

-----------------------------------------------------------------------------
(***************************************************************************)
(* The records of the walk and of the file being captured.                  *)
(***************************************************************************)
LEMMA WalkMoves ==
  ASSUME NEW w, DOMAIN w = WalkFields, NEW v
  PROVE  /\ DOMAIN [w EXCEPT !.stage = v] = WalkFields
         /\ [w EXCEPT !.stage = v].stage = v
         /\ [w EXCEPT !.stage = v].root = w.root
         /\ [w EXCEPT !.stage = v].next = w.next
         /\ [w EXCEPT !.stage = v].at = w.at
         /\ [w EXCEPT !.stage = v].todo = w.todo
BY DEF WalkFields

LEMMA OnwardsGoes ==
  ASSUME DOMAIN walk = WalkFields, NEW todo
  PROVE  /\ DOMAIN Onwards(todo) = WalkFields
         /\ Onwards(todo).stage \in {"input", "list", "inspect"}
         /\ Onwards(todo).root = walk.root
         /\ Onwards(todo).next = walk.next
BY DEF WalkFields, Onwards

LEMMA CaptureRows ==
  ASSUME NEW f \in Captures
  PROVE  /\ f.id \in FileIds /\ f.size \in Nat /\ f.stamp \in Nat
         /\ f.moment \in Seq(Nat) /\ f.copied \in Seq(Nat) /\ f.hidden \in BOOLEAN
         /\ f # None
<1>1. f # None
  BY NoneIsNothing
<1> QED BY <1>1 DEF Captures

LEMMA CopyGrows ==
  ASSUME NEW f \in Captures, NEW c \in Seq(Nat)
  PROVE  LET g == [f EXCEPT !.copied = c]
         IN  /\ g \in Captures /\ g.copied = c
             /\ g.id = f.id /\ g.stamp = f.stamp /\ g.moment = f.moment /\ g.hidden = f.hidden
BY DEF Captures

LEMMA ChangeHides ==
  ASSUME NEW f \in Captures, NEW b \in BOOLEAN
  PROVE  LET g == [f EXCEPT !.hidden = b]
         IN  /\ g \in Captures /\ g.hidden = b
             /\ g.id = f.id /\ g.stamp = f.stamp /\ g.moment = f.moment /\ g.copied = f.copied
BY DEF Captures

(***************************************************************************)
(* Where an entry is found it gets its path in the manifest, and what is    *)
(* appended to the entries leaves the others as they are.                   *)
(***************************************************************************)
LEMMA ManifestPathIsAPath ==
  ASSUME NEW root \in Paths, NEW path \in Paths
  PROVE  ManifestPath(root, path) \in Seq(Nat)
<1>1. root \in Seq(Nat) /\ root # <<>> /\ path \in Seq(Nat)
  BY CaptureAssumption
<1>2. Last(root) \in Nat /\ <<Last(root)>> \in Seq(Nat)
  BY <1>1 DEF Last
<1>3. SubSeq(path, Len(root) + 1, Len(path)) \in Seq(Nat)
  BY <1>1
<1> QED BY <1>2, <1>3 DEF ManifestPath

LEMMA OneEntryMore ==
  ASSUME CaptureInv, NEW e \in Entries, e.clear => e.data = e.moment,
         entries' = Append(entries, e)
  PROVE  entries' \in Seq(Entries) /\ OneMomentEach'
<1>1. entries \in Seq(Entries) /\ OneMomentEach
  BY DEF CaptureInv, CaptureTypeOK
<1>2. entries' \in Seq(Entries)
  BY <1>1
<1>3. \A i \in DOMAIN entries' :
        (i \in DOMAIN entries /\ entries'[i] = entries[i]) \/ entries'[i] = e
  BY <1>1
<1> QED BY <1>1, <1>2, <1>3 DEF OneMomentEach

LEMMA DirectoriesAreEntries ==
  ASSUME NEW p \in Seq(Nat)
  PROVE  DirectoryEntry(p) \in Entries /\ DirectoryEntry(p).data = DirectoryEntry(p).moment
BY DEF DirectoryEntry, Entries

-----------------------------------------------------------------------------
LEMMA CaptureInit == Init => CaptureInv
<1> SUFFICES ASSUME Init PROVE CaptureInv
  OBVIOUS
<1>1. /\ tree \in [Paths -> Things \cup {None}]
      /\ \A p \in Paths : tree[p] # None /\ tree[p].kind = "file" => tree[p].id = FileId(p, 0)
  BY CaptureAssumption DEF Init
<1>2. \A p \in Paths : KindAt(p) = "file" => tree[p].id = FileId(p, 0)
  BY <1>1 DEF KindAt, Exists
<1> DEFINE Holding == {p \in Paths : KindAt(p) = "file"}
           Ids == {tree[p].id : p \in Holding}
<1>3. PICK ages \in [Holding -> {0, 1}] :
        files = [id \in {tree[p].id : p \in DOMAIN ages} |->
                   [data |-> <<0, 0>>, stamp |-> ages[id.at]]]
  BY DEF Init
<1>4. /\ DOMAIN files = Ids
      /\ \A id \in Ids : files[id] = [data |-> <<0, 0>>, stamp |-> ages[id.at]]
      /\ files = [id \in Ids |-> files[id]]
  BY <1>3
<1>5. \A id \in Ids : id \in FileIds /\ id.at \in Holding
  <2> SUFFICES ASSUME NEW p \in Holding
               PROVE  tree[p].id \in FileIds /\ tree[p].id.at \in Holding
    OBVIOUS
  <2>1. tree[p].id = FileId(p, 0) /\ p \in Paths
    BY <1>2
  <2>2. FileId(p, 0) \in FileIds /\ FileId(p, 0).at = p
    BY <2>1 DEF FileId, FileIds
  <2> QED BY <2>1, <2>2
<1>6. \A id \in Ids : /\ files[id] \in [data : Seq(Nat), stamp : Nat]
                      /\ files[id].stamp <= 1
  <2> SUFFICES ASSUME NEW id \in Ids
               PROVE  files[id] \in [data : Seq(Nat), stamp : Nat] /\ files[id].stamp <= 1
    OBVIOUS
  <2>1. ages[id.at] \in {0, 1}
    BY <1>3, <1>5
  <2>2. <<0, 0>> \in Seq(Nat)
    OBVIOUS
  <2>3. files[id] = [data |-> <<0, 0>>, stamp |-> ages[id.at]]
    BY <1>4
  <2> HIDE DEF Ids, Holding
  <2>4. ages[id.at] \in Nat /\ ages[id.at] <= 1
    BY <2>1
  <2> QED BY <2>2, <2>3, <2>4
<1>7. CaptureTypeOK
  <2>1. DOMAIN files \subseteq FileIds /\ files \in [DOMAIN files -> [data : Seq(Nat), stamp : Nat]]
    <3> HIDE DEF Ids, Holding
    <3> QED BY <1>4, <1>5, <1>6
  <2>2. DOMAIN walk = WalkFields /\ walk.stage \in Stages /\ walk.next \in Nat \ {0}
    BY DEF Init, WalkFields, Stages
  <2>3. clock \in Nat /\ edits \in Nat /\ inputs \in InputLists /\ open \in Captures \cup {None}
    BY DEF Init
  <2>4. entries \in Seq(Entries)
    BY DEF Init
  <2> QED BY <1>1, <2>1, <2>2, <2>3, <2>4 DEF CaptureTypeOK
<1>8. SourceInv
  <2>1. clock = 1
    BY DEF Init
  <2>2. \A p \in Paths : KindAt(p) = "file" => tree[p].id \in DOMAIN files
    BY <1>4
  <2>3. \A id \in DOMAIN files : files[id].stamp <= clock
    <3> HIDE DEF Ids, Holding
    <3> QED BY <1>4, <1>6, <2>1
  <2> QED BY <2>2, <2>3 DEF SourceInv
<1>9. WalkInv /\ CopyInv /\ OneMomentEach
  BY DEF Init, WalkInv, CopyInv, OneMomentEach
<1> QED BY <1>7, <1>8, <1>9 DEF CaptureInv

-----------------------------------------------------------------------------
(***************************************************************************)
(* The steps of the walk leave the source alone.                            *)
(***************************************************************************)
LEMMA WalkGoesOn ==
  ASSUME CaptureInv, UNCHANGED <<sourceVars, inputs>>,
         DOMAIN walk' = WalkFields, walk'.next \in Nat \ {0},
         walk'.stage \in Stages \ {"open", "copy", "settle"},
         walk'.stage \in {"list", "inspect", "before"} => walk'.root \in Paths,
         open' \in Captures \cup {None},
         entries' \in Seq(Entries), OneMomentEach'
  PROVE  CaptureInv'
<1>1. /\ tree' = tree /\ files' = files /\ clock' = clock /\ edits' = edits /\ inputs' = inputs
  BY DEF sourceVars
<1>2. CaptureTypeOK'
  BY <1>1 DEF CaptureInv, CaptureTypeOK
<1>3. SourceInv'
  BY <1>1 DEF CaptureInv, SourceInv, KindAt, Exists
<1>4. WalkInv' /\ CopyInv'
  BY DEF WalkInv, CopyInv
<1> QED BY <1>2, <1>3, <1>4 DEF CaptureInv

LEMMA RefuseKeeps ==
  ASSUME CaptureInv, Refuse
  PROVE  CaptureInv'
<1>1. DOMAIN walk = WalkFields /\ walk.next \in Nat \ {0} /\ entries \in Seq(Entries)
  BY DEF CaptureInv, CaptureTypeOK
<1>2. /\ DOMAIN walk' = WalkFields /\ walk'.stage = "refused" /\ walk'.next = walk.next
      /\ open' = None /\ entries' = entries /\ UNCHANGED <<sourceVars, inputs>>
  BY <1>1, WalkMoves DEF Refuse
<1>3. OneMomentEach'
  BY <1>2 DEF CaptureInv, OneMomentEach
<1>4. walk'.stage \in Stages \ {"open", "copy", "settle"}
  BY <1>2 DEF Stages
<1> QED BY <1>1, <1>2, <1>3, <1>4, WalkGoesOn

LEMMA InputKeeps ==
  ASSUME CaptureInv, Input
  PROVE  CaptureInv'
<1>1. /\ DOMAIN walk = WalkFields /\ walk.next \in Nat \ {0} /\ entries \in Seq(Entries)
      /\ open \in Captures \cup {None} /\ OneMomentEach
  BY DEF CaptureInv, CaptureTypeOK
<1> DEFINE path == inputs[walk.next]
           begun == [walk EXCEPT !.next = @ + 1, !.root = path, !.at = path]
           dir == DirectoryEntry(ManifestPath(path, path))
<1>2. path \in Paths
  <2>1. inputs \in Seq(Paths)
    BY CaptureAssumption DEF CaptureInv, CaptureTypeOK
  <2>2. walk.next \in 1..Len(inputs)
    BY <1>1, <2>1 DEF Input
  <2> QED BY <2>1, <2>2
<1>3. CASE Refuse
  BY <1>3, RefuseKeeps
<1>4. CASE ~Refuse
  <2>1. /\ \/ walk' = [begun EXCEPT !.stage = "before"] /\ entries' = entries
           \/ walk' = [begun EXCEPT !.stage = "list"] /\ entries' = Append(entries, dir)
        /\ UNCHANGED <<sourceVars, inputs, open>>
    BY <1>4 DEF Input
  <2>2. /\ DOMAIN begun = WalkFields /\ begun.root = path /\ begun.next = walk.next + 1
    BY <1>1 DEF WalkFields
  <2>3. /\ DOMAIN walk' = WalkFields /\ walk'.root = path /\ walk'.next = walk.next + 1
        /\ walk'.stage \in {"before", "list"}
    <3> HIDE DEF begun, path
    <3>1. CASE walk' = [begun EXCEPT !.stage = "before"]
      BY <2>2, <3>1, WalkMoves
    <3>2. CASE walk' = [begun EXCEPT !.stage = "list"]
      BY <2>2, <3>2, WalkMoves
    <3> QED BY <2>1, <3>1, <3>2
  <2>4. entries' \in Seq(Entries) /\ OneMomentEach'
    <3>1. CASE entries' = entries
      BY <1>1, <3>1 DEF OneMomentEach
    <3>2. CASE entries' = Append(entries, dir)
      BY <1>2, <3>2, ManifestPathIsAPath, DirectoriesAreEntries, OneEntryMore
    <3> QED BY <2>1, <3>1, <3>2
  <2>5. walk'.next \in Nat \ {0} /\ walk'.stage \in Stages \ {"open", "copy", "settle"}
    BY <1>1, <2>3 DEF Stages
  <2>6. open' \in Captures \cup {None} /\ UNCHANGED <<sourceVars, inputs>>
    BY <1>1, <2>1
  <2> QED BY <1>2, <2>3, <2>4, <2>5, <2>6, WalkGoesOn
<1> QED BY <1>3, <1>4

LEMMA ListKeeps ==
  ASSUME CaptureInv, List
  PROVE  CaptureInv'
<1>1. /\ DOMAIN walk = WalkFields /\ walk.next \in Nat \ {0} /\ entries \in Seq(Entries)
      /\ open \in Captures \cup {None} /\ OneMomentEach /\ walk.root \in Paths
  BY DEF CaptureInv, CaptureTypeOK, WalkInv, List
<1>2. CASE Refuse
  BY <1>2, RefuseKeeps
<1>3. CASE ~Refuse
  <2>1. PICK todo :
          /\ \/ walk' = Onwards(todo)
             \/ walk' = [walk EXCEPT !.stage = "inspect", !.todo = todo]
          /\ UNCHANGED <<sourceVars, inputs, open, entries>>
    BY <1>3, Zenon DEF List
  <2>2. /\ DOMAIN walk' = WalkFields /\ walk'.root = walk.root /\ walk'.next = walk.next
        /\ walk'.stage \in {"input", "list", "inspect"}
    <3>1. CASE walk' = Onwards(todo)
      BY <1>1, <3>1, OnwardsGoes
    <3>2. CASE walk' = [walk EXCEPT !.stage = "inspect", !.todo = todo]
      BY <1>1, <3>2 DEF WalkFields
    <3> QED BY <2>1, <3>1, <3>2
  <2>3. walk'.stage \in Stages \ {"open", "copy", "settle"}
    BY <2>2 DEF Stages
  <2>4. /\ open' \in Captures \cup {None} /\ entries' \in Seq(Entries) /\ entries' = entries
        /\ UNCHANGED <<sourceVars, inputs>>
    BY <1>1, <2>1
  <2>5. OneMomentEach'
    BY <1>1, <2>4 DEF OneMomentEach
  <2> QED BY <1>1, <2>2, <2>3, <2>4, <2>5, WalkGoesOn
<1> QED BY <1>2, <1>3

LEMMA InspectKeeps ==
  ASSUME CaptureInv, Inspect
  PROVE  CaptureInv'
<1>1. /\ DOMAIN walk = WalkFields /\ walk.next \in Nat \ {0} /\ entries \in Seq(Entries)
      /\ open \in Captures \cup {None} /\ OneMomentEach /\ walk.root \in Paths
  BY DEF CaptureInv, CaptureTypeOK, WalkInv, Inspect
<1> DEFINE dir == DirectoryEntry(ManifestPath(walk.root, walk.at))
<1>2. CASE Refuse
  BY <1>2, RefuseKeeps
<1>3. CASE ~Refuse
  <2>1. /\ \/ walk' = [walk EXCEPT !.stage = "before"] /\ entries' = entries
           \/ /\ KindAt(walk.at) = "directory"
              /\ walk' = Onwards(walk.todo) /\ entries' = Append(entries, dir)
        /\ UNCHANGED <<sourceVars, inputs, open>>
    BY <1>3 DEF Inspect
  <2>2. /\ DOMAIN walk' = WalkFields /\ walk'.root = walk.root /\ walk'.next = walk.next
        /\ walk'.stage \in {"before", "input", "list", "inspect"}
    <3>1. CASE walk' = [walk EXCEPT !.stage = "before"]
      BY <1>1, <3>1, WalkMoves
    <3>2. CASE walk' = Onwards(walk.todo)
      BY <1>1, <3>2, OnwardsGoes
    <3> QED BY <2>1, <3>1, <3>2
  <2>3. entries' \in Seq(Entries) /\ OneMomentEach'
    <3>1. CASE entries' = entries
      BY <1>1, <3>1 DEF OneMomentEach
    <3>2. CASE KindAt(walk.at) = "directory" /\ entries' = Append(entries, dir)
      <4>1. walk.at \in Paths
        BY <3>2 DEF KindAt, Exists
      <4> QED BY <1>1, <3>2, <4>1, ManifestPathIsAPath, DirectoriesAreEntries, OneEntryMore
    <3> QED BY <2>1, <3>1, <3>2
  <2>4. walk'.stage \in Stages \ {"open", "copy", "settle"}
    BY <2>2 DEF Stages
  <2>5. open' \in Captures \cup {None} /\ UNCHANGED <<sourceVars, inputs>>
    BY <1>1, <2>1
  <2> QED BY <1>1, <2>2, <2>3, <2>4, <2>5, WalkGoesOn
<1> QED BY <1>2, <1>3

(***************************************************************************)
(* capture_file: before and after its blocks are read ...                   *)
(***************************************************************************)
LEMMA CaptureGoesOn ==
  ASSUME CaptureInv, UNCHANGED <<sourceVars, inputs, entries>>,
         DOMAIN walk' = WalkFields, walk'.next \in Nat \ {0}, walk'.stage \in Stages,
         open' \in Captures \cup {None}, WalkInv', CopyInv'
  PROVE  CaptureInv'
<1>1. /\ tree' = tree /\ files' = files /\ clock' = clock /\ edits' = edits /\ inputs' = inputs
      /\ entries' = entries
  BY DEF sourceVars
<1>2. CaptureTypeOK'
  BY <1>1 DEF CaptureInv, CaptureTypeOK
<1>3. SourceInv' /\ OneMomentEach'
  BY <1>1 DEF CaptureInv, SourceInv, KindAt, Exists, OneMomentEach
<1> QED BY <1>2, <1>3 DEF CaptureInv

LEMMA BeforeKeeps ==
  ASSUME CaptureInv, Before
  PROVE  CaptureInv'
<1>1. /\ DOMAIN walk = WalkFields /\ walk.next \in Nat \ {0} /\ walk.root \in Paths
      /\ tree \in [Paths -> Things \cup {None}]
  BY DEF CaptureInv, CaptureTypeOK, WalkInv, Before
<1>2. CASE Refuse
  BY <1>2, RefuseKeeps
<1>3. CASE ~Refuse
  <2>1. /\ KindAt(walk.at) = "file"
        /\ open' = [id |-> tree[walk.at].id, size |-> 0, stamp |-> 0,
                    moment |-> <<>>, copied |-> <<>>, hidden |-> FALSE]
        /\ walk' = [walk EXCEPT !.stage = "open"]
        /\ UNCHANGED <<sourceVars, inputs, entries>>
    BY <1>3 DEF Before
  <2>2. walk.at \in Paths /\ tree[walk.at] \in Things /\ tree[walk.at].kind = "file"
    BY <1>1, <2>1 DEF KindAt, Exists
  <2>3. tree[walk.at].id \in FileIds
    BY <2>2 DEF Things
  <2>4. open' \in Captures
    BY <2>1, <2>3 DEF Captures
  <2>5. open' # None
    BY <2>4, NoneIsNothing
  <2>6. /\ DOMAIN walk' = WalkFields /\ walk'.stage = "open" /\ walk'.next \in Nat \ {0}
        /\ walk'.root \in Paths /\ walk'.at = walk.at
    BY <1>1, <2>1, WalkMoves
  <2>7. WalkInv' /\ CopyInv' /\ walk'.stage \in Stages
    BY <2>1, <2>2, <2>5, <2>6 DEF WalkInv, CopyInv, Stages
  <2> QED BY <2>1, <2>4, <2>6, <2>7, CaptureGoesOn
<1> QED BY <1>2, <1>3

LEMMA OpenKeeps ==
  ASSUME CaptureInv, Open
  PROVE  CaptureInv'
<1>1. /\ DOMAIN walk = WalkFields /\ walk.next \in Nat \ {0} /\ walk.root \in Paths
      /\ open \in Captures
      /\ files \in [DOMAIN files -> [data : Seq(Nat), stamp : Nat]]
  BY DEF CaptureInv, CaptureTypeOK, WalkInv, Open
<1>2. CASE Refuse
  BY <1>2, RefuseKeeps
<1>3. CASE ~Refuse
  <2> DEFINE file == files[open.id]
  <2>1. /\ KindAt(walk.at) = "file" /\ tree[walk.at].id = open.id
        /\ open' = [open EXCEPT !.size = Len(file.data), !.stamp = file.stamp,
                                !.moment = file.data]
        /\ walk' = [walk EXCEPT !.stage = "copy"]
        /\ UNCHANGED <<sourceVars, inputs, entries>>
    BY <1>3 DEF Open
  <2>2. walk.at \in Paths /\ open.id \in DOMAIN files
    BY <2>1 DEF KindAt, Exists, CaptureInv, SourceInv
  <2>3. file.data \in Seq(Nat) /\ Len(file.data) \in Nat /\ file.stamp \in Nat
    BY <1>1, <2>2
  <2>4. /\ open' \in Captures /\ open'.stamp = file.stamp /\ open'.moment = file.data
        /\ open'.id = open.id /\ open'.copied = <<>>
    <3>1. open.copied = <<>>
      BY DEF CaptureInv, WalkInv, Open
    <3> DEFINE size == Len(file.data)
               stamp == file.stamp
               moment == file.data
               opened == [open EXCEPT !.size = size, !.stamp = stamp, !.moment = moment]
    <3>2. open' = opened
      BY <2>1
    <3>3. size \in Nat /\ stamp \in Nat /\ moment \in Seq(Nat)
      BY <2>3
    <3> HIDE DEF size, stamp, moment
    <3>4. /\ opened \in Captures /\ opened.stamp = stamp /\ opened.moment = moment
          /\ opened.id = open.id /\ opened.copied = open.copied
      BY <1>1, <3>3 DEF Captures
    <3> HIDE DEF opened
    <3>5. /\ open' \in Captures /\ open'.stamp = stamp /\ open'.moment = moment
          /\ open'.id = open.id /\ open'.copied = <<>>
      BY <3>1, <3>2, <3>4
    <3> QED BY <3>5 DEF stamp, moment
  <2>5. open' # None
    BY <2>4, NoneIsNothing
  <2>6. /\ DOMAIN walk' = WalkFields /\ walk'.stage = "copy" /\ walk'.next \in Nat \ {0}
        /\ walk'.root \in Paths /\ walk'.at = walk.at
    BY <1>1, <2>1, WalkMoves
  <2>7. WalkInv' /\ walk'.stage \in Stages
    BY <2>2, <2>5, <2>6 DEF WalkInv, Stages
  <2>8. CopyInv'
    <3>1. files' = files
      BY <2>1 DEF sourceVars
    <3>2. ReadOf(file.data, <<>>)
      BY <2>3 DEF ReadOf
    <3>3. /\ open'.id \in DOMAIN files' /\ open'.stamp <= files'[open'.id].stamp
          /\ files'[open'.id].data = open'.moment
      BY <2>2, <2>3, <2>4, <3>1
    <3>4. ReadOf(open'.moment, open'.copied)
      BY <2>4, <3>2
    <3> QED BY <3>3, <3>4 DEF CopyInv, ReadOf
  <2> QED BY <2>1, <2>4, <2>6, <2>7, <2>8, CaptureGoesOn
<1> QED BY <1>2, <1>3


(***************************************************************************)
(* ... while they are read, one by one ...                                  *)
(***************************************************************************)
LEMMA ReadKeeps ==
  ASSUME CaptureInv, Read
  PROVE  CaptureInv'
<1>1. /\ DOMAIN walk = WalkFields /\ walk.next \in Nat \ {0} /\ walk.root \in Paths
      /\ walk.stage = "copy" /\ walk.at \in Paths /\ open \in Captures /\ open.id \in DOMAIN files
      /\ files \in [DOMAIN files -> [data : Seq(Nat), stamp : Nat]]
  BY DEF CaptureInv, CaptureTypeOK, WalkInv, CopyInv, Read
<1> DEFINE data == files[open.id].data
           n == Len(open.copied) + 1
<1>2. data \in Seq(Nat) /\ open.copied \in Seq(Nat) /\ n \in Nat \ {0} /\ Len(data) \in Nat
  BY <1>1, CaptureRows
<1>3. CASE Refuse
  BY <1>3, RefuseKeeps
<1>4. CASE n > Len(data) /\ ~Refuse
  <2>1. /\ walk' = [walk EXCEPT !.stage = "settle"]
        /\ UNCHANGED <<sourceVars, inputs, open, entries>>
    BY <1>4 DEF Read
  <2>2. /\ DOMAIN walk' = WalkFields /\ walk'.stage = "settle" /\ walk'.next \in Nat \ {0}
        /\ walk'.root \in Paths /\ walk'.at = walk.at
    BY <1>1, <2>1, WalkMoves
  <2>3. WalkInv' /\ walk'.stage \in Stages
    BY <1>1, <2>1, <2>2, CaptureRows DEF WalkInv, Stages
  <2>4. CopyInv'
    <3>1. files' = files /\ open' = open
      BY <2>1 DEF sourceVars
    <3> QED BY <1>1, <3>1 DEF CaptureInv, CopyInv
  <2> QED BY <1>1, <2>1, <2>2, <2>3, <2>4, CaptureGoesOn
<1>5. CASE n <= Len(data) /\ ~Refuse
  <2>1. /\ open' = [open EXCEPT !.copied = Append(@, data[n])]
        /\ UNCHANGED <<sourceVars, inputs, walk, entries>>
    BY <1>2, <1>5 DEF Read
  <2>2. data[n] \in Nat
    <3> HIDE DEF data, n
    <3>1. n \in 1..Len(data)
      BY <1>2, <1>5
    <3> QED BY <1>2, <3>1
  <2> DEFINE more == Append(open.copied, data[n])
  <2>3. /\ more \in Seq(Nat) /\ Len(more) = n /\ more[n] = data[n]
        /\ \A i \in 1..Len(open.copied) : more[i] = open.copied[i]
    BY <1>2, <2>2
  <2>4. /\ open' \in Captures /\ open'.copied = more
        /\ open'.id = open.id /\ open'.stamp = open.stamp /\ open'.moment = open.moment
        /\ open'.hidden = open.hidden
    <3> HIDE DEF data, n
    <3>1. open' = [open EXCEPT !.copied = more]
      BY <2>1
    <3> QED BY <1>1, <2>3, <3>1, CopyGrows
  <2>5. ReadOf(data, open.copied) => ReadOf(data, more)
    <3> HIDE DEF data, more
    <3>1. \A i \in 1..n : i \in 1..Len(open.copied) \/ i = n
      BY <1>2
    <3> QED BY <1>2, <1>5, <2>3, <3>1 DEF ReadOf
  <2>6. CopyInv'
    <3>1. files' = files /\ walk' = walk
      BY <2>1 DEF sourceVars
    <3>2. /\ open.stamp <= files[open.id].stamp
          /\ \/ open.hidden \/ open.stamp < files[open.id].stamp
             \/ data = open.moment /\ ReadOf(data, open.copied)
      BY <1>1 DEF CaptureInv, CopyInv
    <3>3. data = open.moment /\ ReadOf(data, open.copied) => ReadOf(open'.moment, open'.copied)
      BY <2>4, <2>5
    <3> QED BY <1>1, <2>4, <3>1, <3>2, <3>3 DEF CopyInv, ReadOf
  <2>7. walk' = walk /\ open' # None
    BY <2>1, <2>4, NoneIsNothing
  <2>8. WalkInv' /\ walk'.stage \in Stages
    BY <1>1, <2>7 DEF WalkInv, Stages
  <2> QED BY <1>1, <2>1, <2>4, <2>6, <2>7, <2>8, CaptureGoesOn
<1> QED BY <1>2, <1>3, <1>4, <1>5

(***************************************************************************)
(* ... and what is found after them: equal metadata and an unhidden copy    *)
(* are the file at the moment it was opened.                                *)
(***************************************************************************)
LEMMA StableIsOneMoment ==
  ASSUME CaptureInv, walk.stage = "settle", Stable(files[open.id]), ~open.hidden
  PROVE  open.copied = open.moment
<1>1. /\ open \in Captures /\ open.id \in DOMAIN files
      /\ files \in [DOMAIN files -> [data : Seq(Nat), stamp : Nat]]
  BY DEF CaptureInv, CaptureTypeOK, WalkInv, CopyInv
<1> DEFINE file == files[open.id]
<1>2. /\ file.data \in Seq(Nat) /\ file.stamp \in Nat
      /\ open.copied \in Seq(Nat) /\ open.moment \in Seq(Nat) /\ open.stamp \in Nat
  BY <1>1, CaptureRows
<1>3. file.stamp = open.stamp /\ Len(open.copied) = Len(file.data)
  BY DEF Stable
<1>4. file.data = open.moment /\ ReadOf(open.moment, open.copied)
  BY <1>2, <1>3 DEF CaptureInv, CopyInv
<1> HIDE DEF file
<1>5. /\ Len(open.copied) = Len(open.moment)
      /\ \A i \in 1..Len(open.copied) : open.copied[i] = open.moment[i]
  BY <1>3, <1>4 DEF ReadOf
<1>6. \A c, m \in Seq(Nat) :
        Len(c) = Len(m) /\ (\A i \in 1..Len(c) : c[i] = m[i]) => c = m
  BY SeqEqual
<1> QED BY <1>2, <1>5, <1>6

LEMMA SettleKeeps ==
  ASSUME CaptureInv, Settle
  PROVE  CaptureInv'
<1>1. /\ DOMAIN walk = WalkFields /\ walk.next \in Nat \ {0} /\ walk.root \in Paths
      /\ walk.stage = "settle" /\ open \in Captures /\ open.id \in DOMAIN files
      /\ entries \in Seq(Entries)
      /\ tree \in [Paths -> Things \cup {None}]
  BY DEF CaptureInv, CaptureTypeOK, WalkInv, CopyInv, Settle
<1> DEFINE e == FileEntry(ManifestPath(walk.root, walk.at))
<1>2. CASE Refuse
  BY <1>2, RefuseKeeps
<1>3. CASE ~Refuse
  <2>1. /\ Stable(files[open.id])
        /\ entries' = Append(entries, e) /\ walk' = Onwards(walk.todo) /\ open' = None
        /\ UNCHANGED <<sourceVars, inputs>>
    BY <1>3 DEF Settle
  <2>2. walk.at \in Paths
    BY <1>1 DEF CaptureInv, WalkInv
  <2>3. e \in Entries
    BY <1>1, <2>2, ManifestPathIsAPath, CaptureRows DEF FileEntry, Entries
  <2>4. e.clear => e.data = e.moment
    BY <1>1, <2>1, StableIsOneMoment DEF FileEntry
  <2>5. entries' \in Seq(Entries) /\ OneMomentEach'
    BY <2>1, <2>3, <2>4, OneEntryMore
  <2>6. /\ DOMAIN walk' = WalkFields /\ walk'.root = walk.root /\ walk'.next = walk.next
        /\ walk'.stage \in {"input", "list", "inspect"}
    BY <1>1, <2>1, OnwardsGoes
  <2>7. walk'.stage \in Stages \ {"open", "copy", "settle"}
    BY <2>6 DEF Stages
  <2> QED BY <1>1, <2>1, <2>5, <2>6, <2>7, WalkGoesOn
<1> QED BY <1>2, <1>3

LEMMA EndKeeps ==
  ASSUME CaptureInv, Finish \/ Interrupt
  PROVE  CaptureInv'
<1>1. /\ DOMAIN walk = WalkFields /\ walk.next \in Nat \ {0} /\ entries \in Seq(Entries)
      /\ open \in Captures \cup {None} /\ OneMomentEach
  BY DEF CaptureInv, CaptureTypeOK
<1>2. CASE Refuse
  BY <1>2, RefuseKeeps
<1>3. CASE ~Refuse
  <2>1. /\ \/ walk' = [walk EXCEPT !.stage = "done"]
           \/ walk' = [walk EXCEPT !.stage = "interrupted"]
        /\ open' \in {open, None}
        /\ UNCHANGED <<sourceVars, inputs, entries>>
    BY <1>3 DEF Finish, Interrupt
  <2>2. /\ DOMAIN walk' = WalkFields /\ walk'.next = walk.next
        /\ walk'.stage \in {"done", "interrupted"}
    <3>1. CASE walk' = [walk EXCEPT !.stage = "done"]
      BY <1>1, <3>1, WalkMoves
    <3>2. CASE walk' = [walk EXCEPT !.stage = "interrupted"]
      BY <1>1, <3>2, WalkMoves
    <3> QED BY <2>1, <3>1, <3>2
  <2>3. walk'.stage \in Stages \ {"open", "copy", "settle"}
    BY <2>2 DEF Stages
  <2>4. OneMomentEach' /\ entries' \in Seq(Entries) /\ open' \in Captures \cup {None}
    BY <1>1, <2>1 DEF OneMomentEach
  <2> QED BY <1>1, <2>1, <2>2, <2>3, <2>4, WalkGoesOn
<1> QED BY <1>2, <1>3

-----------------------------------------------------------------------------
(***************************************************************************)
(* What others do to the source.  Their steps leave the walk, its inputs    *)
(* and the entries alone.                                                   *)
(***************************************************************************)
LEMMA SourceGoesOn ==
  ASSUME CaptureInv, UNCHANGED <<inputs, walk, entries>>,
         tree' \in [Paths -> Things \cup {None}],
         DOMAIN files' \subseteq FileIds,
         files' \in [DOMAIN files' -> [data : Seq(Nat), stamp : Nat]],
         clock' \in Nat, edits' \in Nat,
         open' = open \/ (open' \in Captures /\ open'.copied = open.copied),
         SourceInv', CopyInv'
  PROVE  CaptureInv'
<1>1. open' \in Captures \cup {None} /\ (open' = open \/ open' # None)
  BY NoneIsNothing DEF CaptureInv, CaptureTypeOK
<1>2. CaptureTypeOK'
  BY <1>1 DEF CaptureInv, CaptureTypeOK
<1>3. WalkInv'
  BY <1>1 DEF CaptureInv, WalkInv
<1>4. OneMomentEach'
  BY DEF CaptureInv, OneMomentEach
<1> QED BY <1>2, <1>3, <1>4 DEF CaptureInv

\* A change of a file, whatever its bytes become, moves its timestamp on or
\* is hidden.
LEMMA TouchKeeps ==
  ASSUME CaptureInv, NEW id \in DOMAIN files, NEW data \in Seq(Nat), Touch(id, data),
         walk' = walk
  PROVE  /\ DOMAIN files' = DOMAIN files
         /\ files' \in [DOMAIN files' -> [data : Seq(Nat), stamp : Nat]]
         /\ open' = open \/ (open' \in Captures /\ open'.copied = open.copied)
         /\ \A f \in DOMAIN files : files'[f].stamp <= clock
         /\ CopyInv'
<1>1. /\ files \in [DOMAIN files -> [data : Seq(Nat), stamp : Nat]] /\ clock \in Nat
      /\ \A f \in DOMAIN files : files[f].stamp <= clock
      /\ open \in Captures \cup {None}
  BY DEF CaptureInv, CaptureTypeOK, SourceInv
<1> DEFINE new == [data |-> data, stamp |-> clock]
<1>2. /\ new \in [data : Seq(Nat), stamp : Nat] /\ new.stamp = clock /\ new.data = data
  BY <1>1
<1>3. /\ DOMAIN files' = DOMAIN files
      /\ files'[id] = new
      /\ \A f \in DOMAIN files \ {id} : files'[f] = files[f]
      /\ files' = [f \in DOMAIN files |-> files'[f]]
  BY <1>1 DEF Touch
<1> HIDE DEF new
<1>4. files' \in [DOMAIN files' -> [data : Seq(Nat), stamp : Nat]]
  BY <1>1, <1>2, <1>3
<1>5. \A f \in DOMAIN files : files'[f].stamp <= clock
  <2> SUFFICES ASSUME NEW f \in DOMAIN files PROVE files'[f].stamp <= clock
    OBVIOUS
  <2>1. files'[f] \in {files[f], new}
    BY <1>3
  <2>2. clock <= clock
    BY <1>1
  <2> QED BY <1>1, <1>2, <2>1, <2>2
<1> DEFINE copying == walk.stage \in {"copy", "settle"}
<1>6. copying => open \in Captures /\ open.id \in DOMAIN files
  BY <1>1 DEF CaptureInv, WalkInv, CopyInv
<1>7. CASE copying /\ id = open.id
  <2> DEFINE b == open.hidden \/ files[id].stamp = clock
  <2>1. open' = [open EXCEPT !.hidden = b]
    BY <1>6, <1>7, CaptureRows DEF Touch
  <2>2. b \in BOOLEAN
    BY <1>6, <1>7, CaptureRows
  <2>3. /\ open' \in Captures /\ open'.hidden = b /\ open'.id = open.id
        /\ open'.stamp = open.stamp /\ open'.copied = open.copied
    <3> HIDE DEF b
    <3> QED BY <1>6, <1>7, <2>1, <2>2, ChangeHides
  <2>4. open.stamp <= files[id].stamp /\ open.stamp \in Nat /\ files[id].stamp \in Nat
    BY <1>1, <1>6, <1>7, CaptureRows DEF CaptureInv, CopyInv
  <2>5. files[id].stamp <= clock /\ (~b => files[id].stamp # clock)
    BY <1>1
  <2>6. open.stamp <= clock /\ (b \/ open.stamp < clock)
    <3> HIDE DEF b
    <3> QED BY <1>1, <2>4, <2>5
  <2>7. CopyInv'
    <3> HIDE DEF b
    <3>1. /\ open'.id \in DOMAIN files' /\ files'[open'.id].stamp = clock
      BY <1>2, <1>3, <1>7, <2>3
    <3>2. /\ open'.stamp <= files'[open'.id].stamp
          /\ open'.hidden \/ open'.stamp < files'[open'.id].stamp
      BY <2>3, <2>6, <3>1
    <3> QED BY <3>1, <3>2 DEF CopyInv
  <2> QED BY <1>3, <1>4, <1>5, <2>3, <2>7
<1>8. CASE copying /\ id # open.id
  <2>1. open' = open
    BY <1>8 DEF Touch
  <2>2. files'[open.id] = files[open.id]
    BY <1>3, <1>6, <1>8
  <2>3. CopyInv'
    BY <1>3, <2>1, <2>2 DEF CaptureInv, CopyInv
  <2> QED BY <1>3, <1>4, <1>5, <2>1, <2>3
<1>9. CASE ~copying
  <2>1. open' = open
    BY <1>9 DEF Touch
  <2>2. CopyInv'
    BY <1>9 DEF CopyInv
  <2> QED BY <1>3, <1>4, <1>5, <2>1, <2>2
<1> QED BY <1>7, <1>8, <1>9

LEMMA WriteKeeps ==
  ASSUME CaptureInv, NEW id \in DOMAIN files, Write(id)
  PROVE  CaptureInv'
<1>1. /\ files \in [DOMAIN files -> [data : Seq(Nat), stamp : Nat]] /\ edits \in Nat
      /\ DOMAIN files \subseteq FileIds /\ tree \in [Paths -> Things \cup {None}]
      /\ clock \in Nat
  BY DEF CaptureInv, CaptureTypeOK
<1>2. PICK data \in Written(files[id].data) : Touch(id, data)
  BY DEF Write
<1>3. data \in Seq(Nat)
  <2>1. files[id].data \in Seq(Nat) /\ edits + 1 \in Nat
    BY <1>1
  <2>2. \A s \in Seq(Nat), n \in Nat :
          /\ <<>> \in Seq(Nat) /\ Append(s, n) \in Seq(Nat)
          /\ \A i \in DOMAIN s : [s EXCEPT ![i] = n] \in Seq(Nat)
    BY ExceptSeq
  <2> QED BY <1>2, <2>1, <2>2 DEF Written
<1>4. /\ tree' = tree /\ clock' = clock /\ UNCHANGED <<inputs, walk, entries>> /\ edits' = edits + 1
  BY DEF Write, Edit
<1>5. /\ DOMAIN files' = DOMAIN files
      /\ files' \in [DOMAIN files' -> [data : Seq(Nat), stamp : Nat]]
      /\ open' = open \/ (open' \in Captures /\ open'.copied = open.copied)
      /\ \A f \in DOMAIN files : files'[f].stamp <= clock
      /\ CopyInv'
  BY <1>2, <1>3, <1>4, TouchKeeps
<1>6. SourceInv'
  BY <1>4, <1>5 DEF CaptureInv, SourceInv, KindAt, Exists
<1> QED BY <1>1, <1>4, <1>5, <1>6, SourceGoesOn

LEMMA UnlinkKeeps ==
  ASSUME CaptureInv, NEW path \in Paths, Unlink(path)
  PROVE  CaptureInv'
<1>1. /\ files \in [DOMAIN files -> [data : Seq(Nat), stamp : Nat]] /\ edits \in Nat
      /\ DOMAIN files \subseteq FileIds /\ tree \in [Paths -> Things \cup {None}]
      /\ clock \in Nat
      /\ \A f \in DOMAIN files : files[f].stamp <= clock
  BY DEF CaptureInv, CaptureTypeOK, SourceInv
<1>2. /\ tree' = [tree EXCEPT ![path] = None] /\ clock' = clock /\ edits' = edits + 1
      /\ UNCHANGED <<inputs, walk, entries>>
  BY DEF Unlink, Edit
<1>3. /\ DOMAIN files' = DOMAIN files
      /\ files' \in [DOMAIN files' -> [data : Seq(Nat), stamp : Nat]]
      /\ open' = open \/ (open' \in Captures /\ open'.copied = open.copied)
      /\ \A f \in DOMAIN files : files'[f].stamp <= clock
      /\ CopyInv'
  <2>1. CASE KindAt(path) = "file"
    <3>1. tree[path].id \in DOMAIN files
      BY <2>1 DEF CaptureInv, SourceInv
    <3>2. files[tree[path].id].data \in Seq(Nat)
      BY <1>1, <3>1
    <3>3. Touch(tree[path].id, files[tree[path].id].data)
      BY <2>1 DEF Unlink
    <3> QED BY <1>2, <3>1, <3>2, <3>3, TouchKeeps
  <2>2. CASE KindAt(path) # "file"
    <3>1. files' = files /\ open' = open
      BY <2>2 DEF Unlink
    <3> QED BY <1>1, <1>2, <3>1 DEF CaptureInv, CopyInv
  <2> QED BY <2>1, <2>2
<1>4. SourceInv'
  <2>1. \A p \in Paths : KindAt(p)' = "file" => KindAt(p) = "file" /\ tree'[p] = tree[p]
    BY <1>1, <1>2 DEF KindAt, Exists
  <2> QED BY <1>2, <1>3, <2>1 DEF CaptureInv, SourceInv
<1>5. tree' \in [Paths -> Things \cup {None}] /\ edits' \in Nat
  BY <1>1, <1>2
<1> QED BY <1>1, <1>2, <1>3, <1>4, <1>5, SourceGoesOn

LEMMA PlaceKeeps ==
  ASSUME CaptureInv, NEW path \in Paths, NEW kind \in {"file", "directory", "link", "special"},
         Place(path, kind)
  PROVE  CaptureInv'
<1>1. /\ files \in [DOMAIN files -> [data : Seq(Nat), stamp : Nat]] /\ edits \in Nat
      /\ DOMAIN files \subseteq FileIds /\ tree \in [Paths -> Things \cup {None}]
      /\ clock \in Nat
      /\ \A f \in DOMAIN files : files[f].stamp <= clock
  BY DEF CaptureInv, CaptureTypeOK, SourceInv
<1>2. /\ clock' = clock /\ edits' = edits + 1 /\ UNCHANGED <<inputs, walk, entries>> /\ open' = open
  BY DEF Place, Edit, Create
<1> DEFINE made == IF kind = "file" THEN FileId(path, edits + 1) ELSE None
           thing == [kind |-> kind, id |-> made]
           new == [data |-> <<edits + 1>>, stamp |-> clock]
<1>3. tree' = [tree EXCEPT ![path] = thing]
  BY DEF Place, Create
<1>4. FileId(path, edits + 1) \in FileIds
  BY <1>1 DEF FileId, FileIds
<1>5. thing \in Things /\ thing.kind = kind /\ thing.id = made
  BY <1>4 DEF Things
<1>6. new \in [data : Seq(Nat), stamp : Nat] /\ new.stamp <= clock
  <2>1. <<edits + 1>> \in Seq(Nat)
    BY <1>1
  <2> QED BY <1>1, <2>1
<1>7. /\ DOMAIN files' = DOMAIN files \cup (IF kind = "file" THEN {made} ELSE {})
      /\ \A f \in DOMAIN files : files'[f] = files[f]
      /\ \A f \in DOMAIN files' \ DOMAIN files : files'[f] = new
      /\ files' = [f \in DOMAIN files' |-> files'[f]]
  <2>1. CASE kind = "file"
    <3>1. files' = [f \in DOMAIN files \cup {FileId(path, edits + 1)} |->
                      IF f \in DOMAIN files THEN files[f] ELSE new]
      BY <2>1 DEF Place, Create
    <3> HIDE DEF new
    <3> QED BY <2>1, <3>1
  <2>2. CASE kind # "file"
    <3>1. files' = files
      BY <2>2 DEF Place
    <3> QED BY <1>1, <2>2, <3>1
  <2> QED BY <2>1, <2>2
<1> HIDE DEF new, thing
<1>8. /\ DOMAIN files' \subseteq FileIds
      /\ files' \in [DOMAIN files' -> [data : Seq(Nat), stamp : Nat]]
      /\ \A f \in DOMAIN files' : files'[f].stamp <= clock
  <2>1. DOMAIN files' \subseteq FileIds
    BY <1>1, <1>4, <1>7
  <2>2. \A f \in DOMAIN files' : /\ files'[f] \in [data : Seq(Nat), stamp : Nat]
                                 /\ files'[f].stamp <= clock
    BY <1>1, <1>6, <1>7
  <2> QED BY <1>7, <2>1, <2>2
<1>9. SourceInv'
  <2>1. \A p \in Paths : KindAt(p)' = "file" => tree'[p].id \in DOMAIN files'
    <3> SUFFICES ASSUME NEW p \in Paths, KindAt(p)' = "file"
                 PROVE  tree'[p].id \in DOMAIN files'
      OBVIOUS
    <3>1. CASE p = path
      <4>1. tree'[p] = thing
        BY <1>1, <1>3, <3>1
      <4>2. kind = "file"
        BY <1>5, <4>1 DEF KindAt, Exists
      <4> QED BY <1>5, <1>7, <4>1, <4>2
    <3>2. CASE p # path
      <4>1. tree'[p] = tree[p]
        BY <1>1, <1>3, <3>2
      <4>2. KindAt(p) = "file"
        BY <4>1 DEF KindAt, Exists
      <4> QED BY <1>7, <4>1, <4>2 DEF CaptureInv, SourceInv
    <3> QED BY <3>1, <3>2
  <2> QED BY <1>2, <1>8, <2>1 DEF SourceInv
<1>10. CopyInv'
  BY <1>2, <1>7 DEF CaptureInv, CopyInv
<1>11. tree' \in [Paths -> Things \cup {None}] /\ edits' \in Nat
  BY <1>1, <1>2, <1>3, <1>5
<1> QED BY <1>1, <1>2, <1>8, <1>9, <1>10, <1>11, SourceGoesOn

LEMMA TickKeeps ==
  ASSUME CaptureInv, Tick
  PROVE  CaptureInv'
<1>1. /\ tree' = tree /\ files' = files /\ edits' = edits /\ open' = open
      /\ UNCHANGED <<inputs, walk, entries>> /\ clock' = clock + 1
  BY DEF Tick, captureVars
<1>2. /\ files \in [DOMAIN files -> [data : Seq(Nat), stamp : Nat]] /\ clock \in Nat
      /\ tree \in [Paths -> Things \cup {None}] /\ edits \in Nat /\ DOMAIN files \subseteq FileIds
  BY DEF CaptureInv, CaptureTypeOK
<1>3. SourceInv'
  BY <1>1, <1>2 DEF CaptureInv, SourceInv, KindAt, Exists
<1>4. CopyInv'
  BY <1>1 DEF CaptureInv, CopyInv
<1> QED BY <1>1, <1>2, <1>3, <1>4, SourceGoesOn

-----------------------------------------------------------------------------
LEMMA StandingStill == CaptureInv /\ UNCHANGED vars => CaptureInv'
<1> SUFFICES ASSUME CaptureInv, UNCHANGED vars PROVE CaptureInv'
  OBVIOUS
<1>1. /\ tree' = tree /\ files' = files /\ clock' = clock /\ edits' = edits
      /\ inputs' = inputs /\ walk' = walk /\ open' = open /\ entries' = entries
  BY DEF vars, sourceVars, captureVars
<1>2. CaptureTypeOK' /\ WalkInv' /\ OneMomentEach'
  BY <1>1 DEF CaptureInv, CaptureTypeOK, WalkInv, OneMomentEach
<1>3. SourceInv' /\ CopyInv'
  BY <1>1 DEF CaptureInv, SourceInv, KindAt, Exists, CopyInv
<1> QED BY <1>2, <1>3 DEF CaptureInv

(***************************************************************************)
(* The invariant holds whatever is walked and whatever others change.       *)
(***************************************************************************)
THEOREM CaptureInvariance == Spec => []CaptureInv
<1>1. ASSUME CaptureInv, Next
      PROVE  CaptureInv'
  <2>1. CASE WalkStep
    BY <1>1, <2>1, InputKeeps, ListKeeps, InspectKeeps, BeforeKeeps, OpenKeeps, ReadKeeps,
       SettleKeeps, EndKeeps DEF WalkStep
  <2>2. CASE SourceStep
    BY <1>1, <2>2, WriteKeeps, PlaceKeeps, UnlinkKeeps, TickKeeps DEF SourceStep
  <2> QED BY <1>1, <2>1, <2>2 DEF Next
<1> QED BY <1>1, CaptureInit, StandingStill, PTL DEF Spec

(***************************************************************************)
(* Every variable keeps its type: the inputs, the walk and the file that is *)
(* open (create_drop and capture_file of src/src/storage.rs).               *)
(***************************************************************************)
THEOREM CaptureTypeCorrect == Spec => []CaptureTypeOK
BY CaptureInvariance, PTL DEF CaptureInv

(***************************************************************************)
(* For files of any length, any tree and any number of changes: a captured  *)
(* file is what it was at one moment, unless a change left no new time.     *)
(***************************************************************************)
THEOREM CapturedFilesAreOfOneMoment == Spec => []EachFileIsOneMoment
<1>1. CaptureInv => EachFileIsOneMoment
  BY DEF CaptureInv, OneMomentEach, EachFileIsOneMoment, Range
<1> QED BY <1>1, CaptureInvariance, PTL

-----------------------------------------------------------------------------
(***************************************************************************)
(* The walk and the tree.  A path that nobody touched, nor a directory it   *)
(* is in, is as it was: what an entry shows of it stays so.                 *)
(***************************************************************************)
BytesAt(path) == IF KindAt(path) = "file" THEN files[tree[path].id].data ELSE <<>>
Shows(e, path) == tree[path] # None /\ e.kind = KindAt(path) /\ e.data = BytesAt(path)

Begun == 1..(walk.next - 1)
Walking == walk.stage \in {"list", "inspect", "before", "open", "copy", "settle"}
Listings == [path : Paths, directory : BOOLEAN]

\* What is below something is in directories; a file is named by its path.
TreeInv ==
    /\ \A p, q \in Paths : IsStrictPrefix(p, q) /\ tree[q] # None => KindAt(p) = "directory"
    /\ \A p \in Paths : KindAt(p) = "file" => tree[p].id.at = p
    /\ touched \subseteq Paths

\* What is still to be visited: under which input, as it was listed, each once.
TodoFits(todo) ==
    /\ todo \in Seq(Listings)
    /\ \A k \in DOMAIN todo : IsStrictPrefix(walk.root, todo[k].path)
TodoListed(todo) ==
    \A k \in DOMAIN todo :
        /\ tree[todo[k].path] # None
        /\ todo[k].directory <=> KindAt(todo[k].path) = "directory"
TodoApart(todo) ==
    \A j, k \in DOMAIN todo : IsPrefix(todo[j].path, todo[k].path) => j = k
InTodo(todo, path) ==
    \E k \in DOMAIN todo :
        \/ path = todo[k].path
        \/ todo[k].directory /\ IsPrefix(todo[k].path, path)
UnderTodo(todo, path) == \E k \in DOMAIN todo : IsPrefix(todo[k].path, path)

\* The walk stays under the input it has begun last, and the names of inputs
\* differ.
PlaceInv ==
    /\ walk.next <= Len(inputs) + 1
    /\ walk.stage \in {"input", "done"} => walk.todo = <<>>
    /\ walk.stage = "done" => walk.next = Len(inputs) + 1
    /\ Walking => /\ walk.next > 1 /\ walk.root = inputs[walk.next - 1]
                  /\ walk.at \in Paths /\ IsPrefix(walk.root, walk.at)
                  /\ TodoFits(walk.todo)
    /\ walk.stage = "inspect" => walk.at # walk.root
    /\ \A i, j \in Begun : Last(inputs[i]) = Last(inputs[j]) => i = j
    /\ \A i \in Begun : tree[inputs[i]] # None \/ Disturbed(inputs[i])

\* Of a path that nobody touched, the file that is open is the one that is
\* there, as it is.
OpenInv ==
    walk.stage \in {"open", "copy", "settle"} /\ ~Disturbed(walk.at) =>
        /\ KindAt(walk.at) = "file" /\ tree[walk.at].id = open.id
        /\ ~open.hidden
        /\ walk.stage \in {"copy", "settle"} =>
              /\ open.moment = files[open.id].data
              /\ open.size = Len(files[open.id].data)
              /\ open.stamp = files[open.id].stamp
        /\ walk.stage = "settle" => Len(open.copied) >= Len(files[open.id].data)

\* Every entry is of a path under an input.
Explains(i, path, e) ==
    /\ IsPrefix(inputs[i], path)
    /\ e.path = ManifestPath(inputs[i], path)
    /\ ~Disturbed(path) => Shows(e, path)
NothingElse ==
    \A k \in DOMAIN entries : \E i \in Begun, path \in Paths : Explains(i, path, entries[k])

\* Every path under an input has its entry or its turn is still to come.
Captured(i, path) ==
    \E k \in DOMAIN entries :
        entries[k].path = ManifestPath(inputs[i], path) /\ Shows(entries[k], path)
Pending(path) ==
    \/ walk.stage = "list" /\ IsPrefix(walk.at, path) /\ path # walk.root
    \/ Walking /\ walk.stage # "list" /\ path = walk.at
    \/ Walking /\ InTodo(walk.todo, path)
NothingMissed ==
    walk.stage \notin {"refused", "interrupted"} =>
        \A i \in Begun, path \in Paths :
            IsPrefix(inputs[i], path) /\ tree[path] # None /\ ~Disturbed(path) =>
                Captured(i, path) \/ (i = walk.next - 1 /\ Pending(path))

\* While nobody has touched anything, what was listed is there, no path is
\* listed twice, and none has its entry before its turn.
ListedInv ==
    /\ walk.stage = "list" => KindAt(walk.at) = "directory"
    /\ walk.stage = "inspect" => tree[walk.at] # None
    /\ walk.stage = "before" => KindAt(walk.at) = "file"
    /\ TodoListed(walk.todo)
ApartInv ==
    /\ TodoApart(walk.todo)
    /\ \A k \in DOMAIN walk.todo :
          /\ ~IsPrefix(walk.todo[k].path, walk.at)
          /\ walk.stage = "list" => ~IsPrefix(walk.at, walk.todo[k].path)
Awaited(path) ==
    \/ IsPrefix(walk.at, path) /\ (path # walk.root \/ walk.stage # "list")
    \/ UnderTodo(walk.todo, path)
FreshInv ==
    \A path \in Paths, k \in DOMAIN entries :
        IsPrefix(walk.root, path) /\ Awaited(path) =>
            entries[k].path # ManifestPath(walk.root, path)
DistinctEntries ==
    \A j, k \in DOMAIN entries : entries[j].path = entries[k].path => j = k

\* The rest, of refusals, is what is to be shown.
QuietInv ==
    /\ touched = {} => /\ DistinctEntries
                       /\ Walking => ListedInv /\ ApartInv /\ FreshInv
    /\ RefusedForCause

WholeInv ==
    /\ CaptureInv
    /\ TreeInv /\ PlaceInv /\ OpenInv
    /\ NothingElse /\ NothingMissed
    /\ QuietInv

-----------------------------------------------------------------------------
(***************************************************************************)
(* Paths.  A prefix is one position by position; the directories of a path  *)
(* are its prefixes, from the one that lists it up.                         *)
(***************************************************************************)
LEMMA PathsAreTexts ==
  ASSUME NEW p \in Paths
  PROVE  p \in Seq(Nat) /\ p # <<>> /\ Len(p) \in Nat \ {0}
<1>1. p \in Seq(Nat) /\ p # <<>>
  BY CaptureAssumption
<1> QED BY <1>1

LEMMA PrefixIsPointwise ==
  ASSUME NEW s \in Seq(Nat), NEW t \in Seq(Nat)
  PROVE  IsPrefix(s, t) <=> Len(s) <= Len(t) /\ \A i \in 1..Len(s) : s[i] = t[i]
<1>1. CASE Len(s) <= Len(t)
  <2>1. /\ SubSeq(s, 1, Len(s)) = [i \in 1..Len(s) |-> s[i]]
        /\ SubSeq(t, 1, Len(s)) = [i \in 1..Len(s) |-> t[i]]
    BY <1>1
  <2>2. (\A i \in 1..Len(s) : s[i] = t[i]) <=>
           [i \in 1..Len(s) |-> s[i]] = [i \in 1..Len(s) |-> t[i]]
    OBVIOUS
  <2> QED BY <1>1, <2>1, <2>2 DEF IsPrefix
<1>2. CASE ~ (Len(s) <= Len(t))
  BY <1>2 DEF IsPrefix
<1> QED BY <1>1, <1>2

LEMMA PrefixOrder ==
  ASSUME NEW p \in Paths, NEW q \in Paths, NEW r \in Paths
  PROVE  /\ IsPrefix(p, p)
         /\ IsPrefix(p, q) /\ IsPrefix(q, r) => IsPrefix(p, r)
         /\ IsPrefix(p, q) /\ IsPrefix(q, p) => p = q
         /\ IsPrefix(p, q) /\ Len(p) = Len(q) => p = q
         /\ IsPrefix(p, r) /\ IsPrefix(q, r) /\ Len(p) <= Len(q) => IsPrefix(p, q)
         /\ IsPrefix(p, q) => Len(p) <= Len(q)
<1>1. /\ p \in Seq(Nat) /\ q \in Seq(Nat) /\ r \in Seq(Nat)
      /\ Len(p) \in Nat /\ Len(q) \in Nat /\ Len(r) \in Nat
  BY PathsAreTexts
<1>2. /\ IsPrefix(p, p) <=> Len(p) <= Len(p) /\ \A i \in 1..Len(p) : p[i] = p[i]
      /\ IsPrefix(p, q) <=> Len(p) <= Len(q) /\ \A i \in 1..Len(p) : p[i] = q[i]
      /\ IsPrefix(q, p) <=> Len(q) <= Len(p) /\ \A i \in 1..Len(q) : q[i] = p[i]
      /\ IsPrefix(q, r) <=> Len(q) <= Len(r) /\ \A i \in 1..Len(q) : q[i] = r[i]
      /\ IsPrefix(p, r) <=> Len(p) <= Len(r) /\ \A i \in 1..Len(p) : p[i] = r[i]
  BY <1>1, PrefixIsPointwise
<1>3. Len(p) = Len(q) /\ (\A i \in 1..Len(p) : p[i] = q[i]) => p = q
  BY <1>1, SeqEqual
<1>4. IsPrefix(p, q) /\ Len(p) = Len(q) => p = q
  BY <1>2, <1>3
<1>5. IsPrefix(p, q) /\ IsPrefix(q, p) => p = q
  BY <1>1, <1>2, <1>4
<1>6. IsPrefix(p, q) /\ IsPrefix(q, r) => IsPrefix(p, r)
  BY <1>1, <1>2
<1>7. IsPrefix(p, r) /\ IsPrefix(q, r) /\ Len(p) <= Len(q) => IsPrefix(p, q)
  BY <1>1, <1>2
<1> QED BY <1>1, <1>2, <1>4, <1>5, <1>6, <1>7

LEMMA FrontOfAPath ==
  ASSUME NEW p \in Paths
  PROVE  /\ Front(p) \in Seq(Nat) /\ Len(Front(p)) = Len(p) - 1
         /\ \A i \in 1..(Len(p) - 1) : Front(p)[i] = p[i]
<1>1. p \in Seq(Nat) /\ Len(p) \in Nat \ {0}
  BY PathsAreTexts
<1> DEFINE n == Len(p) - 1
<1>2. n \in Nat /\ n <= Len(p)
  BY <1>1
<1> HIDE DEF n
<1>3. SubSeq(p, 1, n) \in Seq(Nat) /\ Len(SubSeq(p, 1, n)) = n
      /\ \A i \in 1..n : SubSeq(p, 1, n)[i] = p[i]
  BY <1>1, <1>2
<1> QED BY <1>3 DEF Front, n

\* What lists a path is its longest directory.
LEMMA FrontIsDirectory ==
  ASSUME NEW p \in Paths, NEW c \in Paths, Front(c) = p
  PROVE  /\ IsStrictPrefix(p, c) /\ Len(c) = Len(p) + 1
         /\ \A d \in Paths : IsStrictPrefix(d, c) => IsPrefix(d, p)
<1>1. /\ p \in Seq(Nat) /\ c \in Seq(Nat) /\ Len(p) \in Nat \ {0} /\ Len(c) \in Nat \ {0}
  BY PathsAreTexts
<1>2. Len(p) = Len(c) - 1 /\ \A i \in 1..Len(p) : p[i] = c[i]
  BY FrontOfAPath
<1>3. IsPrefix(p, c) /\ p # c
  <2>1. Len(p) <= Len(c) /\ Len(p) # Len(c)
    BY <1>1, <1>2
  <2> QED BY <1>1, <1>2, <2>1, PrefixIsPointwise
<1>4. ASSUME NEW d \in Paths, IsStrictPrefix(d, c)
      PROVE  IsPrefix(d, p)
  <2>1. IsPrefix(d, c) /\ d # c
    BY <1>4 DEF IsStrictPrefix
  <2>2. Len(d) \in Nat /\ Len(d) <= Len(c) /\ Len(d) # Len(c)
    BY <2>1, PathsAreTexts, PrefixOrder
  <2>3. Len(d) <= Len(p)
    BY <1>1, <1>2, <2>2
  <2> QED BY <1>3, <2>1, <2>3, PrefixOrder
<1> QED BY <1>1, <1>2, <1>3, <1>4 DEF IsStrictPrefix

\* On the way from a directory to what is below it there is one listed by it.
LEMMA ChildTowards ==
  ASSUME NEW p \in Paths, NEW q \in Paths, IsStrictPrefix(p, q)
  PROVE  \E c \in Paths : Front(c) = p /\ IsPrefix(c, q)
<1>1. /\ p \in Seq(Nat) /\ q \in Seq(Nat) /\ Len(p) \in Nat \ {0} /\ Len(q) \in Nat \ {0}
  BY PathsAreTexts
<1>2. IsPrefix(p, q) /\ p # q
  BY DEF IsStrictPrefix
<1>3. Len(p) < Len(q) /\ \A i \in 1..Len(p) : p[i] = q[i]
  <2>1. Len(p) <= Len(q) /\ Len(p) # Len(q)
    BY <1>2, PrefixOrder
  <2>2. \A i \in 1..Len(p) : p[i] = q[i]
    BY <1>1, <1>2, PrefixIsPointwise
  <2> QED BY <1>1, <2>1, <2>2
<1> DEFINE n == Len(p) + 1
           c == SubSeq(q, 1, n)
<1>4. n \in 1..Len(q) /\ n \in Nat
  BY <1>1, <1>3
<1>5. c \in Paths
  BY <1>4, CaptureAssumption
<1>6. c \in Seq(Nat) /\ Len(c) = n /\ \A i \in 1..n : c[i] = q[i]
  BY <1>1, <1>4
<1> HIDE DEF c
<1>7. /\ Front(c) \in Seq(Nat) /\ Len(Front(c)) = Len(p)
      /\ \A i \in 1..Len(p) : Front(c)[i] = c[i]
  <2>1. Len(c) - 1 = Len(p)
    BY <1>1, <1>6
  <2> QED BY <1>5, <2>1, FrontOfAPath
<1>8. \A i \in 1..Len(p) : Front(c)[i] = p[i]
  <2>1. \A i \in 1..Len(p) : c[i] = q[i]
    BY <1>1, <1>6
  <2> QED BY <1>3, <1>7, <2>1
<1>9. Front(c) = p
  BY <1>1, <1>7, <1>8, SeqEqual
<1>10. IsPrefix(c, q)
  BY <1>1, <1>4, <1>6, PrefixIsPointwise
<1> QED BY <1>5, <1>9, <1>10

\* What a text keeps after its first k elements.
LEMMA TailOfAText ==
  ASSUME NEW t \in Seq(Nat), NEW k \in Nat, k <= Len(t)
  PROVE  /\ SubSeq(t, k + 1, Len(t)) \in Seq(Nat)
         /\ Len(SubSeq(t, k + 1, Len(t))) = Len(t) - k
         /\ \A i \in 1..(Len(t) - k) : SubSeq(t, k + 1, Len(t))[i] = t[k + i]
<1>1. \A i \in (k + 1)..Len(t) : t[i] \in Nat
  OBVIOUS
<1> DEFINE u == SubSeq(t, k + 1, Len(t))
<1>2. /\ u \in Seq(Nat)
      /\ Len(u) = IF k + 1 <= Len(t) THEN Len(t) - (k + 1) + 1 ELSE 0
      /\ \A i \in 1..(Len(t) - (k + 1) + 1) : u[i] = t[(k + 1) + i - 1]
  <2>1. Len(t) \in Int /\ k + 1 \in Int
    OBVIOUS
  <2> QED BY <1>1, <2>1, SubSeqProperties
<1> HIDE DEF u
<1>3. Len(t) \in Nat /\ \A i \in 1..(Len(t) - k) : (k + 1) + i - 1 = k + i
  OBVIOUS
<1>4. u \in Seq(Nat) /\ Len(u) = Len(t) - k /\ \A i \in 1..(Len(t) - k) : u[i] = t[k + i]
  BY <1>2, <1>3
<1> QED BY <1>4 DEF u

\* Under one input the path in the manifest tells where an entry is from, and
\* it begins with the name of the input.
LEMMA ManifestPathTells ==
  ASSUME NEW r \in Paths, NEW s \in Paths, NEW p \in Paths, NEW q \in Paths,
         IsPrefix(r, p), IsPrefix(s, q), ManifestPath(r, p) = ManifestPath(s, q)
  PROVE  Last(r) = Last(s) /\ (r = s => p = q)
<1>1. /\ p \in Seq(Nat) /\ q \in Seq(Nat) /\ r \in Seq(Nat) /\ s \in Seq(Nat)
      /\ Len(p) \in Nat \ {0} /\ Len(q) \in Nat \ {0} /\ Len(r) \in Nat \ {0}
      /\ Len(s) \in Nat \ {0}
  BY PathsAreTexts
<1>2. Last(r) \in Nat /\ Last(s) \in Nat
  BY <1>1 DEF Last
<1> DEFINE a == SubSeq(p, Len(r) + 1, Len(p))
           b == SubSeq(q, Len(s) + 1, Len(q))
           m == <<Last(r)>> \o a
           n == <<Last(s)>> \o b
<1>3. /\ Len(r) <= Len(p) /\ Len(s) <= Len(q)
      /\ \A i \in 1..Len(r) : r[i] = p[i]
      /\ \A i \in 1..Len(s) : s[i] = q[i]
  BY <1>1, PrefixIsPointwise
<1>4. /\ a \in Seq(Nat) /\ Len(a) = Len(p) - Len(r)
      /\ \A i \in 1..(Len(p) - Len(r)) : a[i] = p[Len(r) + i]
  BY <1>1, <1>3, TailOfAText
<1>5. /\ b \in Seq(Nat) /\ Len(b) = Len(q) - Len(s)
      /\ \A i \in 1..(Len(q) - Len(s)) : b[i] = q[Len(s) + i]
  BY <1>1, <1>3, TailOfAText
<1>6. m = n
  BY DEF ManifestPath
<1> HIDE DEF a, b
<1>7. /\ Len(m) = Len(a) + 1 /\ m[1] = Last(r)
      /\ \A i \in 1..Len(a) : m[i + 1] = a[i]
  BY <1>2, <1>4
<1>8. /\ Len(n) = Len(b) + 1 /\ n[1] = Last(s)
      /\ \A i \in 1..Len(b) : n[i + 1] = b[i]
  BY <1>2, <1>5
<1> HIDE DEF m, n
<1>9. Last(r) = Last(s) /\ Len(a) = Len(b) /\ \A i \in 1..Len(a) : a[i] = b[i]
  <2>1. Len(a) \in Nat /\ Len(b) \in Nat
    BY <1>4, <1>5
  <2>2. Len(a) = Len(b)
    BY <1>6, <1>7, <1>8, <2>1
  <2>3. \A i \in 1..Len(a) : a[i] = b[i]
    BY <1>6, <1>7, <1>8, <2>2
  <2> QED BY <1>6, <1>7, <1>8, <2>2, <2>3
<1>10. ASSUME r = s
       PROVE  p = q
  <2>1. Len(p) = Len(q)
    <3>1. Len(p) - Len(r) = Len(q) - Len(r)
      BY <1>4, <1>5, <1>9, <1>10
    <3> QED BY <1>1, <3>1
  <2>2. ASSUME NEW i \in 1..Len(p)
        PROVE  p[i] = q[i]
    <3>1. CASE i <= Len(r)
      BY <1>1, <1>3, <1>10, <2>1, <3>1
    <3>2. CASE i > Len(r)
      <4>1. i - Len(r) \in 1..(Len(p) - Len(r)) /\ Len(r) + (i - Len(r)) = i
        BY <1>1, <1>3, <3>2
      <4>2. a[i - Len(r)] = p[i]
        BY <1>4, <4>1
      <4>3. b[i - Len(r)] = q[i]
        BY <1>5, <1>10, <2>1, <4>1
      <4> QED BY <1>4, <1>9, <4>1, <4>2, <4>3
    <3> QED BY <1>1, <3>1, <3>2
  <2> QED BY <1>1, <2>1, <2>2, SeqEqual
<1> QED BY <1>9, <1>10

(***************************************************************************)
(* sort_by_file_name lists each name of a directory once: counting the      *)
(* names up to its own gives each its place, and leaves no place empty.     *)
(***************************************************************************)
LEMMA SortedListsAll ==
  ASSUME NEW d \in Paths \cup {<<>>}, NEW S \in SUBSET Paths, \A p \in S : Front(p) = d
  PROVE  /\ Sorted(S) \in Seq(S)
         /\ \A p \in S : \E k \in DOMAIN Sorted(S) : Sorted(S)[k] = p
         /\ \A j, k \in DOMAIN Sorted(S) : Sorted(S)[j] = Sorted(S)[k] => j = k
<1>1. IsFiniteSet(S) /\ Cardinality(S) \in Nat
  BY CaptureAssumption, FS_Subset, FS_CardinalityType
<1> DEFINE n == Cardinality(S)
           UpTo(p) == {q \in S : Last(q) <= Last(p)}
           rank == [p \in S |-> Cardinality(UpTo(p))]
<1>2. \A p \in S : Last(p) \in Nat
  <2>1. \A p \in S : p \in Seq(Nat) /\ Len(p) \in Nat \ {0}
    BY PathsAreTexts
  <2> QED BY <2>1 DEF Last
<1>3. ASSUME NEW p \in S, NEW q \in S, Last(p) = Last(q)
      PROVE  p = q
  <2>1. /\ p \in Seq(Nat) /\ q \in Seq(Nat) /\ Len(p) \in Nat \ {0} /\ Len(q) \in Nat \ {0}
    BY PathsAreTexts
  <2>2. /\ Len(Front(p)) = Len(p) - 1 /\ Len(Front(q)) = Len(q) - 1
        /\ \A i \in 1..(Len(p) - 1) : Front(p)[i] = p[i]
        /\ \A i \in 1..(Len(q) - 1) : Front(q)[i] = q[i]
    BY FrontOfAPath
  <2>3. Front(p) = Front(q)
    OBVIOUS
  <2>4. Len(p) = Len(q)
    BY <2>1, <2>2, <2>3
  <2>5. \A i \in 1..Len(p) : i \in 1..(Len(p) - 1) \/ i = Len(p)
    BY <2>1
  <2>6. \A i \in 1..Len(p) : p[i] = q[i]
    BY <1>3, <2>2, <2>3, <2>4, <2>5 DEF Last
  <2> QED BY <2>1, <2>4, <2>6, SeqEqual
<1>4. ASSUME NEW p \in S
      PROVE  rank[p] \in 1..n
  <2>1. UpTo(p) \subseteq S /\ p \in UpTo(p)
    BY <1>2
  <2>2. IsFiniteSet(UpTo(p)) /\ Cardinality(UpTo(p)) <= n /\ Cardinality(UpTo(p)) \in Nat
    BY <1>1, <2>1, FS_Subset, FS_CardinalityType
  <2>3. Cardinality(UpTo(p)) # 0
    BY <2>1, <2>2, FS_EmptySet
  <2> HIDE DEF UpTo
  <2> QED BY <1>1, <2>2, <2>3
<1>5. ASSUME NEW p \in S, NEW q \in S, Last(p) < Last(q)
      PROVE  rank[p] # rank[q]
  <2>1. UpTo(p) \subseteq UpTo(q) /\ q \notin UpTo(p) /\ q \in UpTo(q)
    BY <1>2, <1>5
  <2>2. IsFiniteSet(UpTo(q))
    BY <1>1, FS_Subset
  <2> HIDE DEF UpTo
  <2>3. Cardinality(UpTo(p)) # Cardinality(UpTo(q))
    BY <2>1, <2>2, FS_Subset
  <2> QED BY <2>3
<1>6. ASSUME NEW p \in S, NEW q \in S, rank[p] = rank[q]
      PROVE  p = q
  <2>1. Last(p) = Last(q)
    BY <1>2, <1>5, <1>6
  <2> QED BY <1>3, <2>1
<1> HIDE DEF rank
<1>7. rank \in Injection(S, 1..n)
  <2>1. rank \in [S -> 1..n]
    BY <1>4 DEF rank
  <2> QED BY <1>6, <2>1 DEF Injection, IsInjective
<1>8. rank \in Surjection(S, 1..n)
  <2>1. IsFiniteSet(1..n) /\ Cardinality(1..n) = n
    BY <1>1, FS_Interval
  <2> QED BY <1>7, <2>1, FS_Injection
<1>9. \A k \in 1..n : \E p \in S : rank[p] = k
  BY <1>8 DEF Surjection
<1>10. \A k \in 1..n : Sorted(S)[k] \in S /\ rank[Sorted(S)[k]] = k
  <2> SUFFICES ASSUME NEW k \in 1..n
               PROVE  Sorted(S)[k] \in S /\ rank[Sorted(S)[k]] = k
    OBVIOUS
  <2>1. Sorted(S)[k] = CHOOSE p \in S : Cardinality(UpTo(p)) = k
    BY DEF Sorted
  <2>2. Sorted(S)[k] = CHOOSE p \in S : rank[p] = k
    BY <2>1 DEF rank
  <2> HIDE DEF n, UpTo
  <2> QED BY <1>9, <2>2
<1>11. DOMAIN Sorted(S) = 1..n /\ Sorted(S) = [k \in 1..n |-> Sorted(S)[k]]
  BY DEF Sorted
<1>12. Sorted(S) \in Seq(S)
  <2> HIDE DEF n
  <2>1. n \in Nat
    BY <1>1 DEF n
  <2> QED BY <1>10, <1>11, <2>1
<1>13. \A p \in S : rank[p] \in DOMAIN Sorted(S) /\ Sorted(S)[rank[p]] = p
  BY <1>4, <1>6, <1>10, <1>11 DEF rank
<1>14. \A j, k \in DOMAIN Sorted(S) : Sorted(S)[j] = Sorted(S)[k] => j = k
  BY <1>10, <1>11
<1> QED BY <1>12, <1>13, <1>14

-----------------------------------------------------------------------------
LEMMA InputsArePaths ==
  ASSUME CaptureInv
  PROVE  /\ inputs \in Seq(Paths) /\ Len(inputs) \in Nat
         /\ \A i \in 1..Len(inputs) : inputs[i] \in Paths
         /\ walk.next \in Nat \ {0}
         /\ walk.next <= Len(inputs) + 1 => Begun \subseteq 1..Len(inputs)
<1>1. inputs \in Seq(Paths) /\ walk.next \in Nat \ {0}
  BY CaptureAssumption DEF CaptureInv, CaptureTypeOK
<1> QED BY <1>1 DEF Begun

LEMMA ExactInit == Init => WholeInv
<1> SUFFICES ASSUME Init PROVE WholeInv
  OBVIOUS
<1>1. CaptureInv
  BY CaptureInit
<1>2. /\ tree \in Trees /\ touched = {} /\ entries = <<>> /\ open = None /\ inputs \in InputLists
      /\ walk = [stage |-> "input", next |-> 1, root |-> None, at |-> None, todo |-> <<>>]
  BY DEF Init
<1>3. /\ walk.stage = "input" /\ walk.next = 1 /\ walk.todo = <<>>
  BY <1>2
<1>4. TreeInv
  <2>1. ASSUME NEW p \in Paths, NEW q \in Paths, IsStrictPrefix(p, q), tree[q] # None
        PROVE  KindAt(p) = "directory"
    <3>1. /\ p \in Seq(Nat) /\ q \in Seq(Nat) /\ Len(p) \in Nat \ {0} /\ Len(q) \in Nat \ {0}
      BY PathsAreTexts
    <3>2. Len(p) <= Len(q) /\ p # q /\ SubSeq(p, 1, Len(p)) = SubSeq(q, 1, Len(p))
      BY <2>1 DEF IsStrictPrefix, IsPrefix
    <3>3. SubSeq(p, 1, Len(p)) = p
      BY <3>1
    <3>4. Len(p) # Len(q)
      BY <2>1, PrefixOrder DEF IsStrictPrefix
    <3>5. Len(p) \in 1..(Len(q) - 1)
      BY <3>1, <3>2, <3>4
    <3>6. tree[p] = [kind |-> "directory", id |-> None]
      <4>1. \A n \in 1..(Len(q) - 1) :
               tree[SubSeq(q, 1, n)] = [kind |-> "directory", id |-> None]
        BY <1>2, <2>1, CaptureAssumption
      <4>2. tree[SubSeq(q, 1, Len(p))] = [kind |-> "directory", id |-> None]
        BY <3>5, <4>1
      <4> QED BY <3>2, <3>3, <4>2
    <3>7. tree[p] # None
      BY <3>6, NoneIsNothing DEF Things
    <3> QED BY <3>6, <3>7 DEF KindAt, Exists
  <2>2. ASSUME NEW p \in Paths, KindAt(p) = "file"
        PROVE  tree[p].id.at = p
    <3>1. tree[p] # None /\ tree[p].kind = "file"
      BY <2>2 DEF KindAt, Exists
    <3>2. tree[p].id = FileId(p, 0)
      BY <1>2, <3>1, CaptureAssumption
    <3> QED BY <3>2 DEF FileId
  <2> QED BY <1>2, <2>1, <2>2 DEF TreeInv
<1>5. PlaceInv
  <2>1. Begun = {} /\ ~Walking
    BY <1>3 DEF Begun, Walking
  <2>2. Len(inputs) \in Nat
    BY <1>1, InputsArePaths
  <2> QED BY <1>3, <2>1, <2>2 DEF PlaceInv
<1>6. OpenInv /\ NothingElse /\ NothingMissed /\ QuietInv
  <2>1. Begun = {} /\ DOMAIN entries = {}
    BY <1>2, <1>3 DEF Begun
  <2>2. OpenInv /\ RefusedForCause /\ ~Walking
    BY <1>3 DEF OpenInv, RefusedForCause, Walking
  <2> QED BY <2>1, <2>2 DEF NothingElse, NothingMissed, QuietInv, DistinctEntries
<1> QED BY <1>1, <1>4, <1>5, <1>6 DEF WholeInv

-----------------------------------------------------------------------------
(***************************************************************************)
(* What others do.  A step of theirs spares every path it does not disturb. *)
(***************************************************************************)
Spared ==
    /\ touched \subseteq touched'
    /\ \A q \in Paths \ touched' :
          /\ tree'[q] = tree[q]
          /\ KindAt(q) = "file" => files'[tree[q].id] = files[tree[q].id]
    /\ open' = open \/ open.id.at \in touched'
    /\ UNCHANGED <<inputs, walk, entries>>

LEMMA UndisturbedIsSpared ==
  ASSUME Spared, NEW q \in Paths, ~Disturbed(q)'
  PROVE  /\ ~Disturbed(q) /\ q \notin touched'
         /\ tree'[q] = tree[q] /\ KindAt(q)' = KindAt(q) /\ BytesAt(q)' = BytesAt(q)
         /\ KindAt(q) = "file" => files'[tree[q].id] = files[tree[q].id]
<1>1. ~Disturbed(q)
  BY DEF Spared, Disturbed
<1>2. q \notin touched'
  BY PrefixOrder DEF Disturbed
<1>3. /\ tree'[q] = tree[q]
      /\ KindAt(q) = "file" => files'[tree[q].id] = files[tree[q].id]
  BY <1>2 DEF Spared
<1>4. KindAt(q)' = KindAt(q)
  BY <1>3 DEF KindAt, Exists
<1>5. BytesAt(q)' = BytesAt(q)
  BY <1>3, <1>4 DEF BytesAt
<1> QED BY <1>1, <1>2, <1>3, <1>4, <1>5

LEMMA SparedKeeps ==
  ASSUME WholeInv, Spared, Active, CaptureInv', TreeInv', touched' # {}
  PROVE  WholeInv'
<1>1. /\ inputs' = inputs /\ walk' = walk /\ entries' = entries
  BY DEF Spared
<1>2. /\ CaptureInv /\ PlaceInv /\ OpenInv /\ NothingElse /\ NothingMissed /\ TreeInv
  BY DEF WholeInv
<1>3. \A i \in Begun : inputs[i] \in Paths
  BY <1>2, InputsArePaths DEF PlaceInv
<1>4. PlaceInv'
  <2>1. \A i \in Begun : \A q \in Paths :
           q = inputs[i] => tree'[q] # None \/ \E t \in touched' : IsPrefix(t, q)
    <3> SUFFICES ASSUME NEW i \in Begun, NEW q \in Paths, q = inputs[i], ~Disturbed(q)'
                 PROVE  tree'[q] # None
      BY DEF Disturbed
    <3>1. ~Disturbed(q) /\ tree'[q] = tree[q]
      BY UndisturbedIsSpared
    <3> QED BY <1>2, <3>1 DEF PlaceInv
  <2>2. \A i \in Begun : tree'[inputs[i]] # None \/ \E t \in touched' : IsPrefix(t, inputs[i])
    BY <1>3, <2>1
  <2> QED BY <1>1, <1>2, <2>2 DEF PlaceInv, TodoFits, Begun, Walking, Disturbed
<1>5. OpenInv'
  <2> SUFFICES ASSUME walk.stage \in {"open", "copy", "settle"},
                      NEW q \in Paths, q = walk.at, ~Disturbed(q)'
               PROVE  /\ KindAt(q)' = "file" /\ tree'[q].id = open'.id
                      /\ ~open'.hidden
                      /\ walk.stage \in {"copy", "settle"} =>
                            /\ open'.moment = files'[open'.id].data
                            /\ open'.size = Len(files'[open'.id].data)
                            /\ open'.stamp = files'[open'.id].stamp
                      /\ walk.stage = "settle" => Len(open'.copied) >= Len(files'[open'.id].data)
    <3>1. walk.stage \in {"open", "copy", "settle"} => walk.at \in Paths
      BY <1>2 DEF CaptureInv, WalkInv
    <3> QED BY <1>1, <3>1 DEF OpenInv, Disturbed, KindAt, Exists
  <2>1. /\ ~Disturbed(q) /\ q \notin touched'
        /\ tree'[q] = tree[q] /\ KindAt(q)' = KindAt(q)
        /\ KindAt(q) = "file" => files'[tree[q].id] = files[tree[q].id]
    BY UndisturbedIsSpared
  <2>2. KindAt(q) = "file" /\ tree[q].id = open.id
    BY <1>2, <2>1 DEF OpenInv
  <2>3. open.id.at = q
    BY <1>2, <2>2 DEF TreeInv
  <2>4. open' = open
    BY <2>1, <2>3 DEF Spared
  <2> QED BY <1>2, <2>1, <2>2, <2>4 DEF OpenInv
<1>6. NothingElse'
  <2> SUFFICES ASSUME NEW k \in DOMAIN entries
               PROVE  \E i \in Begun, path \in Paths : Explains(i, path, entries[k])'
    BY <1>1 DEF NothingElse, Begun
  <2>1. PICK i \in Begun, path \in Paths : Explains(i, path, entries[k])
    BY <1>2 DEF NothingElse
  <2> DEFINE e == entries[k]
  <2>2. ASSUME ~Disturbed(path)'
        PROVE  Shows(e, path) /\ tree'[path] = tree[path]
               /\ KindAt(path)' = KindAt(path) /\ BytesAt(path)' = BytesAt(path)
    BY <2>1, <2>2, UndisturbedIsSpared DEF Explains
  <2>3. Explains(i, path, entries[k])'
    BY <1>1, <2>1, <2>2 DEF Explains, Shows
  <2> QED BY <2>3
<1>7. NothingMissed'
  <2> SUFFICES ASSUME walk.stage \notin {"refused", "interrupted"},
                      NEW i \in Begun, NEW path \in Paths,
                      IsPrefix(inputs[i], path), tree'[path] # None, ~Disturbed(path)'
               PROVE  Captured(i, path)' \/ (i = walk.next - 1 /\ Pending(path)')
    BY <1>1 DEF NothingMissed, Begun, Disturbed
  <2>1. tree[path] # None /\ ~Disturbed(path)
    BY UndisturbedIsSpared
  <2>2. CASE Captured(i, path)
    <3>1. PICK k \in DOMAIN entries :
             entries[k].path = ManifestPath(inputs[i], path) /\ Shows(entries[k], path)
      BY <2>2 DEF Captured
    <3>2. tree'[path] = tree[path] /\ KindAt(path)' = KindAt(path) /\ BytesAt(path)' = BytesAt(path)
      BY UndisturbedIsSpared
    <3>3. Captured(i, path)'
      BY <1>1, <3>1, <3>2 DEF Captured, Shows
    <3> QED BY <3>3
  <2>3. CASE i = walk.next - 1 /\ Pending(path)
    BY <1>1, <2>3 DEF Pending, Walking, InTodo
  <2> QED BY <1>2, <2>1, <2>2, <2>3 DEF NothingMissed
<1>8. QuietInv'
  BY DEF QuietInv, RefusedForCause
<1> QED BY <1>4, <1>5, <1>6, <1>7, <1>8 DEF WholeInv

LEMMA WriteSpares ==
  ASSUME WholeInv, NEW id \in DOMAIN files, Write(id)
  PROVE  WholeInv'
<1>1. CaptureInv /\ TreeInv /\ CaptureInv'
  BY WriteKeeps DEF WholeInv
<1>2. PICK data : Touch(id, data)
  BY DEF Write
<1>3. /\ Active /\ touched' = touched \cup {id.at} /\ tree' = tree
      /\ UNCHANGED <<inputs, walk, entries>>
  BY DEF Write, Edit
<1>4. id.at \in Paths /\ files \in [DOMAIN files -> [data : Seq(Nat), stamp : Nat]]
  BY <1>1 DEF CaptureInv, CaptureTypeOK, FileIds
<1>5. \A f \in DOMAIN files \ {id} : files'[f] = files[f]
  BY <1>2, <1>4 DEF Touch
<1>6. open' = open \/ open.id = id
  BY <1>2 DEF Touch
<1>7. \A q \in Paths \ touched' : KindAt(q) = "file" => files'[tree[q].id] = files[tree[q].id]
  <2> SUFFICES ASSUME NEW q \in Paths \ touched', KindAt(q) = "file"
               PROVE  files'[tree[q].id] = files[tree[q].id]
    OBVIOUS
  <2>1. tree[q].id \in DOMAIN files /\ tree[q].id.at = q
    BY <1>1 DEF CaptureInv, SourceInv, TreeInv
  <2> QED BY <1>3, <1>5, <2>1
<1>8. Spared
  BY <1>3, <1>6, <1>7 DEF Spared
<1>9. TreeInv'
  <2>1. \A p \in Paths : KindAt(p)' = KindAt(p)
    BY <1>3 DEF KindAt, Exists
  <2> QED BY <1>1, <1>3, <1>4, <2>1 DEF TreeInv
<1> QED BY <1>1, <1>3, <1>8, <1>9, SparedKeeps

LEMMA UnlinkSpares ==
  ASSUME WholeInv, NEW path \in Paths, Unlink(path)
  PROVE  WholeInv'
<1>1. CaptureInv /\ TreeInv /\ CaptureInv'
  BY UnlinkKeeps DEF WholeInv
<1>2. /\ Active /\ touched' = touched \cup {path} /\ tree' = [tree EXCEPT ![path] = None]
      /\ UNCHANGED <<inputs, walk, entries>> /\ Children(path) = {} /\ tree[path] # None
  BY DEF Unlink, Edit
<1>3. /\ tree \in [Paths -> Things \cup {None}]
      /\ files \in [DOMAIN files -> [data : Seq(Nat), stamp : Nat]]
  BY <1>1 DEF CaptureInv, CaptureTypeOK
<1>4. \A q \in Paths \ {path} : tree'[q] = tree[q]
  BY <1>2, <1>3
<1>5. /\ open' = open \/ open.id.at = path
      /\ \A q \in Paths \ touched' : KindAt(q) = "file" => files'[tree[q].id] = files[tree[q].id]
  <2>1. CASE KindAt(path) = "file"
    <3> DEFINE id == tree[path].id
    <3>1. id \in DOMAIN files /\ id.at = path
      BY <1>1, <2>1 DEF CaptureInv, SourceInv, TreeInv
    <3>2. Touch(id, files[id].data)
      BY <2>1 DEF Unlink
    <3>3. \A f \in DOMAIN files \ {id} : files'[f] = files[f]
      BY <1>3, <3>2 DEF Touch
    <3>4. open' = open \/ open.id = id
      BY <3>2 DEF Touch
    <3>5. \A q \in Paths \ touched' : KindAt(q) = "file" =>
             tree[q].id \in DOMAIN files /\ tree[q].id.at = q /\ q # path
      BY <1>1, <1>2 DEF CaptureInv, SourceInv, TreeInv
    <3> HIDE DEF id
    <3> QED BY <3>1, <3>3, <3>4, <3>5
  <2>2. CASE KindAt(path) # "file"
    BY <2>2 DEF Unlink
  <2> QED BY <2>1, <2>2
<1>6. Spared
  BY <1>2, <1>4, <1>5 DEF Spared
<1>7. TreeInv'
  <2>1. ASSUME NEW p \in Paths, NEW q \in Paths, IsStrictPrefix(p, q), tree'[q] # None
        PROVE  KindAt(p)' = "directory"
    <3>1. q # path /\ tree[q] # None
      BY <1>2, <1>3, <2>1
    <3>2. KindAt(p) = "directory"
      BY <1>1, <2>1, <3>1 DEF TreeInv
    <3>3. p # path
      <4> SUFFICES ASSUME p = path PROVE FALSE
        OBVIOUS
      <4>1. PICK c \in Paths : Front(c) = path /\ IsPrefix(c, q)
        BY <2>1, ChildTowards
      <4>2. tree[c] # None
        <5>1. CASE c = q
          BY <3>1, <5>1
        <5>2. CASE c # q
          <6>1. KindAt(c) = "directory"
            BY <1>1, <3>1, <4>1, <5>2 DEF TreeInv, IsStrictPrefix
          <6> QED BY <6>1 DEF KindAt, Exists
        <5> QED BY <5>1, <5>2
      <4> QED BY <1>2, <4>1, <4>2 DEF Children
    <3> QED BY <1>4, <3>2, <3>3 DEF KindAt, Exists
  <2>2. \A p \in Paths : KindAt(p)' = "file" => KindAt(p) = "file" /\ tree'[p] = tree[p]
    BY <1>2, <1>3 DEF KindAt, Exists
  <2> QED BY <1>1, <1>2, <2>1, <2>2 DEF TreeInv
<1> QED BY <1>1, <1>2, <1>6, <1>7, SparedKeeps

LEMMA PlaceSpares ==
  ASSUME WholeInv, NEW path \in Paths, NEW kind \in {"file", "directory", "link", "special"},
         Place(path, kind)
  PROVE  WholeInv'
<1>1. CaptureInv /\ TreeInv /\ CaptureInv'
  BY PlaceKeeps DEF WholeInv
<1>2. /\ Active /\ touched' = touched \cup {path} /\ tree[path] = None
      /\ UNCHANGED <<inputs, walk, entries>> /\ open' = open /\ IsDirectory(Front(path))
  BY DEF Place, Edit, Create
<1>3. /\ tree \in [Paths -> Things \cup {None}]
      /\ files \in [DOMAIN files -> [data : Seq(Nat), stamp : Nat]]
  BY <1>1 DEF CaptureInv, CaptureTypeOK
<1> DEFINE made == IF kind = "file" THEN FileId(path, edits + 1) ELSE None
<1>4. tree' = [tree EXCEPT ![path] = [kind |-> kind, id |-> made]]
  BY DEF Place, Create
<1>5. \A f \in DOMAIN files : files'[f] = files[f]
  BY DEF Place, Create
<1>6. \A q \in Paths \ {path} : tree'[q] = tree[q]
  BY <1>3, <1>4
<1>7. Spared
  <2>1. \A q \in Paths : KindAt(q) = "file" => tree[q].id \in DOMAIN files
    BY <1>1 DEF CaptureInv, SourceInv
  <2> QED BY <1>2, <1>5, <1>6, <2>1 DEF Spared
<1>8. TreeInv'
  <2>1. ASSUME NEW p \in Paths, NEW q \in Paths, IsStrictPrefix(p, q), tree'[q] # None
        PROVE  KindAt(p)' = "directory"
    <3>1. CASE q = path
      <4>1. p # path /\ p # <<>>
        BY <2>1, <3>1, PathsAreTexts DEF IsStrictPrefix
      <4>2. KindAt(p) = "directory"
        <5>1. CASE Front(path) = <<>>
          <6>1. Len(path) = 1 /\ Len(p) \in Nat \ {0}
            <7>1. Len(Front(path)) = 0 /\ Len(Front(path)) = Len(path) - 1
              BY <5>1, FrontOfAPath
            <7> QED BY <7>1, PathsAreTexts
          <6>2. Len(p) <= Len(path) /\ Len(p) # Len(path)
            BY <2>1, <3>1, PrefixOrder DEF IsStrictPrefix
          <6> QED BY <6>1, <6>2
        <5>2. CASE Front(path) # <<>>
          <6>1. KindAt(Front(path)) = "directory"
            BY <1>2, <5>2 DEF IsDirectory
          <6>2. Front(path) \in Paths
            BY <6>1 DEF KindAt, Exists
          <6>3. IsPrefix(p, Front(path))
            BY <2>1, <3>1, <6>2, FrontIsDirectory
          <6>4. tree[Front(path)] # None
            BY <6>1 DEF KindAt, Exists
          <6> QED BY <1>1, <6>1, <6>2, <6>3, <6>4 DEF TreeInv, IsStrictPrefix
        <5> QED BY <5>1, <5>2
      <4> QED BY <1>6, <4>1, <4>2 DEF KindAt, Exists
    <3>2. CASE q # path
      <4>1. KindAt(p) = "directory"
        BY <1>1, <1>6, <2>1, <3>2 DEF TreeInv
      <4>2. p # path
        BY <1>2, <4>1 DEF KindAt, Exists
      <4> QED BY <1>6, <4>1, <4>2 DEF KindAt, Exists
    <3> QED BY <3>1, <3>2
  <2>2. ASSUME NEW p \in Paths, KindAt(p)' = "file"
        PROVE  tree'[p].id.at = p
    <3>1. CASE p = path
      <4>1. tree'[p] = [kind |-> kind, id |-> made]
        BY <1>3, <1>4, <3>1
      <4>2. kind = "file"
        BY <2>2, <4>1 DEF KindAt, Exists
      <4> QED BY <3>1, <4>1, <4>2 DEF FileId
    <3>2. CASE p # path
      <4>1. tree'[p] = tree[p]
        BY <1>6, <3>2
      <4>2. KindAt(p) = "file"
        BY <2>2, <4>1 DEF KindAt, Exists
      <4> QED BY <1>1, <4>1, <4>2 DEF TreeInv
    <3> QED BY <3>1, <3>2
  <2> QED BY <1>1, <1>2, <2>1, <2>2 DEF TreeInv
<1> QED BY <1>1, <1>2, <1>7, <1>8, SparedKeeps

\* A tick, or nothing: what the invariants speak of stands still.
LEMMA WholeStands ==
  ASSUME WholeInv, CaptureInv',
         UNCHANGED <<tree, files, touched, inputs, walk, open, entries>>
  PROVE  WholeInv'
<1>1. /\ tree' = tree /\ files' = files /\ touched' = touched /\ inputs' = inputs
      /\ walk' = walk /\ open' = open /\ entries' = entries
  OBVIOUS
<1>2. \A p : KindAt(p)' = KindAt(p)
  BY <1>1 DEF KindAt, Exists
<1>3. \A p : BytesAt(p)' = BytesAt(p) /\ (Disturbed(p)' <=> Disturbed(p))
  BY <1>1, <1>2 DEF BytesAt, Disturbed
<1>4. TreeInv'
  BY <1>1, <1>2 DEF WholeInv, TreeInv
<1>5. PlaceInv'
  BY <1>1, <1>3 DEF WholeInv, PlaceInv, Begun, Walking, TodoFits, Disturbed
<1>6. OpenInv'
  <2>1. KindAt(walk.at)' = KindAt(walk.at) /\ (Disturbed(walk.at)' <=> Disturbed(walk.at))
    BY <1>1 DEF KindAt, Exists, Disturbed
  <2> QED BY <1>1, <2>1 DEF WholeInv, OpenInv
<1>7. NothingElse'
  BY <1>1, <1>2, <1>3 DEF WholeInv, NothingElse, Explains, Shows, Begun
<1>8. NothingMissed'
  BY <1>1, <1>2, <1>3 DEF WholeInv, NothingMissed, Captured, Shows, Begun, Pending, Walking, InTodo
<1>9. QuietInv'
  <2>1. RefusedForCause'
    BY <1>1 DEF WholeInv, QuietInv, RefusedForCause, Refusable, Acceptable, Source, Holds,
                KindAt, Exists, Disturbed
  <2>2. touched = {} => DistinctEntries'
    BY <1>1 DEF WholeInv, QuietInv, DistinctEntries
  <2>3. touched = {} /\ Walking => ApartInv' /\ FreshInv'
    BY <1>1 DEF WholeInv, QuietInv, ApartInv, TodoApart, FreshInv, Awaited, UnderTodo
  <2>4. touched = {} /\ Walking => ListedInv'
    BY <1>1 DEF WholeInv, QuietInv, ListedInv, TodoListed, KindAt, Exists
  <2> QED BY <1>1, <2>1, <2>2, <2>3, <2>4 DEF QuietInv, Walking
<1> QED BY <1>4, <1>5, <1>6, <1>7, <1>8, <1>9 DEF WholeInv

-----------------------------------------------------------------------------
(***************************************************************************)
(* The walk.  Where it goes on to, of what is still to be visited.          *)
(***************************************************************************)
LEMMA OnwardsLeads ==
  ASSUME DOMAIN walk = WalkFields, NEW todo, TodoFits(todo), walk' = Onwards(todo)
  PROVE  /\ walk'.stage \in {"input", "list", "inspect"}
         /\ walk'.root = walk.root /\ walk'.next = walk.next
         /\ walk'.stage = "input" <=> todo = <<>>
         /\ walk'.stage = "input" => walk'.todo = <<>>
         /\ walk'.stage # "input" =>
               /\ 1 \in DOMAIN todo
               /\ walk'.at = todo[1].path /\ walk'.at \in Paths
               /\ IsStrictPrefix(walk.root, walk'.at)
               /\ walk'.stage = "list" <=> todo[1].directory
               /\ walk'.todo \in Seq(Listings)
               /\ \A k \in DOMAIN walk'.todo :
                     k + 1 \in DOMAIN todo /\ walk'.todo[k] = todo[k + 1]
               /\ \A k \in DOMAIN todo :
                     k = 1 \/ (k - 1 \in DOMAIN walk'.todo /\ walk'.todo[k - 1] = todo[k])
<1>1. todo \in Seq(Listings) /\ \A k \in DOMAIN todo : IsStrictPrefix(walk.root, todo[k].path)
  BY DEF TodoFits
<1>2. CASE todo = <<>>
  <2>1. walk' = [walk EXCEPT !.stage = "input", !.todo = todo]
    BY <1>2 DEF Onwards
  <2> QED BY <1>2, <2>1 DEF WalkFields
<1>3. CASE todo # <<>>
  <2>1. /\ Head(todo) = todo[1] /\ 1 \in DOMAIN todo /\ todo[1] \in Listings
        /\ Tail(todo) \in Seq(Listings)
        /\ \A k \in DOMAIN Tail(todo) : k + 1 \in DOMAIN todo /\ Tail(todo)[k] = todo[k + 1]
        /\ \A k \in DOMAIN todo :
              k = 1 \/ (k - 1 \in DOMAIN Tail(todo) /\ Tail(todo)[k - 1] = todo[k])
    BY <1>1, <1>3
  <2>2. walk' = [walk EXCEPT !.stage = IF todo[1].directory THEN "list" ELSE "inspect",
                             !.at = todo[1].path, !.todo = Tail(todo)]
    BY <1>3, <2>1 DEF Onwards
  <2>3. /\ walk'.stage = IF todo[1].directory THEN "list" ELSE "inspect"
        /\ walk'.at = todo[1].path /\ walk'.todo = Tail(todo)
        /\ walk'.root = walk.root /\ walk'.next = walk.next
    BY <2>2 DEF WalkFields
  <2>4. todo[1].path \in Paths /\ todo[1].directory \in BOOLEAN
    BY <2>1 DEF Listings
  <2> QED BY <1>1, <1>3, <2>1, <2>3, <2>4
<1> QED BY <1>2, <1>3

LEMMA OnwardsVisits ==
  ASSUME DOMAIN walk = WalkFields, walk.root \in Paths,
         NEW todo, TodoFits(todo), walk' = Onwards(todo)
  PROVE  /\ \A path \in Paths : InTodo(todo, path) => Pending(path)'
         /\ \A path \in Paths : Walking' /\ Awaited(path)' => UnderTodo(todo, path)
         /\ TodoApart(todo) /\ Walking' => ApartInv'
         /\ TodoListed(todo) /\ UNCHANGED sourceVars /\ Walking' => ListedInv'
<1>1. /\ walk'.stage \in {"input", "list", "inspect"}
      /\ walk'.root = walk.root
      /\ walk'.stage = "input" <=> todo = <<>>
      /\ Walking' <=> walk'.stage # "input"
  BY OnwardsLeads DEF Walking
<1>2. todo \in Seq(Listings) /\ \A k \in DOMAIN todo : todo[k].path \in Paths
  <2>1. todo \in Seq(Listings) /\ \A l \in Listings : l.path \in Paths
    BY DEF TodoFits, Listings
  <2> QED BY <2>1
<1>3. CASE todo = <<>>
  BY <1>1, <1>3 DEF InTodo
<1>4. CASE todo # <<>>
  <2>1. /\ 1 \in DOMAIN todo
        /\ walk'.at = todo[1].path /\ walk'.at \in Paths
        /\ IsStrictPrefix(walk.root, walk'.at)
        /\ walk'.stage = "list" <=> todo[1].directory
        /\ \A k \in DOMAIN walk'.todo : k + 1 \in DOMAIN todo /\ walk'.todo[k] = todo[k + 1]
        /\ \A k \in DOMAIN todo :
              k = 1 \/ (k - 1 \in DOMAIN walk'.todo /\ walk'.todo[k - 1] = todo[k])
    BY <1>1, <1>4, OnwardsLeads
  <2>2. DOMAIN todo \subseteq Int
    BY <1>2
  <2>3. ASSUME NEW path \in Paths, InTodo(todo, path)
        PROVE  Pending(path)'
    <3>1. PICK k \in DOMAIN todo :
             path = todo[k].path \/ (todo[k].directory /\ IsPrefix(todo[k].path, path))
      BY <2>3 DEF InTodo
    <3>2. CASE k = 1
      <4>1. IsPrefix(walk'.at, path)
        BY <2>1, <3>1, <3>2, PrefixOrder
      <4>2. path # walk'.root
        <5>1. IsPrefix(walk.root, walk'.at) /\ walk.root # walk'.at
          BY <2>1 DEF IsStrictPrefix
        <5> QED BY <1>1, <2>1, <4>1, <5>1, PrefixOrder
      <4>3. walk'.stage # "list" => path = walk'.at
        BY <2>1, <3>1, <3>2
      <4> QED BY <1>1, <1>4, <4>1, <4>2, <4>3 DEF Pending
    <3>3. CASE k # 1
      <4>1. InTodo(walk.todo, path)'
        BY <2>1, <3>1, <3>3 DEF InTodo
      <4> QED BY <1>1, <1>4, <4>1 DEF Pending
    <3> QED BY <3>2, <3>3
  <2>4. ASSUME NEW path \in Paths, Awaited(path)'
        PROVE  UnderTodo(todo, path)
    BY <2>1, <2>4 DEF Awaited, UnderTodo
  <2>5. ASSUME TodoApart(todo)
        PROVE  ApartInv'
    <3>1. TodoApart(walk.todo)'
      <4> SUFFICES ASSUME NEW j \in DOMAIN walk'.todo, NEW k \in DOMAIN walk'.todo,
                          IsPrefix(walk'.todo[j].path, walk'.todo[k].path)
                   PROVE  j = k
        BY DEF TodoApart
      <4>1. j + 1 = k + 1 /\ j + 1 \in Int /\ k + 1 \in Int
        BY <2>1, <2>2, <2>5 DEF TodoApart
      <4>2. walk'.todo \in Seq(Listings)
        BY <1>1, <1>4, OnwardsLeads
      <4>3. j \in Int /\ k \in Int
        BY <4>2
      <4> QED BY <4>1, <4>3
    <3>2. ASSUME NEW k \in DOMAIN walk'.todo
          PROVE  ~IsPrefix(walk'.todo[k].path, walk'.at) /\ ~IsPrefix(walk'.at, walk'.todo[k].path)
      <4>1. walk'.todo \in Seq(Listings)
        BY <1>1, <1>4, OnwardsLeads
      <4>2. k + 1 # 1 /\ k + 1 \in DOMAIN todo /\ walk'.todo[k] = todo[k + 1]
        BY <2>1, <4>1
      <4> QED BY <2>1, <2>5, <4>2 DEF TodoApart
    <3> QED BY <3>1, <3>2 DEF ApartInv
  <2>6. ASSUME TodoListed(todo), UNCHANGED sourceVars
        PROVE  ListedInv'
    <3>1. tree' = tree /\ \A p \in Paths : KindAt(p)' = KindAt(p)
      BY <2>6 DEF sourceVars, KindAt, Exists
    <3>2. \A p \in Paths : p = walk'.at => (KindAt(walk.at)' = KindAt(p))
      BY <3>1 DEF KindAt, Exists
    <3>3. TodoListed(walk.todo)'
      <4>1. \A k \in DOMAIN walk'.todo : walk'.todo[k].path \in Paths
        BY <1>2, <2>1
      <4>2. \A k \in DOMAIN walk'.todo :
              /\ tree[walk'.todo[k].path] # None
              /\ walk'.todo[k].directory <=> KindAt(walk.todo[k].path)' = "directory"
        BY <1>2, <2>1, <2>6, <3>1, <4>1 DEF TodoListed, KindAt, Exists
      <4> QED BY <3>1, <4>2 DEF TodoListed
    <3>4. tree[walk'.at] # None /\ (todo[1].directory <=> KindAt(todo[1].path) = "directory")
      BY <2>1, <2>6 DEF TodoListed
    <3> QED BY <1>1, <2>1, <3>1, <3>2, <3>3, <3>4 DEF ListedInv
  <2> QED BY <2>3, <2>4, <2>5, <2>6
<1> QED BY <1>3, <1>4

LEMMA SourceStands ==
  ASSUME UNCHANGED sourceVars
  PROVE  /\ tree' = tree /\ files' = files /\ touched' = touched
         /\ \A p : /\ KindAt(p)' = KindAt(p) /\ BytesAt(p)' = BytesAt(p)
                   /\ Disturbed(p)' <=> Disturbed(p)
         /\ \A p, e : Shows(e, p)' <=> Shows(e, p)
<1>1. tree' = tree /\ files' = files /\ touched' = touched
  BY DEF sourceVars
<1>2. \A p : KindAt(p)' = KindAt(p) /\ (Disturbed(p)' <=> Disturbed(p))
  BY <1>1 DEF KindAt, Exists, Disturbed
<1>3. \A p : BytesAt(p)' = BytesAt(p)
  BY <1>1, <1>2 DEF BytesAt
<1> QED BY <1>1, <1>2, <1>3 DEF Shows

LEMMA TreeStands ==
  ASSUME TreeInv, UNCHANGED sourceVars
  PROVE  TreeInv'
BY SourceStands DEF TreeInv

\* The place of the walk, when it has a stage of an entry under the same input.
LEMMA PlaceMoves ==
  ASSUME WholeInv, UNCHANGED <<sourceVars, inputs>>,
         walk'.next = walk.next, walk'.root = walk.root,
         walk'.stage = "done" => walk.next = Len(inputs) + 1,
         walk'.stage \in {"input", "done"} => walk'.todo = <<>>,
         Walking' => /\ Walking /\ walk'.at \in Paths /\ IsPrefix(walk.root, walk'.at)
                     /\ walk'.todo \in Seq(Listings)
                     /\ \A k \in DOMAIN walk'.todo : IsStrictPrefix(walk.root, walk'.todo[k].path),
         walk'.stage = "inspect" => walk'.at # walk.root
  PROVE  PlaceInv'
<1>1. /\ inputs' = inputs /\ Begun' = Begun /\ tree' = tree /\ touched' = touched /\ PlaceInv
  BY SourceStands DEF Begun, WholeInv
<1>2. \A i \in Begun : tree'[inputs[i]] # None \/ Disturbed(inputs[i])'
  BY <1>1 DEF PlaceInv, Disturbed
<1>3. Walking' => TodoFits(walk.todo)'
  BY DEF TodoFits
<1> QED BY <1>1, <1>2, <1>3 DEF PlaceInv

\* A step of the walk before an entry is complete.
LEMMA WalkAdvances ==
  ASSUME WholeInv, CaptureInv', UNCHANGED <<sourceVars, inputs, entries>>,
         walk'.next = walk.next, walk'.root = walk.root,
         Walking, walk'.stage \notin {"refused", "interrupted"},
         PlaceInv', OpenInv',
         \A path \in Paths :
            Pending(path) /\ IsPrefix(walk.root, path) /\ tree[path] # None /\ ~Disturbed(path) =>
               Pending(path)',
         touched = {} /\ Walking' => ListedInv' /\ ApartInv',
         \A path \in Paths :
            IsPrefix(walk.root, path) /\ Walking' /\ Awaited(path)' => Awaited(path)
  PROVE  WholeInv'
<1>1. /\ inputs' = inputs /\ entries' = entries /\ Begun' = Begun /\ TreeInv' /\ touched' = touched
  BY TreeStands, SourceStands DEF Begun, WholeInv
<1>2. /\ NothingElse /\ NothingMissed /\ QuietInv /\ PlaceInv
  BY DEF WholeInv
<1>3. NothingElse'
  <2> SUFFICES ASSUME NEW k \in DOMAIN entries
               PROVE  \E i \in Begun, path \in Paths : Explains(i, path, entries[k])'
    BY <1>1 DEF NothingElse
  <2>1. PICK i \in Begun, path \in Paths : Explains(i, path, entries[k])
    BY <1>2 DEF NothingElse
  <2>2. Explains(i, path, entries[k])'
    BY <1>1, <2>1, SourceStands DEF Explains, Shows
  <2> QED BY <2>2
<1>4. NothingMissed'
  <2> SUFFICES ASSUME NEW i \in Begun, NEW path \in Paths,
                      IsPrefix(inputs[i], path), tree[path] # None, ~Disturbed(path)
               PROVE  Captured(i, path)' \/ (i = walk.next - 1 /\ Pending(path)')
    BY <1>1, SourceStands DEF NothingMissed
  <2>1. Captured(i, path) => Captured(i, path)'
    BY <1>1, SourceStands DEF Captured, Shows
  <2>2. i = walk.next - 1 => IsPrefix(walk.root, path)
    BY <1>2 DEF PlaceInv
  <2>3. walk.stage \notin {"refused", "interrupted"}
    BY DEF Walking
  <2> QED BY <1>2, <2>1, <2>2, <2>3 DEF NothingMissed
<1>5. QuietInv'
  <2>1. RefusedForCause'
    BY DEF RefusedForCause
  <2>2. touched = {} => DistinctEntries'
    BY <1>1, <1>2 DEF QuietInv, DistinctEntries
  <2>3. touched = {} /\ Walking' => FreshInv'
    BY <1>1, <1>2 DEF QuietInv, FreshInv
  <2> QED BY <1>1, <2>1, <2>2, <2>3 DEF QuietInv
<1> QED BY <1>1, <1>3, <1>4, <1>5 DEF WholeInv

LEMMA OneMoreAtTheEnd ==
  ASSUME NEW X, NEW s \in Seq(X), NEW x \in X
  PROVE  LET t == Append(s, x)
         IN  /\ DOMAIN s \subseteq DOMAIN t
             /\ \A k \in DOMAIN s : t[k] = s[k]
             /\ \A k \in DOMAIN t : k \in DOMAIN s \/ (k = Len(s) + 1 /\ t[k] = x)
             /\ Len(s) + 1 \in DOMAIN t /\ t[Len(s) + 1] = x
OBVIOUS

\* The step that completes the entry of where the walk is.
LEMMA WalkCaptures ==
  ASSUME WholeInv, CaptureInv', UNCHANGED <<sourceVars, inputs>>,
         NEW e \in Entries, entries' = Append(entries, e),
         walk'.next = walk.next, walk'.root = walk.root,
         Walking, walk'.stage \notin {"refused", "interrupted"},
         PlaceInv', OpenInv',
         e.path = ManifestPath(walk.root, walk.at),
         Disturbed(walk.at) \/ Shows(e, walk.at),
         \A path \in Paths :
            Pending(path) /\ IsPrefix(walk.root, path) /\ tree[path] # None /\ ~Disturbed(path) =>
               path = walk.at \/ Pending(path)',
         Awaited(walk.at),
         touched = {} /\ Walking' => ListedInv' /\ ApartInv',
         touched = {} => \A path \in Paths :
            IsPrefix(walk.root, path) /\ Walking' /\ Awaited(path)' =>
               Awaited(path) /\ path # walk.at
  PROVE  WholeInv'
<1>1. /\ inputs' = inputs /\ Begun' = Begun /\ TreeInv' /\ touched' = touched
  BY TreeStands, SourceStands DEF Begun, WholeInv
<1>2. /\ CaptureInv /\ NothingElse /\ NothingMissed /\ QuietInv /\ PlaceInv
  BY DEF WholeInv
<1>3. /\ entries \in Seq(Entries)
      /\ DOMAIN entries \subseteq DOMAIN entries' /\ \A k \in DOMAIN entries : entries'[k] = entries[k]
      /\ Len(entries) + 1 \in DOMAIN entries' /\ entries'[Len(entries) + 1] = e
      /\ \A k \in DOMAIN entries' : k \in DOMAIN entries \/ k = Len(entries) + 1
  <2>1. entries \in Seq(Entries)
    BY <1>2 DEF CaptureInv, CaptureTypeOK
  <2> QED BY <2>1
<1>4. /\ walk.next - 1 \in Begun /\ walk.root = inputs[walk.next - 1]
      /\ walk.at \in Paths /\ IsPrefix(walk.root, walk.at) /\ walk.root \in Paths
  <2>1. walk.next \in Nat \ {0} /\ walk.next > 1
    BY <1>2, InputsArePaths DEF PlaceInv
  <2>2. walk.next - 1 \in Begun
    BY <2>1 DEF Begun
  <2>3. walk.root \in Paths
    BY <1>2 DEF CaptureInv, WalkInv, Walking
  <2> QED BY <1>2, <2>2, <2>3 DEF PlaceInv
<1>5. NothingElse'
  <2> SUFFICES ASSUME NEW k \in DOMAIN entries'
               PROVE  \E i \in Begun, path \in Paths : Explains(i, path, entries[k])'
    BY <1>1 DEF NothingElse
  <2>1. CASE k \in DOMAIN entries
    <3>1. PICK i \in Begun, path \in Paths : Explains(i, path, entries[k])
      BY <1>2, <2>1 DEF NothingElse
    <3>2. Explains(i, path, entries[k])'
      BY <1>1, <1>3, <2>1, <3>1, SourceStands DEF Explains, Shows
    <3> QED BY <3>2
  <2>2. CASE k = Len(entries) + 1
    <3>1. Explains(walk.next - 1, walk.at, e)
      BY <1>4 DEF Explains
    <3>2. \E path \in Paths : path = walk.at
      BY <1>4
    <3>3. PICK path \in Paths : path = walk.at
      BY <3>2
    <3>4. PICK i \in Begun : i = walk.next - 1
      BY <1>4
    <3>5. Explains(i, path, entries[k])'
      BY <1>1, <1>3, <2>2, <3>1, <3>3, <3>4, SourceStands DEF Explains, Shows
    <3> QED BY <3>5
  <2> QED BY <1>3, <2>1, <2>2
<1>6. NothingMissed'
  <2> SUFFICES ASSUME NEW i \in Begun, NEW path \in Paths,
                      IsPrefix(inputs[i], path), tree[path] # None, ~Disturbed(path)
               PROVE  Captured(i, path)' \/ (i = walk.next - 1 /\ Pending(path)')
    BY <1>1, SourceStands DEF NothingMissed
  <2>1. Captured(i, path) => Captured(i, path)'
    BY <1>1, <1>3, SourceStands DEF Captured, Shows
  <2>2. i = walk.next - 1 => IsPrefix(walk.root, path)
    BY <1>4
  <2>3. walk.stage \notin {"refused", "interrupted"}
    BY DEF Walking
  <2>4. CASE i = walk.next - 1 /\ path = walk.at
    <3>1. Shows(e, path)' /\ e.path = ManifestPath(inputs[i], path)
      BY <1>4, <2>4, SourceStands
    <3> QED BY <1>1, <1>3, <3>1 DEF Captured, Shows
  <2> QED BY <1>2, <2>1, <2>2, <2>3, <2>4 DEF NothingMissed
<1>7. QuietInv'
  <2>1. RefusedForCause'
    BY DEF RefusedForCause
  <2>2. ASSUME touched = {}
        PROVE  DistinctEntries'
    <3>1. Walking /\ FreshInv /\ DistinctEntries
      BY <1>2, <2>2 DEF QuietInv
    <3>2. \A k \in DOMAIN entries : entries[k].path # e.path
      BY <1>4, <3>1 DEF FreshInv
    <3> QED BY <1>3, <3>1, <3>2 DEF DistinctEntries
  <2>3. ASSUME touched = {}, Walking'
        PROVE  FreshInv'
    <3> SUFFICES ASSUME NEW path \in Paths, NEW k \in DOMAIN entries',
                        IsPrefix(walk.root, path), Awaited(path)'
                 PROVE  entries'[k].path # ManifestPath(walk.root, path)
      BY DEF FreshInv
    <3>1. Awaited(path) /\ path # walk.at
      BY <2>3
    <3>2. CASE k \in DOMAIN entries
      BY <1>2, <1>3, <2>3, <3>1, <3>2 DEF QuietInv, FreshInv
    <3>3. CASE k = Len(entries) + 1
      BY <1>3, <1>4, <3>1, <3>3, ManifestPathTells
    <3> QED BY <1>3, <3>2, <3>3
  <2> QED BY <1>1, <2>1, <2>2, <2>3 DEF QuietInv
<1> QED BY <1>1, <1>5, <1>6, <1>7 DEF WholeInv

\* A refusal, or an interruption: what was captured stays.
LEMMA WalkEnds ==
  ASSUME WholeInv, CaptureInv', UNCHANGED <<sourceVars, inputs, entries>>,
         walk'.next = walk.next, walk'.root = walk.root,
         walk'.stage \in {"refused", "interrupted"},
         walk'.stage = "refused" /\ touched = {} => Refusable
  PROVE  WholeInv'
<1>1. /\ inputs' = inputs /\ entries' = entries /\ Begun' = Begun /\ TreeInv' /\ touched' = touched
      /\ tree' = tree /\ files' = files
  BY TreeStands, SourceStands DEF Begun, WholeInv
<1>2. ~Walking'
  BY DEF Walking
<1>3. PlaceInv'
  BY <1>2, PlaceMoves
<1>4. OpenInv' /\ NothingMissed'
  BY DEF OpenInv, NothingMissed
<1>5. NothingElse'
  <2> SUFFICES ASSUME NEW k \in DOMAIN entries
               PROVE  \E i \in Begun, path \in Paths : Explains(i, path, entries[k])'
    BY <1>1 DEF NothingElse
  <2>1. PICK i \in Begun, path \in Paths : Explains(i, path, entries[k])
    BY DEF NothingElse, WholeInv
  <2>2. Explains(i, path, entries[k])'
    BY <1>1, <2>1, SourceStands DEF Explains, Shows
  <2> QED BY <2>2
<1>6. QuietInv'
  <2>1. RefusedForCause'
    BY <1>1 DEF RefusedForCause, Refusable, Acceptable, Source, Holds, KindAt, Exists, Disturbed
  <2>2. touched = {} => DistinctEntries'
    BY <1>1 DEF WholeInv, QuietInv, DistinctEntries
  <2> QED BY <1>1, <1>2, <2>1, <2>2 DEF QuietInv
<1> QED BY <1>1, <1>3, <1>4, <1>5, <1>6 DEF WholeInv

-----------------------------------------------------------------------------
(***************************************************************************)
(* What the inputs hold.  While nothing is touched every entry is of it, so *)
(* more entries or more bytes than a limit are more than it in the source.  *)
(***************************************************************************)
LEMMA CountingUp ==
  ASSUME NEW n \in Nat
  PROVE  IsFiniteSet(1..n) /\ Cardinality(1..n) = n
BY FS_Interval

ItemAt(input, path) ==
    [path |-> ManifestPath(input, path), kind |-> KindAt(path), data |-> BytesAt(path)]
Bare(e) == [path |-> e.path, kind |-> e.kind, data |-> e.data]

LEMMA SourceHasItems ==
  ASSUME CaptureInv, NEW i \in 1..Len(inputs), NEW path \in Paths,
         IsPrefix(inputs[i], path), tree[path] # None
  PROVE  ItemAt(inputs[i], path) \in Source
<1>1. inputs[i] \in Range(inputs)
  BY InputsArePaths DEF Range
<1>2. ItemAt(inputs[i], path) \in Holds(inputs[i])
  BY DEF Holds, ItemAt, BytesAt
<1> QED BY <1>1, <1>2 DEF Source

LEMMA SourceIsItems ==
  ASSUME CaptureInv, NEW item \in Source
  PROVE  \E i \in 1..Len(inputs), path \in Paths :
            /\ IsPrefix(inputs[i], path) /\ tree[path] # None
            /\ item = ItemAt(inputs[i], path)
<1>1. PICK input \in Range(inputs) : item \in Holds(input)
  BY DEF Source
<1>2. PICK i \in 1..Len(inputs) : input = inputs[i]
  BY <1>1, InputsArePaths DEF Range
<1>3. PICK path \in {q \in Paths : IsPrefix(input, q) /\ tree[q] # None} :
         item = ItemAt(input, path)
  BY <1>1 DEF Holds, ItemAt, BytesAt
<1> QED BY <1>2, <1>3

LEMMA SourceIsFinite ==
  ASSUME CaptureInv
  PROVE  IsFiniteSet(Source) /\ \A item \in Source : item.data \in Seq(Nat)
<1>1. Len(inputs) \in Nat /\ inputs \in Seq(Paths)
  BY InputsArePaths
<1> DEFINE D == {d \in (1..Len(inputs)) \X Paths :
                   IsPrefix(inputs[d[1]], d[2]) /\ tree[d[2]] # None}
           g == [d \in D |-> ItemAt(inputs[d[1]], d[2])]
<1>2. IsFiniteSet(D)
  <2>1. IsFiniteSet((1..Len(inputs)) \X Paths)
    <3>1. IsFiniteSet(1..Len(inputs)) /\ IsFiniteSet(Paths)
      BY <1>1, CountingUp, CaptureAssumption
    <3> QED BY <3>1, FS_Product
  <2> QED BY <2>1, FS_Subset
<1>3. g \in Surjection(D, Source)
  <2>1. \A d \in D : g[d] \in Source
    BY SourceHasItems
  <2>2. ASSUME NEW item \in Source
        PROVE  \E d \in D : g[d] = item
    <3>1. PICK i \in 1..Len(inputs), path \in Paths :
             /\ IsPrefix(inputs[i], path) /\ tree[path] # None
             /\ item = ItemAt(inputs[i], path)
      BY SourceIsItems
    <3>2. <<i, path>> \in D /\ g[<<i, path>>] = item
      BY <3>1
    <3> QED BY <3>2
  <2>3. g \in [D -> Source]
    BY <2>1
  <2> HIDE DEF g, D
  <2> QED BY <2>2, <2>3 DEF Surjection
<1>4. IsFiniteSet(Source)
  <2> HIDE DEF g, D
  <2> QED BY <1>2, <1>3, FS_Surjection
<1>5. ASSUME NEW item \in Source
      PROVE  item.data \in Seq(Nat)
  <2>1. PICK i \in 1..Len(inputs), path \in Paths : item = ItemAt(inputs[i], path)
    BY SourceIsItems
  <2>2. item.data = BytesAt(path)
    BY <2>1 DEF ItemAt
  <2>3. KindAt(path) = "file" => files[tree[path].id].data \in Seq(Nat)
    BY DEF CaptureInv, CaptureTypeOK, SourceInv
  <2> QED BY <2>2, <2>3 DEF BytesAt
<1> QED BY <1>4, <1>5

\* The blocks that BytesOf counts.
Blocks(found) == UNION {{i} \X DOMAIN found[i].data : i \in DOMAIN found}
Self(items) == [item \in items |-> item]

LEMMA BlocksAreFinite ==
  ASSUME NEW found, IsFiniteSet(DOMAIN found),
         \A i \in DOMAIN found : found[i].data \in Seq(Nat)
  PROVE  IsFiniteSet(Blocks(found)) /\ Cardinality(Blocks(found)) \in Nat
<1> DEFINE Of(i) == {i} \X DOMAIN found[i].data
           U == {Of(i) : i \in DOMAIN found}
           g == [i \in DOMAIN found |-> Of(i)]
<1>1. \A i \in DOMAIN found : IsFiniteSet(Of(i))
  <2> SUFFICES ASSUME NEW i \in DOMAIN found PROVE IsFiniteSet(Of(i))
    OBVIOUS
  <2>1. DOMAIN found[i].data = 1..Len(found[i].data) /\ Len(found[i].data) \in Nat
    OBVIOUS
  <2>2. IsFiniteSet(DOMAIN found[i].data) /\ IsFiniteSet({i})
    BY <2>1, CountingUp, FS_Singleton
  <2> QED BY <2>2, FS_Product
<1> HIDE DEF Of
<1>2. g \in Surjection(DOMAIN found, U)
  BY DEF Surjection
<1>3. IsFiniteSet(U)
  <2> HIDE DEF g, U
  <2> QED BY <1>2, FS_Surjection
<1>4. \A T \in U : IsFiniteSet(T)
  BY <1>1
<1>5. IsFiniteSet(UNION U)
  <2> HIDE DEF U
  <2> QED BY <1>3, <1>4, FS_UNION
<1>6. Blocks(found) = UNION U
  BY DEF Blocks, Of
<1> QED BY <1>5, <1>6, FS_CardinalityType

LEMMA EntriesFitTheSource ==
  ASSUME CaptureInv, NEW found \in Seq(Entries),
         \A k \in DOMAIN found : Bare(found[k]) \in Source,
         \A j, k \in DOMAIN found : found[j].path = found[k].path => j = k
  PROVE  /\ Cardinality(Source) \in Nat /\ Len(found) <= Cardinality(Source)
         /\ BytesOf(found) <= BytesOf(Self(Source)) /\ BytesOf(found) \in Nat
         /\ BytesOf(Self(Source)) \in Nat
<1>1. IsFiniteSet(Source) /\ Cardinality(Source) \in Nat /\ \A item \in Source : item.data \in Seq(Nat)
  BY SourceIsFinite, FS_CardinalityType
<1>2. DOMAIN found = 1..Len(found) /\ Len(found) \in Nat
  OBVIOUS
<1> DEFINE g == [k \in DOMAIN found |-> Bare(found[k])]
<1>3. \A j, k \in DOMAIN found : Bare(found[j]) = Bare(found[k]) => j = k
  BY DEF Bare
<1>4. g \in Injection(DOMAIN found, Source)
  BY <1>3 DEF Injection, IsInjective
<1>5. Len(found) <= Cardinality(Source)
  <2>1. Cardinality(DOMAIN found) = Len(found)
    BY <1>2, CountingUp
  <2>2. Cardinality(DOMAIN found) <= Cardinality(Source)
    <3> HIDE DEF g
    <3> QED BY <1>1, <1>4, FS_Injection
  <2> QED BY <2>1, <2>2
<1> DEFINE A == Blocks(found)
           B == Blocks(Self(Source))
           h == [a \in A |-> <<Bare(found[a[1]]), a[2]>>]
<1>6. IsFiniteSet(A) /\ Cardinality(A) \in Nat
  <2>1. \A k \in DOMAIN found : found[k].data \in Seq(Nat)
    <3>1. \A e \in Entries : e.data \in Seq(Nat)
      BY DEF Entries
    <3> QED BY <3>1
  <2>2. IsFiniteSet(DOMAIN found)
    BY <1>2, CountingUp
  <2> QED BY <2>1, <2>2, BlocksAreFinite
<1>7. IsFiniteSet(B) /\ Cardinality(B) \in Nat
  <2>1. DOMAIN Self(Source) = Source /\ \A item \in Source : Self(Source)[item] = item
    BY DEF Self
  <2> QED BY <1>1, <2>1, BlocksAreFinite
<1>8. ASSUME NEW a \in A
      PROVE  /\ a[1] \in DOMAIN found /\ a[2] \in DOMAIN found[a[1]].data /\ a = <<a[1], a[2]>>
             /\ h[a] \in B
  <2>1. a[1] \in DOMAIN found /\ a[2] \in DOMAIN found[a[1]].data /\ a = <<a[1], a[2]>>
    BY DEF Blocks
  <2> DEFINE item == Bare(found[a[1]])
  <2>2. item \in Source /\ item.data = found[a[1]].data
    BY <2>1 DEF Bare
  <2>3. <<item, a[2]>> \in {item} \X DOMAIN Self(Source)[item].data
    BY <2>1, <2>2 DEF Self
  <2>4. item \in DOMAIN Self(Source)
    BY <2>2 DEF Self
  <2>5. <<item, a[2]>> \in B
    BY <2>3, <2>4 DEF Blocks
  <2> QED BY <2>1, <2>5
<1>9. ASSUME NEW a \in A, NEW b \in A, h[a] = h[b]
      PROVE  a = b
  <2>1. Bare(found[a[1]]) = Bare(found[b[1]]) /\ a[2] = b[2]
    BY <1>9
  <2> QED BY <1>3, <1>8, <2>1
<1> HIDE DEF A, B
<1>10. h \in Injection(A, B)
  BY <1>8, <1>9 DEF Injection, IsInjective
<1>11. Cardinality(A) <= Cardinality(B)
  <2> HIDE DEF h
  <2> QED BY <1>7, <1>10, FS_Injection
<1>12. BytesOf(found) = Cardinality(A) /\ BytesOf(Self(Source)) = Cardinality(B)
  BY DEF BytesOf, Blocks, A, B
<1> QED BY <1>1, <1>5, <1>6, <1>7, <1>11, <1>12

LEMMA OneFileFits ==
  ASSUME CaptureInv, NEW item \in Source
  PROVE  Len(item.data) <= BytesOf(Self(Source)) /\ BytesOf(Self(Source)) \in Nat
<1>1. IsFiniteSet(Source) /\ item.data \in Seq(Nat) /\ \A x \in Source : x.data \in Seq(Nat)
  BY SourceIsFinite
<1> DEFINE B == Blocks(Self(Source))
           n == Len(item.data)
           g == [k \in 1..n |-> <<item, k>>]
<1>2. IsFiniteSet(B) /\ Cardinality(B) \in Nat
  <2>1. DOMAIN Self(Source) = Source /\ \A x \in Source : Self(Source)[x] = x
    BY DEF Self
  <2> QED BY <1>1, <2>1, BlocksAreFinite
<1>3. n \in Nat /\ DOMAIN item.data = 1..n
  BY <1>1
<1>4. \A k \in 1..n : <<item, k>> \in B
  <2>1. item \in DOMAIN Self(Source) /\ Self(Source)[item] = item
    BY DEF Self
  <2> QED BY <1>3, <2>1 DEF Blocks
<1> HIDE DEF n, B
<1>5. g \in Injection(1..n, B)
  BY <1>4 DEF Injection, IsInjective
<1>6. Cardinality(1..n) <= Cardinality(B) /\ Cardinality(1..n) = n
  <2> HIDE DEF g
  <2> QED BY <1>2, <1>3, <1>5, FS_Injection, CountingUp
<1>7. BytesOf(Self(Source)) = Cardinality(B)
  BY DEF BytesOf, Blocks, B
<1> QED BY <1>2, <1>6, <1>7 DEF n

\* Before anything is touched the entries are of the source.
LEMMA EntriesAreOfTheSource ==
  ASSUME WholeInv, touched = {}
  PROVE  \A k \in DOMAIN entries : Bare(entries[k]) \in Source
<1> SUFFICES ASSUME NEW k \in DOMAIN entries PROVE Bare(entries[k]) \in Source
  OBVIOUS
<1>1. PICK i \in Begun, path \in Paths : Explains(i, path, entries[k])
  BY DEF WholeInv, NothingElse
<1>2. Shows(entries[k], path)
  BY <1>1 DEF Explains, Disturbed
<1>3. i \in 1..Len(inputs)
  BY InputsArePaths DEF WholeInv, PlaceInv
<1>4. Bare(entries[k]) = ItemAt(inputs[i], path)
  BY <1>1, <1>2 DEF Bare, ItemAt, Explains, Shows
<1> QED BY <1>1, <1>2, <1>3, <1>4, SourceHasItems DEF Explains, Shows, WholeInv

-----------------------------------------------------------------------------
(***************************************************************************)
(* The steps of the walk, one by one.                                       *)
(***************************************************************************)
LEMMA RefuseEnds ==
  ASSUME WholeInv, Refuse, touched = {} => Refusable
  PROVE  WholeInv'
<1>1. CaptureInv /\ CaptureInv' /\ DOMAIN walk = WalkFields
  BY RefuseKeeps DEF WholeInv, CaptureInv, CaptureTypeOK
<1>2. /\ walk'.stage = "refused" /\ walk'.next = walk.next /\ walk'.root = walk.root
      /\ UNCHANGED <<sourceVars, inputs, entries>>
  BY <1>1, WalkMoves DEF Refuse
<1> QED BY <1>1, <1>2, WalkEnds

LEMMA InterruptEnds ==
  ASSUME WholeInv, CaptureInv', Interrupt
  PROVE  WholeInv'
<1>1. DOMAIN walk = WalkFields
  BY DEF WholeInv, CaptureInv, CaptureTypeOK
<1>2. /\ walk'.stage = "interrupted" /\ walk'.next = walk.next /\ walk'.root = walk.root
      /\ UNCHANGED <<sourceVars, inputs, entries>>
  BY <1>1, WalkMoves DEF Interrupt
<1> QED BY <1>2, WalkEnds

\* From an entry's inspection to the end of its copy the walk stays at it.
LEMMA StageAdvances ==
  ASSUME WholeInv, CaptureInv', UNCHANGED <<sourceVars, inputs, entries>>,
         walk.stage \in {"inspect", "before", "open", "copy", "settle"},
         walk'.stage \in {"before", "open", "copy", "settle"},
         walk'.next = walk.next, walk'.root = walk.root, walk'.at = walk.at,
         walk'.todo = walk.todo,
         OpenInv', walk'.stage = "before" => KindAt(walk.at) = "file"
  PROVE  WholeInv'
<1>1. Walking /\ Walking' /\ PlaceInv /\ QuietInv
  BY DEF Walking, WholeInv
<1>2. PlaceInv'
  <2>1. /\ walk.at \in Paths /\ IsPrefix(walk.root, walk.at) /\ walk.todo \in Seq(Listings)
        /\ \A k \in DOMAIN walk.todo : IsStrictPrefix(walk.root, walk.todo[k].path)
    BY <1>1 DEF PlaceInv, TodoFits
  <2> QED BY <1>1, <2>1, PlaceMoves
<1>3. ASSUME NEW path \in Paths, Pending(path)
      PROVE  Pending(path)'
  BY <1>1, <1>3 DEF Pending, InTodo
<1>4. touched = {} => ListedInv' /\ ApartInv'
  <2>1. ASSUME touched = {} PROVE ListedInv /\ ApartInv
    BY <1>1, <2>1 DEF QuietInv
  <2>2. ApartInv => ApartInv'
    BY DEF ApartInv, TodoApart
  <2>3. ListedInv => TodoListed(walk.todo)'
    BY SourceStands DEF ListedInv, TodoListed, KindAt, Exists
  <2>4. walk'.stage = "before" => KindAt(walk.at)' = "file"
    BY SourceStands DEF KindAt, Exists
  <2>5. ListedInv => ListedInv'
    BY <2>3, <2>4 DEF ListedInv
  <2> QED BY <2>1, <2>2, <2>5
<1>5. \A path \in Paths : Awaited(path)' => Awaited(path)
  BY DEF Awaited, UnderTodo
<1> QED BY <1>1, <1>2, <1>3, <1>4, <1>5, WalkAdvances

LEMMA BeforeExact ==
  ASSUME WholeInv, Before
  PROVE  WholeInv'
<1>1. CaptureInv /\ CaptureInv' /\ DOMAIN walk = WalkFields /\ walk.stage = "before"
  BY BeforeKeeps DEF WholeInv, CaptureInv, CaptureTypeOK, Before
<1>2. CASE KindAt(walk.at) = "file"
  <2>1. /\ walk' = [walk EXCEPT !.stage = "open"] /\ open'.id = tree[walk.at].id
        /\ open'.hidden = FALSE
        /\ UNCHANGED <<sourceVars, inputs, entries>>
    BY <1>2 DEF Before
  <2>2. /\ walk'.stage = "open" /\ walk'.next = walk.next /\ walk'.root = walk.root
        /\ walk'.at = walk.at /\ walk'.todo = walk.todo
    BY <1>1, <2>1, WalkMoves
  <2>3. OpenInv'
    <3>1. KindAt(walk.at)' = "file" /\ tree' = tree
      BY <1>2, <2>1, <2>2, SourceStands DEF KindAt, Exists
    <3> QED BY <2>1, <2>2, <3>1 DEF OpenInv
  <2> QED BY <1>1, <2>1, <2>2, <2>3, StageAdvances
<1>3. CASE KindAt(walk.at) # "file"
  <2>1. Refuse
    BY <1>3 DEF Before
  <2>2. touched # {}
    BY <1>1, <1>3 DEF WholeInv, QuietInv, ListedInv, Walking
  <2> QED BY <2>1, <2>2, RefuseEnds
<1> QED BY <1>2, <1>3

LEMMA OpenExact ==
  ASSUME WholeInv, Open
  PROVE  WholeInv'
<1>1. /\ CaptureInv /\ CaptureInv' /\ DOMAIN walk = WalkFields /\ walk.stage = "open"
      /\ open \in Captures
  BY OpenKeeps DEF WholeInv, CaptureInv, CaptureTypeOK, WalkInv, Open
<1>2. CASE KindAt(walk.at) = "file" /\ tree[walk.at].id = open.id
  <2> DEFINE file == files[open.id]
  <2>1. /\ walk' = [walk EXCEPT !.stage = "copy"]
        /\ open' = [open EXCEPT !.size = Len(file.data), !.stamp = file.stamp,
                                !.moment = file.data]
        /\ UNCHANGED <<sourceVars, inputs, entries>>
    BY <1>2 DEF Open
  <2>2. /\ walk'.stage = "copy" /\ walk'.next = walk.next /\ walk'.root = walk.root
        /\ walk'.at = walk.at /\ walk'.todo = walk.todo
    BY <1>1, <2>1, WalkMoves
  <2>3. OpenInv'
    <3>1. KindAt(walk.at)' = "file" /\ tree' = tree /\ files' = files
      BY <1>2, <2>1, <2>2, SourceStands DEF KindAt, Exists
    <3>2. Disturbed(walk.at)' <=> Disturbed(walk.at)
      BY <2>1, <2>2, SourceStands DEF Disturbed
    <3>3. /\ open'.id = open.id /\ open'.moment = file.data /\ open'.size = Len(file.data)
          /\ open'.stamp = file.stamp /\ open'.hidden = open.hidden
      BY <1>1, <2>1 DEF Captures
    <3> QED BY <1>1, <1>2, <2>2, <3>1, <3>2, <3>3 DEF OpenInv, WholeInv
  <2> QED BY <1>1, <2>1, <2>2, <2>3, StageAdvances
<1>3. CASE ~(KindAt(walk.at) = "file" /\ tree[walk.at].id = open.id)
  <2>1. Refuse
    BY <1>3 DEF Open
  <2>2. touched # {}
    BY <1>1, <1>3 DEF WholeInv, OpenInv, Disturbed
  <2> QED BY <2>1, <2>2, RefuseEnds
<1> QED BY <1>2, <1>3

LEMMA WalkIsUnderItsInput ==
  ASSUME WholeInv, Walking
  PROVE  /\ walk.next - 1 \in Begun /\ walk.next - 1 \in 1..Len(inputs)
         /\ walk.root = inputs[walk.next - 1] /\ walk.root \in Paths
         /\ walk.at \in Paths /\ IsPrefix(walk.root, walk.at)
<1>1. CaptureInv /\ PlaceInv
  BY DEF WholeInv
<1>2. walk.next \in Nat \ {0} /\ walk.next > 1 /\ Begun \subseteq 1..Len(inputs)
  BY <1>1, InputsArePaths DEF PlaceInv
<1>3. walk.next - 1 \in Begun
  BY <1>2 DEF Begun
<1>4. walk.root \in Paths
  BY <1>1 DEF CaptureInv, WalkInv, Walking
<1> QED BY <1>1, <1>2, <1>3, <1>4 DEF PlaceInv

\* What the walk is at is of the source.
LEMMA WalkIsAtAnItem ==
  ASSUME WholeInv, Walking, tree[walk.at] # None
  PROVE  ItemAt(walk.root, walk.at) \in Source
BY WalkIsUnderItsInput, SourceHasItems DEF WholeInv

LEMMA ReadExact ==
  ASSUME WholeInv, Read
  PROVE  WholeInv'
<1> DEFINE data == files[open.id].data
           n == Len(open.copied) + 1
<1>1. /\ CaptureInv /\ CaptureInv' /\ DOMAIN walk = WalkFields /\ walk.stage = "copy"
      /\ open \in Captures /\ Walking /\ OpenInv
  BY ReadKeeps DEF WholeInv, CaptureInv, CaptureTypeOK, WalkInv, Read, Walking
<1>2. data \in Seq(Nat) /\ Len(data) \in Nat /\ Len(open.copied) \in Nat /\ open.copied \in Seq(Nat)
  <2>1. files[open.id] \in [data : Seq(Nat), stamp : Nat]
    BY <1>1 DEF CaptureInv, CaptureTypeOK, CopyInv
  <2> QED BY <1>1, <2>1, CaptureRows
<1>3. CASE n > Len(data)
  <2>1. /\ walk' = [walk EXCEPT !.stage = "settle"]
        /\ UNCHANGED <<sourceVars, inputs, open, entries>>
    BY <1>3 DEF Read
  <2>2. /\ walk'.stage = "settle" /\ walk'.next = walk.next /\ walk'.root = walk.root
        /\ walk'.at = walk.at /\ walk'.todo = walk.todo
    BY <1>1, <2>1, WalkMoves
  <2>3. OpenInv'
    <3>1. tree' = tree /\ files' = files /\ open' = open /\ touched' = touched
      BY <2>1, SourceStands
    <3>2. (KindAt(walk.at)' = KindAt(walk.at)) /\ (Disturbed(walk.at)' <=> Disturbed(walk.at))
      BY <2>2, <3>1 DEF KindAt, Exists, Disturbed
    <3>3. Len(open.copied) >= Len(data)
      BY <1>2, <1>3
    <3> QED BY <1>1, <2>2, <3>1, <3>2, <3>3 DEF OpenInv
  <2> QED BY <1>1, <2>1, <2>2, <2>3, StageAdvances
<1>4. CASE ~(n > Len(data)) /\ n > MaxBytes
  <2>1. Refuse
    BY <1>4 DEF Read
  <2>2. ASSUME touched = {}
        PROVE  Refusable
    <3>1. KindAt(walk.at) = "file" /\ tree[walk.at].id = open.id
      BY <1>1, <2>2 DEF OpenInv, Disturbed
    <3>2. tree[walk.at] # None /\ BytesAt(walk.at) = data
      BY <3>1 DEF KindAt, Exists, BytesAt
    <3> DEFINE item == ItemAt(walk.root, walk.at)
    <3>3. item \in Source /\ item.data = data
      BY <1>1, <3>2, WalkIsAtAnItem DEF ItemAt
    <3>4. Len(data) <= BytesOf(Self(Source)) /\ BytesOf(Self(Source)) \in Nat
      BY <1>1, <3>3, OneFileFits
    <3>5. BytesOf(Self(Source)) > MaxBytes
      BY <1>2, <1>4, <3>4, CaptureAssumption
    <3> QED BY <3>5 DEF Refusable, Self
  <2> QED BY <2>1, <2>2, RefuseEnds
<1>5. CASE ~(n > Len(data)) /\ ~(n > MaxBytes)
  <2>1. /\ open' = [open EXCEPT !.copied = Append(@, data[n])]
        /\ UNCHANGED <<sourceVars, inputs, walk, entries>>
    BY <1>5 DEF Read
  <2>2. /\ open'.id = open.id /\ open'.moment = open.moment /\ open'.size = open.size
        /\ open'.stamp = open.stamp /\ open'.hidden = open.hidden
    BY <1>1, <2>1 DEF Captures
  <2>3. OpenInv'
    <3>1. tree' = tree /\ files' = files /\ walk' = walk /\ touched' = touched
      BY <2>1, SourceStands
    <3>2. (KindAt(walk.at)' = KindAt(walk.at)) /\ (Disturbed(walk.at)' <=> Disturbed(walk.at))
      BY <3>1 DEF KindAt, Exists, Disturbed
    <3> QED BY <1>1, <2>2, <3>1, <3>2 DEF OpenInv
  <2> QED BY <1>1, <2>1, <2>3, StageAdvances
<1> QED BY <1>3, <1>4, <1>5

LEMMA OneMoreIsTooMany ==
  ASSUME WholeInv, touched = {}, Walking, Awaited(walk.at),
         NEW e \in Entries, e.path = ManifestPath(walk.root, walk.at), Shows(e, walk.at),
         ~WithinLimit(Append(entries, e))
  PROVE  Refusable
<1>1. CaptureInv /\ entries \in Seq(Entries) /\ DistinctEntries /\ FreshInv
  BY DEF WholeInv, CaptureInv, CaptureTypeOK, QuietInv
<1> DEFINE found == Append(entries, e)
<1>2. /\ found \in Seq(Entries) /\ Len(found) \in Nat
      /\ \A k \in DOMAIN found :
            \/ k \in DOMAIN entries /\ found[k] = entries[k]
            \/ k = Len(entries) + 1 /\ found[k] = e
  BY <1>1
<1>3. Bare(e) \in Source
  <2>1. tree[walk.at] # None /\ Bare(e) = ItemAt(walk.root, walk.at)
    BY DEF Shows, Bare, ItemAt
  <2> QED BY <2>1, WalkIsAtAnItem
<1>4. \A k \in DOMAIN found : Bare(found[k]) \in Source
  BY <1>2, <1>3, EntriesAreOfTheSource
<1>5. \A k \in DOMAIN entries : entries[k].path # e.path
  BY <1>1, WalkIsUnderItsInput DEF FreshInv
<1>6. \A j, k \in DOMAIN found : found[j].path = found[k].path => j = k
  BY <1>1, <1>2, <1>5 DEF DistinctEntries
<1> HIDE DEF found
<1>7. Len(found) <= Cardinality(Source) /\ Cardinality(Source) \in Nat
  BY <1>1, <1>2, <1>4, <1>6, EntriesFitTheSource
<1>8. ~(Len(found) <= MaxFiles)
  BY DEF WithinLimit, found
<1> QED BY <1>2, <1>7, <1>8, CaptureAssumption DEF Refusable

LEMMA OnwardsStays ==
  ASSUME WholeInv, UNCHANGED <<sourceVars, inputs>>, Walking,
         NEW todo, TodoFits(todo), walk' = Onwards(todo)
  PROVE  PlaceInv'
<1>1. DOMAIN walk = WalkFields
  BY DEF WholeInv, CaptureInv, CaptureTypeOK
<1>2. /\ walk'.stage \in {"input", "list", "inspect"}
      /\ walk'.root = walk.root /\ walk'.next = walk.next
      /\ walk'.stage = "input" => walk'.todo = <<>>
      /\ Walking' <=> walk'.stage # "input"
  BY <1>1, OnwardsLeads DEF Walking
<1>3. ASSUME Walking'
      PROVE  /\ walk'.at \in Paths /\ IsPrefix(walk.root, walk'.at) /\ walk.root # walk'.at
             /\ walk'.todo \in Seq(Listings)
             /\ \A k \in DOMAIN walk'.todo : IsStrictPrefix(walk.root, walk'.todo[k].path)
  <2>1. /\ walk'.at \in Paths /\ IsStrictPrefix(walk.root, walk'.at)
        /\ walk'.todo \in Seq(Listings)
        /\ \A k \in DOMAIN walk'.todo : k + 1 \in DOMAIN todo /\ walk'.todo[k] = todo[k + 1]
    BY <1>1, <1>2, <1>3, OnwardsLeads
  <2> QED BY <2>1 DEF TodoFits, IsStrictPrefix
<1>4. walk'.stage = "inspect" => Walking'
  BY DEF Walking
<1> QED BY <1>2, <1>3, <1>4, PlaceMoves

\* The entry of where the walk is, and on to what is next.
LEMMA OnwardsCaptures ==
  ASSUME WholeInv, CaptureInv', UNCHANGED <<sourceVars, inputs>>,
         walk.stage \in {"inspect", "settle"}, walk' = Onwards(walk.todo),
         NEW e \in Entries, entries' = Append(entries, e),
         e.path = ManifestPath(walk.root, walk.at),
         Disturbed(walk.at) \/ Shows(e, walk.at)
  PROVE  WholeInv'
<1>1. /\ CaptureInv /\ DOMAIN walk = WalkFields /\ Walking /\ TodoFits(walk.todo)
      /\ walk.root \in Paths /\ walk.at \in Paths
  BY WalkIsUnderItsInput DEF WholeInv, CaptureInv, CaptureTypeOK, Walking, PlaceInv
<1>2. /\ walk'.stage \in {"input", "list", "inspect"}
      /\ walk'.root = walk.root /\ walk'.next = walk.next
      /\ walk'.stage = "input" => walk'.todo = <<>>
      /\ Walking' <=> walk'.stage # "input"
  BY <1>1, OnwardsLeads DEF Walking
<1>3. PlaceInv'
  BY <1>1, OnwardsStays
<1>4. OpenInv'
  BY <1>2 DEF OpenInv
<1>5. ASSUME NEW path \in Paths, Pending(path), path # walk.at
      PROVE  Pending(path)'
  <2>1. InTodo(walk.todo, path)
    BY <1>5 DEF Pending
  <2> QED BY <1>1, <2>1, OnwardsVisits
<1>6. Awaited(walk.at)
  BY <1>1, PrefixOrder DEF Awaited
<1>7. ASSUME touched = {}, Walking'
      PROVE  ListedInv' /\ ApartInv'
  <2>1. TodoListed(walk.todo) /\ TodoApart(walk.todo)
    BY <1>1, <1>7 DEF WholeInv, QuietInv, ListedInv, ApartInv
  <2> QED BY <1>1, <1>7, <2>1, OnwardsVisits
<1>8. ASSUME touched = {}, NEW path \in Paths, Walking', Awaited(path)'
      PROVE  Awaited(path) /\ path # walk.at
  <2>1. UnderTodo(walk.todo, path)
    BY <1>1, <1>8, OnwardsVisits
  <2>2. ~UnderTodo(walk.todo, walk.at)
    BY <1>1, <1>8 DEF WholeInv, QuietInv, ApartInv, UnderTodo
  <2> QED BY <2>1, <2>2 DEF Awaited
<1> QED BY <1>1, <1>2, <1>3, <1>4, <1>5, <1>6, <1>7, <1>8, WalkCaptures

LEMMA InspectExact ==
  ASSUME WholeInv, Inspect
  PROVE  WholeInv'
<1>1. /\ CaptureInv /\ CaptureInv' /\ DOMAIN walk = WalkFields /\ walk.stage = "inspect"
      /\ Walking
  BY InspectKeeps DEF WholeInv, CaptureInv, CaptureTypeOK, Inspect, Walking
<1>2. /\ walk.root \in Paths /\ walk.at \in Paths
  BY <1>1, WalkIsUnderItsInput
<1> DEFINE e == DirectoryEntry(ManifestPath(walk.root, walk.at))
<1>3. e \in Entries /\ e.path = ManifestPath(walk.root, walk.at)
  BY <1>2, ManifestPathIsAPath, DirectoriesAreEntries DEF DirectoryEntry
<1>4. KindAt(walk.at) = "directory" => Shows(e, walk.at)
  BY DEF Shows, KindAt, Exists, BytesAt, DirectoryEntry
<1>5. CASE KindAt(walk.at) = "file"
  <2>1. /\ walk' = [walk EXCEPT !.stage = "before"]
        /\ UNCHANGED <<sourceVars, inputs, open, entries>>
    BY <1>5 DEF Inspect
  <2>2. /\ walk'.stage = "before" /\ walk'.next = walk.next /\ walk'.root = walk.root
        /\ walk'.at = walk.at /\ walk'.todo = walk.todo
    BY <1>1, <2>1, WalkMoves
  <2>3. OpenInv'
    BY <2>2 DEF OpenInv
  <2> QED BY <1>1, <1>5, <2>1, <2>2, <2>3, StageAdvances
<1>6. CASE KindAt(walk.at) = "directory" /\ WithinLimit(Append(entries, e))
  <2>1. /\ entries' = Append(entries, e) /\ walk' = Onwards(walk.todo)
        /\ UNCHANGED <<sourceVars, inputs>>
    BY <1>6 DEF Inspect
  <2> QED BY <1>1, <1>3, <1>4, <1>6, <2>1, OnwardsCaptures
<1>7. CASE KindAt(walk.at) = "directory" /\ ~WithinLimit(Append(entries, e))
  <2>1. Refuse
    BY <1>7 DEF Inspect
  <2>2. Awaited(walk.at)
    BY <1>1, <1>2, PrefixOrder DEF Awaited
  <2>3. touched = {} => Refusable
    BY <1>1, <1>3, <1>4, <1>7, <2>2, OneMoreIsTooMany
  <2> QED BY <2>1, <2>3, RefuseEnds
<1>8. CASE KindAt(walk.at) \notin {"file", "directory"}
  <2>1. Refuse
    BY <1>8 DEF Inspect
  <2>2. ASSUME touched = {}
        PROVE  Refusable
    <3>1. tree[walk.at] # None
      BY <1>1, <2>2 DEF WholeInv, QuietInv, ListedInv
    <3> DEFINE item == ItemAt(walk.root, walk.at)
    <3>2. item \in Source /\ item.kind = KindAt(walk.at)
      BY <1>1, <3>1, WalkIsAtAnItem DEF ItemAt
    <3> QED BY <1>8, <3>2 DEF Refusable, Acceptable
  <2> QED BY <2>1, <2>2, RefuseEnds
<1> QED BY <1>5, <1>6, <1>7, <1>8

LEMMA SettleExact ==
  ASSUME WholeInv, Settle
  PROVE  WholeInv'
<1>1. /\ CaptureInv /\ CaptureInv' /\ DOMAIN walk = WalkFields /\ walk.stage = "settle"
      /\ Walking /\ open \in Captures /\ open.id \in DOMAIN files /\ OpenInv
      /\ files \in [DOMAIN files -> [data : Seq(Nat), stamp : Nat]]
  BY SettleKeeps DEF WholeInv, CaptureInv, CaptureTypeOK, WalkInv, CopyInv, Settle, Walking
<1>2. /\ walk.root \in Paths /\ walk.at \in Paths
  BY <1>1, WalkIsUnderItsInput
<1> DEFINE e == FileEntry(ManifestPath(walk.root, walk.at))
           file == files[open.id]
<1>3. e \in Entries /\ e.path = ManifestPath(walk.root, walk.at)
  BY <1>1, <1>2, ManifestPathIsAPath, CaptureRows DEF FileEntry, Entries
<1>4. ASSUME Stable(file), ~Disturbed(walk.at)
      PROVE  Shows(e, walk.at)
  <2>1. KindAt(walk.at) = "file" /\ tree[walk.at].id = open.id /\ ~open.hidden
        /\ open.moment = file.data
    BY <1>1, <1>4 DEF OpenInv
  <2>2. open.copied = open.moment
    BY <1>1, <1>4, <2>1, StableIsOneMoment
  <2>3. e.kind = "file" /\ e.data = open.copied
    BY DEF FileEntry
  <2> QED BY <2>1, <2>2, <2>3 DEF Shows, BytesAt, KindAt, Exists
<1>5. ASSUME touched = {}
      PROVE  Stable(file) /\ ~Disturbed(walk.at)
  <2>1. ~Disturbed(walk.at)
    BY <1>5 DEF Disturbed
  <2>2. /\ ~open.hidden /\ open.moment = file.data
        /\ open.size = Len(file.data) /\ open.stamp = file.stamp
        /\ Len(open.copied) >= Len(file.data)
    BY <1>1, <2>1 DEF OpenInv
  <2>3. /\ file.data \in Seq(Nat) /\ file.stamp \in Nat
        /\ open.copied \in Seq(Nat) /\ open.stamp \in Nat
    BY <1>1, CaptureRows
  <2>4. ReadOf(open.moment, open.copied)
    BY <1>1, <2>2, <2>3 DEF CaptureInv, CopyInv
  <2>5. Len(open.copied) = Len(file.data)
    <3>1. Len(open.copied) <= Len(file.data)
      BY <2>2, <2>4 DEF ReadOf
    <3>2. Len(open.copied) \in Nat /\ Len(file.data) \in Nat
      BY <2>3
    <3> QED BY <2>2, <3>1, <3>2
  <2> QED BY <2>1, <2>2, <2>5 DEF Stable
<1>6. CASE Stable(file) /\ (walk.at = walk.root \/ WithinLimit(Append(entries, e)))
  <2>1. /\ entries' = Append(entries, e) /\ walk' = Onwards(walk.todo)
        /\ UNCHANGED <<sourceVars, inputs>>
    BY <1>6 DEF Settle
  <2> QED BY <1>1, <1>3, <1>4, <1>6, <2>1, OnwardsCaptures
<1>7. CASE ~(Stable(file) /\ (walk.at = walk.root \/ WithinLimit(Append(entries, e))))
  <2>1. Refuse
    BY <1>7 DEF Settle
  <2>2. Awaited(walk.at)
    BY <1>1, <1>2, PrefixOrder DEF Awaited
  <2>3. touched = {} => Refusable
    BY <1>1, <1>3, <1>4, <1>5, <1>7, <2>2, OneMoreIsTooMany
  <2> QED BY <2>1, <2>3, RefuseEnds
<1> QED BY <1>6, <1>7

LEMMA FinishExact ==
  ASSUME WholeInv, Finish
  PROVE  WholeInv'
<1>1. /\ CaptureInv /\ CaptureInv' /\ DOMAIN walk = WalkFields /\ walk.stage = "input"
      /\ walk.next > Len(inputs) /\ entries \in Seq(Entries) /\ PlaceInv
  BY EndKeeps DEF WholeInv, CaptureInv, CaptureTypeOK, Finish
<1>2. walk.next = Len(inputs) + 1
  BY <1>1, InputsArePaths DEF PlaceInv
<1>3. CASE Refuse
  <2>1. ASSUME touched = {}
        PROVE  Refusable
    <3>1. DistinctEntries /\ \A k \in DOMAIN entries : Bare(entries[k]) \in Source
      BY <2>1, EntriesAreOfTheSource DEF WholeInv, QuietInv
    <3>2. /\ BytesOf(entries) <= BytesOf(Self(Source)) /\ BytesOf(entries) \in Nat
          /\ BytesOf(Self(Source)) \in Nat
      BY <1>1, <3>1, EntriesFitTheSource DEF DistinctEntries
    <3> DEFINE D == DOMAIN entries
               T == {entries[i].path : i \in D}
               f == [i \in D |-> entries[i].path]
    <3>3. Cardinality(T) = Len(entries)
      <4>1. D = 1..Len(entries) /\ Len(entries) \in Nat
        BY <1>1
      <4>2. IsFiniteSet(D) /\ Cardinality(D) = Len(entries)
        BY <4>1, CountingUp
      <4>3. f \in Surjection(D, T) /\ f \in Injection(D, T)
        BY <3>1 DEF Injection, Surjection, IsInjective, DistinctEntries
      <4> HIDE DEF D, T, f
      <4>4. Cardinality(D) = Cardinality(T)
        BY <4>2, <4>3, FS_Surjection
      <4> QED BY <4>2, <4>4
    <3>4. BytesOf(entries) > MaxBytes
      <4>1. ~(BytesOf(entries) <= MaxBytes)
        <5>1. walk' = [walk EXCEPT !.stage = "refused"]
          BY <1>3 DEF Refuse
        <5>2. walk' # [walk EXCEPT !.stage = "done"]
          BY <1>1, <5>1, WalkMoves
        <5> QED BY <3>3, <5>2 DEF Finish
      <4> QED BY <3>2, <4>1, CaptureAssumption
    <3>5. BytesOf(Self(Source)) > MaxBytes
      BY <3>2, <3>4, CaptureAssumption
    <3> QED BY <3>5 DEF Refusable, Self
  <2> QED BY <1>3, <2>1, RefuseEnds
<1>4. CASE ~Refuse
  <2>1. /\ walk' = [walk EXCEPT !.stage = "done"]
        /\ UNCHANGED <<sourceVars, inputs, open, entries>>
    BY <1>4 DEF Finish
  <2>2. /\ walk'.stage = "done" /\ walk'.next = walk.next /\ walk'.root = walk.root
        /\ walk'.todo = walk.todo
    BY <1>1, <2>1, WalkMoves
  <2>3. /\ inputs' = inputs /\ entries' = entries /\ Begun' = Begun /\ TreeInv' /\ touched' = touched
        /\ ~Walking /\ ~Walking'
    BY <1>1, <2>1, <2>2, TreeStands, SourceStands DEF Begun, WholeInv, Walking
  <2>4. PlaceInv'
    BY <1>1, <1>2, <2>1, <2>2, <2>3, PlaceMoves DEF PlaceInv
  <2>5. OpenInv'
    BY <2>2 DEF OpenInv
  <2>6. NothingElse'
    <3> SUFFICES ASSUME NEW k \in DOMAIN entries
                 PROVE  \E i \in Begun, path \in Paths : Explains(i, path, entries[k])'
      BY <2>3 DEF NothingElse
    <3>1. PICK i \in Begun, path \in Paths : Explains(i, path, entries[k])
      BY DEF NothingElse, WholeInv
    <3>2. Explains(i, path, entries[k])'
      BY <2>1, <2>3, <3>1, SourceStands DEF Explains, Shows
    <3> QED BY <3>2
  <2>7. NothingMissed'
    <3> SUFFICES ASSUME NEW i \in Begun, NEW path \in Paths,
                        IsPrefix(inputs[i], path), tree[path] # None, ~Disturbed(path)
                 PROVE  Captured(i, path)'
      BY <2>1, <2>3, SourceStands DEF NothingMissed
    <3>1. ~Pending(path)
      BY <1>1, <2>3 DEF Pending
    <3>2. Captured(i, path)
      BY <1>1, <3>1 DEF WholeInv, NothingMissed
    <3> QED BY <2>1, <2>3, <3>2, SourceStands DEF Captured, Shows
  <2>8. QuietInv'
    <3>1. RefusedForCause'
      BY <2>2 DEF RefusedForCause
    <3>2. touched = {} => DistinctEntries'
      BY <2>3 DEF WholeInv, QuietInv, DistinctEntries
    <3> QED BY <2>3, <3>1, <3>2 DEF QuietInv
  <2> QED BY <1>1, <2>3, <2>4, <2>5, <2>6, <2>7, <2>8 DEF WholeInv
<1> QED BY <1>3, <1>4

\* What a directory lists: what is in it, each once, and whether it is one.
Listed(path) ==
    [k \in DOMAIN Sorted(Children(path)) |->
       [path |-> Sorted(Children(path))[k],
        directory |-> KindAt(Sorted(Children(path))[k]) = "directory"]]

LEMMA ListedIsWhatIsThere ==
  ASSUME NEW d \in Paths
  PROVE  /\ Listed(d) \in Seq(Listings)
         /\ \A k \in DOMAIN Listed(d) :
               /\ Listed(d)[k].path \in Children(d)
               /\ Listed(d)[k].directory <=> KindAt(Listed(d)[k].path) = "directory"
         /\ \A p \in Children(d) : \E k \in DOMAIN Listed(d) : Listed(d)[k].path = p
         /\ \A j, k \in DOMAIN Listed(d) : Listed(d)[j].path = Listed(d)[k].path => j = k
<1> DEFINE S == Children(d)
           s == Sorted(S)
<1>1. S \in SUBSET Paths /\ \A p \in S : Front(p) = d
  BY DEF Children
<1> HIDE DEF S
<1>2. /\ s \in Seq(S)
      /\ \A p \in S : \E k \in DOMAIN s : s[k] = p
      /\ \A j, k \in DOMAIN s : s[j] = s[k] => j = k
  BY <1>1, SortedListsAll
<1> HIDE DEF s
<1>3. Listed(d) = [k \in DOMAIN s |-> [path |-> s[k], directory |-> KindAt(s[k]) = "directory"]]
  BY DEF Listed, s, S
<1>4. \A k \in DOMAIN s : s[k] \in S /\ s[k] \in Paths
  BY <1>1, <1>2
<1>5. Listed(d) \in Seq(Listings)
  <2>1. DOMAIN s = 1..Len(s) /\ Len(s) \in Nat
    BY <1>2
  <2>2. \A k \in DOMAIN s :
           [path |-> s[k], directory |-> KindAt(s[k]) = "directory"] \in Listings
    BY <1>4 DEF Listings
  <2> QED BY <1>3, <2>1, <2>2
<1>6. /\ DOMAIN Listed(d) = DOMAIN s
      /\ \A k \in DOMAIN s : /\ Listed(d)[k].path = s[k]
                             /\ Listed(d)[k].directory <=> KindAt(s[k]) = "directory"
  <2>1. /\ DOMAIN Listed(d) = DOMAIN s
        /\ \A k \in DOMAIN s : Listed(d)[k] =
              [path |-> s[k], directory |-> KindAt(s[k]) = "directory"]
    BY <1>3, Zenon
  <2> HIDE DEF s
  <2> SUFFICES ASSUME NEW k \in DOMAIN s
               PROVE  /\ Listed(d)[k].path = s[k]
                      /\ Listed(d)[k].directory <=> KindAt(s[k]) = "directory"
    BY <2>1, Zenon
  <2>2. Listed(d)[k] = [path |-> s[k], directory |-> KindAt(s[k]) = "directory"]
    BY <2>1
  <2>3. Listed(d)[k].path = s[k]
    BY <2>2
  <2>4. CASE KindAt(s[k]) = "directory"
    <3>1. (KindAt(s[k]) = "directory") = TRUE
      BY <2>4
    <3>2. Listed(d)[k] = [path |-> s[k], directory |-> TRUE]
      BY <2>2, <3>1
    <3> QED BY <2>3, <2>4, <3>2
  <2>5. CASE KindAt(s[k]) # "directory"
    <3>1. (KindAt(s[k]) = "directory") = FALSE
      BY <2>5
    <3>2. Listed(d)[k] = [path |-> s[k], directory |-> FALSE]
      BY <2>2, <3>1
    <3> QED BY <2>3, <2>5, <3>2
  <2> QED BY <2>4, <2>5
<1> QED BY <1>2, <1>4, <1>5, <1>6 DEF S

LEMMA JoinedParts ==
  ASSUME NEW X, NEW s \in Seq(X), NEW t \in Seq(X)
  PROVE  /\ s \o t \in Seq(X)
         /\ \A k \in DOMAIN (s \o t) :
               \/ k \in DOMAIN s /\ (s \o t)[k] = s[k]
               \/ k - Len(s) \in DOMAIN t /\ (s \o t)[k] = t[k - Len(s)] /\ k \in Int
         /\ \A k \in DOMAIN s : k \in DOMAIN (s \o t) /\ (s \o t)[k] = s[k]
         /\ \A k \in DOMAIN t : /\ Len(s) + k \in DOMAIN (s \o t)
                                /\ (s \o t)[Len(s) + k] = t[k]
<1>1. /\ s \o t \in Seq(X) /\ Len(s \o t) = Len(s) + Len(t)
      /\ Len(s) \in Nat /\ Len(t) \in Nat
      /\ DOMAIN s = 1..Len(s) /\ DOMAIN t = 1..Len(t)
      /\ DOMAIN (s \o t) = 1..(Len(s) + Len(t))
  OBVIOUS
<1>2. \A k \in 1..(Len(s) + Len(t)) : (s \o t)[k] = IF k <= Len(s) THEN s[k] ELSE t[k - Len(s)]
  OBVIOUS
<1>3. ASSUME NEW k \in DOMAIN (s \o t)
      PROVE  \/ k \in DOMAIN s /\ (s \o t)[k] = s[k]
             \/ k - Len(s) \in DOMAIN t /\ (s \o t)[k] = t[k - Len(s)] /\ k \in Int
  BY <1>1, <1>2
<1>4. ASSUME NEW k \in DOMAIN s
      PROVE  k \in DOMAIN (s \o t) /\ (s \o t)[k] = s[k]
  BY <1>1, <1>2
<1>5. ASSUME NEW k \in DOMAIN t
      PROVE  Len(s) + k \in DOMAIN (s \o t) /\ (s \o t)[Len(s) + k] = t[k]
  <2>1. Len(s) + k \in 1..(Len(s) + Len(t)) /\ ~(Len(s) + k <= Len(s)) /\ Len(s) + k - Len(s) = k
    BY <1>1
  <2> QED BY <1>1, <1>2, <2>1
<1> QED BY <1>1, <1>3, <1>4, <1>5

\* What is listed goes before what is still to be visited.
LEMMA ListedGoesFirst ==
  ASSUME WholeInv, walk.stage = "list", NEW todo, todo = Listed(walk.at) \o walk.todo
  PROVE  /\ TodoFits(todo)
         /\ \A q \in Paths : IsStrictPrefix(walk.at, q) /\ tree[q] # None => InTodo(todo, q)
         /\ \A q \in Paths : InTodo(walk.todo, q) => InTodo(todo, q)
         /\ \A q \in Paths : UnderTodo(todo, q) => Awaited(q)
         /\ touched = {} => /\ TodoListed(todo) /\ TodoApart(todo)
                            /\ \A k \in DOMAIN todo : ~IsPrefix(todo[k].path, walk.at)
<1> DEFINE L == Listed(walk.at)
           T == walk.todo
           n == Len(L)
<1>1. /\ Walking /\ TreeInv /\ TodoFits(T) /\ walk.root \in Paths /\ walk.at \in Paths
      /\ IsPrefix(walk.root, walk.at) /\ T \in Seq(Listings)
  BY WalkIsUnderItsInput DEF WholeInv, PlaceInv, Walking, TodoFits
<1>2. /\ L \in Seq(Listings)
      /\ \A k \in DOMAIN L :
            /\ L[k].path \in Children(walk.at)
            /\ L[k].directory <=> KindAt(L[k].path) = "directory"
      /\ \A p \in Children(walk.at) : \E k \in DOMAIN L : L[k].path = p
      /\ \A j, k \in DOMAIN L : L[j].path = L[k].path => j = k
  BY <1>1, ListedIsWhatIsThere
<1> HIDE DEF L
<1>3. /\ todo \in Seq(Listings)
      /\ \A k \in DOMAIN todo :
            \/ k \in DOMAIN L /\ todo[k] = L[k]
            \/ k - n \in DOMAIN T /\ todo[k] = T[k - n] /\ k \in Int
      /\ \A k \in DOMAIN L : k \in DOMAIN todo /\ todo[k] = L[k]
      /\ \A k \in DOMAIN T : n + k \in DOMAIN todo /\ todo[n + k] = T[k]
      /\ n \in Nat
  <2>1. todo = L \o T
    BY DEF L
  <2> HIDE DEF T
  <2> QED BY <1>1, <1>2, <2>1, JoinedParts
<1> HIDE DEF n
<1>4. ASSUME NEW k \in DOMAIN L
      PROVE  LET c == L[k].path
             IN  /\ c \in Paths /\ tree[c] # None /\ Front(c) = walk.at
                 /\ IsStrictPrefix(walk.at, c) /\ Len(c) = Len(walk.at) + 1
                 /\ ~IsPrefix(c, walk.at)
                 /\ \A d \in Paths : IsStrictPrefix(d, c) => IsPrefix(d, walk.at)
  <2> DEFINE c == L[k].path
  <2>1. c \in Paths /\ tree[c] # None /\ Front(c) = walk.at
    BY <1>2 DEF Children
  <2> HIDE DEF c
  <2>2. /\ IsStrictPrefix(walk.at, c) /\ Len(c) = Len(walk.at) + 1
        /\ \A d \in Paths : IsStrictPrefix(d, c) => IsPrefix(d, walk.at)
    BY <1>1, <2>1, FrontIsDirectory
  <2>3. ~IsPrefix(c, walk.at)
    BY <1>1, <2>1, <2>2, PrefixOrder DEF IsStrictPrefix
  <2> QED BY <2>1, <2>2, <2>3 DEF c
<1>5. /\ \A k \in DOMAIN T : T[k].path \in Paths
      /\ \A k \in DOMAIN todo : todo[k].path \in Paths
  <2>1. \A l \in Listings : l.path \in Paths
    BY DEF Listings
  <2>2. \A s \in Seq(Listings) : \A k \in DOMAIN s : s[k] \in Listings
    OBVIOUS
  <2>3. T \in Seq(Listings) /\ todo \in Seq(Listings)
    BY <1>1, <1>3
  <2> QED BY <2>1, <2>2, <2>3
<1>6. TodoFits(todo)
  <2> SUFFICES ASSUME NEW k \in DOMAIN todo PROVE IsStrictPrefix(walk.root, todo[k].path)
    BY <1>3 DEF TodoFits
  <2>1. CASE k \in DOMAIN L /\ todo[k] = L[k]
    <3> DEFINE c == L[k].path
    <3>1. c \in Paths /\ IsPrefix(walk.at, c) /\ ~IsPrefix(c, walk.at)
      BY <1>4, <2>1 DEF IsStrictPrefix
    <3> HIDE DEF c
    <3>2. IsPrefix(walk.root, c) /\ walk.root # c
      BY <1>1, <3>1, PrefixOrder
    <3> QED BY <2>1, <3>2 DEF IsStrictPrefix, c
  <2>2. CASE k - n \in DOMAIN T /\ todo[k] = T[k - n]
    BY <1>1, <2>2 DEF TodoFits
  <2> QED BY <1>3, <2>1, <2>2
<1>7. ASSUME NEW q \in Paths, IsStrictPrefix(walk.at, q), tree[q] # None
      PROVE  InTodo(todo, q)
  <2>1. PICK c \in Paths : Front(c) = walk.at /\ IsPrefix(c, q)
    BY <1>1, <1>7, ChildTowards
  <2>2. c # q => KindAt(c) = "directory"
    BY <1>1, <1>7, <2>1 DEF TreeInv, IsStrictPrefix
  <2>3. tree[c] # None
    BY <1>7, <2>2 DEF KindAt, Exists
  <2>4. PICK k \in DOMAIN L : L[k].path = c
    BY <1>2, <2>1, <2>3 DEF Children
  <2>5. k \in DOMAIN todo /\ todo[k] = L[k] /\ (c # q => L[k].directory)
    BY <1>2, <1>3, <2>2, <2>4
  <2> QED BY <2>1, <2>4, <2>5 DEF InTodo
<1>8. ASSUME NEW q \in Paths, InTodo(T, q)
      PROVE  InTodo(todo, q)
  <2>1. PICK k \in DOMAIN T : q = T[k].path \/ (T[k].directory /\ IsPrefix(T[k].path, q))
    BY <1>8 DEF InTodo
  <2>2. n + k \in DOMAIN todo /\ todo[n + k] = T[k]
    BY <1>3
  <2> QED BY <2>1, <2>2 DEF InTodo
<1>9. ASSUME NEW q \in Paths, UnderTodo(todo, q)
      PROVE  Awaited(q)
  <2>1. PICK k \in DOMAIN todo : IsPrefix(todo[k].path, q)
    BY <1>9 DEF UnderTodo
  <2>2. CASE k \in DOMAIN L /\ todo[k] = L[k]
    <3> DEFINE c == L[k].path
    <3>1. c \in Paths /\ IsPrefix(walk.at, c) /\ ~IsPrefix(c, walk.at) /\ IsPrefix(c, q)
      BY <1>4, <2>1, <2>2 DEF IsStrictPrefix
    <3> HIDE DEF c
    <3>2. IsPrefix(walk.at, q) /\ q # walk.root
      BY <1>1, <3>1, PrefixOrder
    <3> QED BY <3>2 DEF Awaited
  <2>3. CASE k - n \in DOMAIN T /\ todo[k] = T[k - n]
    BY <2>1, <2>3 DEF Awaited, UnderTodo
  <2> QED BY <1>3, <2>2, <2>3
<1>10. ASSUME touched = {}
       PROVE  /\ TodoListed(todo) /\ TodoApart(todo)
              /\ \A k \in DOMAIN todo : ~IsPrefix(todo[k].path, walk.at)
  <2>1. /\ TodoListed(T) /\ TodoApart(T)
        /\ \A k \in DOMAIN T : ~IsPrefix(T[k].path, walk.at) /\ ~IsPrefix(walk.at, T[k].path)
    BY <1>1, <1>10 DEF WholeInv, QuietInv, ListedInv, ApartInv
  <2>2. TodoListed(todo)
    <3> SUFFICES ASSUME NEW k \in DOMAIN todo
                 PROVE  /\ tree[todo[k].path] # None
                        /\ todo[k].directory <=> KindAt(todo[k].path) = "directory"
      BY DEF TodoListed
    <3>1. CASE k \in DOMAIN L /\ todo[k] = L[k]
      BY <1>2, <1>4, <3>1
    <3>2. CASE k - n \in DOMAIN T /\ todo[k] = T[k - n]
      BY <2>1, <3>2 DEF TodoListed
    <3> QED BY <1>3, <3>1, <3>2
  <2>3. ASSUME NEW k \in DOMAIN todo
        PROVE  ~IsPrefix(todo[k].path, walk.at)
    BY <1>3, <1>4, <2>1
  <2>4. TodoApart(todo)
    <3> SUFFICES ASSUME NEW j \in DOMAIN todo, NEW k \in DOMAIN todo,
                        IsPrefix(todo[j].path, todo[k].path)
                 PROVE  j = k
      BY DEF TodoApart
    <3>1. CASE k \in DOMAIN L /\ todo[k] = L[k]
      <4>1. todo[j].path = todo[k].path
        <5>1. todo[j].path \in Paths
          BY <1>5
        <5>2. ~IsPrefix(todo[j].path, walk.at)
          BY <2>3
        <5> QED BY <1>4, <3>1, <5>1, <5>2 DEF IsStrictPrefix
      <4>2. CASE j \in DOMAIN L /\ todo[j] = L[j]
        BY <1>2, <3>1, <4>1, <4>2
      <4>3. CASE j - n \in DOMAIN T /\ todo[j] = T[j - n]
        BY <1>4, <2>1, <3>1, <4>1, <4>3 DEF IsStrictPrefix
      <4> QED BY <1>3, <4>2, <4>3
    <3>2. CASE k - n \in DOMAIN T /\ todo[k] = T[k - n] /\ k \in Int
      <4>1. CASE j \in DOMAIN L /\ todo[j] = L[j]
        <5> DEFINE c == L[j].path
                   t == T[k - n].path
        <5>1. c \in Paths /\ t \in Paths /\ IsPrefix(walk.at, c) /\ IsPrefix(c, t)
          BY <1>4, <1>5, <3>2, <4>1 DEF IsStrictPrefix
        <5>2. ~IsPrefix(walk.at, t)
          BY <2>1, <3>2
        <5> HIDE DEF c, t
        <5> QED BY <1>1, <5>1, <5>2, PrefixOrder
      <4>2. CASE j - n \in DOMAIN T /\ todo[j] = T[j - n] /\ j \in Int
        <5>1. j - n = k - n
          BY <2>1, <3>2, <4>2 DEF TodoApart
        <5> QED BY <1>3, <3>2, <4>2, <5>1
      <4> QED BY <1>3, <4>1, <4>2
    <3> QED BY <1>3, <3>1, <3>2
  <2> QED BY <2>2, <2>3, <2>4
<1> QED BY <1>6, <1>7, <1>8, <1>9, <1>10

LEMMA ListExact ==
  ASSUME WholeInv, List
  PROVE  WholeInv'
<1>1. /\ CaptureInv /\ CaptureInv' /\ DOMAIN walk = WalkFields /\ walk.stage = "list"
      /\ Walking /\ TreeInv
  BY ListKeeps DEF WholeInv, CaptureInv, CaptureTypeOK, List, Walking
<1>2. /\ walk.root \in Paths /\ walk.at \in Paths /\ IsPrefix(walk.root, walk.at)
  BY <1>1, WalkIsUnderItsInput
<1> DEFINE todo == TodoWith(Listed(walk.at))
           root == walk.at = walk.root
           lists == \/ KindAt(walk.at) = "directory"
                    \/ root /\ KindAt(walk.at) \in {"file", "special"}
<1>3. todo = Listed(walk.at) \o walk.todo
  BY DEF TodoWith
<1>4. \/ /\ lists
         /\ walk' = IF root THEN Onwards(todo)
                    ELSE [walk EXCEPT !.stage = "inspect", !.todo = todo]
         /\ UNCHANGED <<sourceVars, inputs, open, entries>>
      \/ ~lists /\ Refuse
  BY DEF List, Listed
<1> HIDE DEF todo
<1>5. /\ TodoFits(todo)
      /\ \A q \in Paths : IsStrictPrefix(walk.at, q) /\ tree[q] # None => InTodo(todo, q)
      /\ \A q \in Paths : InTodo(walk.todo, q) => InTodo(todo, q)
      /\ \A q \in Paths : UnderTodo(todo, q) => Awaited(q)
      /\ touched = {} => /\ TodoListed(todo) /\ TodoApart(todo)
                         /\ \A k \in DOMAIN todo : ~IsPrefix(todo[k].path, walk.at)
  BY <1>1, <1>3, ListedGoesFirst
<1>6. ASSUME NEW path \in Paths, Pending(path), tree[path] # None
      PROVE  InTodo(todo, path) \/ (~root /\ path = walk.at)
  <2>1. (IsPrefix(walk.at, path) /\ path # walk.root) \/ InTodo(walk.todo, path)
    BY <1>1, <1>6 DEF Pending
  <2> QED BY <1>5, <1>6, <2>1 DEF IsStrictPrefix
<1>7. CASE ~lists /\ Refuse
  <2>1. touched # {}
    BY <1>1, <1>7 DEF WholeInv, QuietInv, ListedInv
  <2> QED BY <1>7, <2>1, RefuseEnds
<1>8. CASE root /\ walk' = Onwards(todo) /\ UNCHANGED <<sourceVars, inputs, open, entries>>
  <2>1. /\ walk'.stage \in {"input", "list", "inspect"}
        /\ walk'.root = walk.root /\ walk'.next = walk.next
    BY <1>1, <1>5, <1>8, OnwardsLeads
  <2>2. PlaceInv' /\ OpenInv'
    BY <1>1, <1>5, <1>8, <2>1, OnwardsStays DEF OpenInv
  <2>3. \A path \in Paths : Pending(path) /\ tree[path] # None => Pending(path)'
    BY <1>1, <1>2, <1>5, <1>6, <1>8, OnwardsVisits
  <2>4. touched = {} /\ Walking' => ListedInv' /\ ApartInv'
    BY <1>1, <1>2, <1>5, <1>8, OnwardsVisits
  <2>5. \A path \in Paths : Walking' /\ Awaited(path)' => Awaited(path)
    BY <1>1, <1>2, <1>5, <1>8, OnwardsVisits
  <2> QED BY <1>1, <1>8, <2>1, <2>2, <2>3, <2>4, <2>5, WalkAdvances
<1>9. CASE /\ ~root /\ lists /\ walk' = [walk EXCEPT !.stage = "inspect", !.todo = todo]
           /\ UNCHANGED <<sourceVars, inputs, open, entries>>
  <2>1. /\ walk'.stage = "inspect" /\ walk'.root = walk.root /\ walk'.next = walk.next
        /\ walk'.at = walk.at /\ walk'.todo = todo
    BY <1>1, <1>9 DEF WalkFields
  <2>2. Walking' /\ OpenInv'
    BY <2>1 DEF Walking, OpenInv
  <2>3. PlaceInv'
    <3>1. /\ todo \in Seq(Listings)
          /\ \A k \in DOMAIN todo : IsStrictPrefix(walk.root, todo[k].path)
      BY <1>5 DEF TodoFits
    <3> QED BY <1>1, <1>2, <1>9, <2>1, <3>1, PlaceMoves
  <2>4. \A path \in Paths : Pending(path) /\ tree[path] # None => Pending(path)'
    BY <1>6, <2>1, <2>2 DEF Pending, InTodo
  <2>5. ASSUME touched = {}
        PROVE  ListedInv' /\ ApartInv'
    <3>1. ApartInv'
      BY <1>5, <2>1, <2>5 DEF ApartInv, TodoApart
    <3>2. tree' = tree /\ tree[walk.at] # None
      BY <1>9, SourceStands DEF KindAt, Exists
    <3>3. TodoListed(walk.todo)'
      BY <1>5, <2>1, <2>5, <3>2 DEF TodoListed, KindAt, Exists
    <3> QED BY <2>1, <3>1, <3>2, <3>3 DEF ListedInv
  <2>6. ASSUME NEW path \in Paths, IsPrefix(walk.root, path), Awaited(path)'
        PROVE  Awaited(path)
    <3>1. IsPrefix(walk.at, path) \/ UnderTodo(todo, path)
      BY <2>1, <2>6 DEF Awaited, UnderTodo
    <3>2. IsPrefix(walk.at, path) => path # walk.root
      BY <1>2, <1>9, PrefixOrder
    <3> QED BY <1>5, <3>1, <3>2 DEF Awaited
  <2> QED BY <1>1, <1>9, <2>1, <2>2, <2>3, <2>4, <2>5, <2>6, WalkAdvances
<1> QED BY <1>4, <1>7, <1>8, <1>9

\* A new input: its own entry, if it is a directory, and what is below it.
LEMMA InputBegins ==
  ASSUME WholeInv, CaptureInv', UNCHANGED <<sourceVars, inputs, open>>,
         walk.stage = "input", walk.next \in 1..Len(inputs),
         NEW path \in Paths, path = inputs[walk.next],
         \A i \in Begun : Last(inputs[i]) # Last(path),
         DOMAIN walk' = WalkFields, walk'.next = walk.next + 1, walk'.root = path,
         walk'.at = path, walk'.todo = walk.todo,
         NEW e \in Entries, e = DirectoryEntry(ManifestPath(path, path)),
         \/ KindAt(path) = "file" /\ walk'.stage = "before" /\ entries' = entries
         \/ KindAt(path) = "directory" /\ walk'.stage = "list" /\ entries' = Append(entries, e)
  PROVE  WholeInv'
<1>1. /\ CaptureInv /\ PlaceInv /\ TreeInv /\ NothingElse /\ NothingMissed /\ QuietInv
      /\ entries \in Seq(Entries) /\ ~Walking /\ walk.todo = <<>>
      /\ walk.next \in Nat \ {0} /\ Len(inputs) \in Nat
  BY InputsArePaths DEF WholeInv, CaptureInv, CaptureTypeOK, Walking, PlaceInv
<1>2. /\ inputs' = inputs /\ tree' = tree /\ files' = files /\ touched' = touched /\ TreeInv'
      /\ Walking' /\ walk'.stage \in {"before", "list"} /\ tree[path] # None
  BY <1>1, TreeStands, SourceStands DEF Walking, KindAt, Exists
<1>3. /\ walk.next - 1 \in Nat /\ Begun = 1..(walk.next - 1)
      /\ Begun' = 1..walk.next /\ Begun \subseteq Begun' /\ walk.next \in Begun'
      /\ \A i \in Begun' : i \in Begun \/ i = walk.next
      /\ Begun' \subseteq 1..Len(inputs)
      /\ walk'.next - 1 = walk.next /\ walk.next \notin Begun
  <2>1. walk'.next - 1 = walk.next
    BY <1>1
  <2> QED BY <1>1, <2>1 DEF Begun
<1>4. \A i \in Begun : inputs[i] \in Paths
  BY <1>1, <1>3, InputsArePaths
<1>5. /\ DOMAIN entries \subseteq DOMAIN entries'
      /\ \A k \in DOMAIN entries : entries'[k] = entries[k]
      /\ \A k \in DOMAIN entries' : \/ k \in DOMAIN entries
                                    \/ /\ KindAt(path) = "directory" /\ walk'.stage = "list"
                                       /\ k = Len(entries) + 1 /\ entries'[k] = e
      /\ KindAt(path) = "directory" =>
            Len(entries) + 1 \in DOMAIN entries' /\ entries'[Len(entries) + 1] = e
  <2>1. CASE KindAt(path) = "file" /\ entries' = entries
    BY <2>1
  <2>2. CASE KindAt(path) = "directory" /\ walk'.stage = "list" /\ entries' = Append(entries, e)
    <3>1. /\ DOMAIN entries \subseteq DOMAIN entries'
          /\ \A k \in DOMAIN entries : entries'[k] = entries[k]
          /\ \A k \in DOMAIN entries' :
                k \in DOMAIN entries \/ (k = Len(entries) + 1 /\ entries'[k] = e)
          /\ Len(entries) + 1 \in DOMAIN entries' /\ entries'[Len(entries) + 1] = e
      BY <1>1, <2>2, OneMoreAtTheEnd
    <3> QED BY <2>2, <3>1
  <2> QED BY <2>1, <2>2
<1>6. /\ e.path = ManifestPath(path, path)
      /\ KindAt(path) = "directory" => Shows(e, path)
  BY DEF DirectoryEntry, Shows, KindAt, Exists, BytesAt
<1>7. PlaceInv'
  <2>1. \A i, j \in Begun' : Last(inputs[i]) = Last(inputs[j]) => i = j
    BY <1>1, <1>3 DEF PlaceInv
  <2>2. \A i \in Begun' : tree[inputs[i]] # None \/ Disturbed(inputs[i])
    BY <1>1, <1>2, <1>3 DEF PlaceInv
  <2>3. \A i \in Begun' : tree'[inputs'[i]] # None \/ Disturbed(inputs[i])'
    BY <1>2, <2>2 DEF Disturbed
  <2>4. TodoFits(walk.todo)'
    BY <1>1 DEF TodoFits
  <2>5. /\ walk'.next <= Len(inputs) + 1 /\ walk'.next > 1 /\ walk'.root = inputs[walk'.next - 1]
        /\ IsPrefix(path, path)
    BY <1>1, <1>3, PrefixOrder
  <2> QED BY <1>2, <2>1, <2>3, <2>4, <2>5 DEF PlaceInv
<1>8. OpenInv'
  BY <1>2 DEF OpenInv
<1>9. NothingElse'
  <2> SUFFICES ASSUME NEW k \in DOMAIN entries'
               PROVE  \E i \in Begun', q \in Paths : Explains(i, q, entries[k])'
    BY DEF NothingElse
  <2>1. CASE k \in DOMAIN entries
    <3>1. PICK i \in Begun, q \in Paths : Explains(i, q, entries[k])
      BY <1>1, <2>1 DEF NothingElse
    <3>2. Explains(i, q, entries[k])'
      BY <1>2, <1>5, <2>1, <3>1, SourceStands DEF Explains, Shows
    <3> QED BY <1>3, <3>2
  <2>2. CASE KindAt(path) = "directory" /\ entries'[k] = e
    <3>1. PICK i \in Begun' : i = walk.next
      BY <1>3
    <3>2. Explains(i, path, entries[k])'
      BY <1>2, <1>6, <2>2, <3>1, PrefixOrder, SourceStands DEF Explains, Shows
    <3> QED BY <3>2
  <2> QED BY <1>5, <2>1, <2>2
<1>10. NothingMissed'
  <2> SUFFICES ASSUME NEW i \in Begun', NEW q \in Paths,
                      IsPrefix(inputs[i], q), tree[q] # None, ~Disturbed(q)
               PROVE  Captured(i, q)' \/ (i = walk.next /\ Pending(q)')
    BY <1>2, <1>3, SourceStands DEF NothingMissed
  <2>1. CASE i \in Begun
    <3>1. Captured(i, q)
      BY <1>1, <2>1 DEF NothingMissed, Pending
    <3> QED BY <1>2, <1>5, <3>1, SourceStands DEF Captured, Shows
  <2>2. CASE i = walk.next /\ q = path
    <3>1. CASE KindAt(path) = "file"
      BY <1>2, <2>2, <3>1 DEF Pending
    <3>2. CASE KindAt(path) = "directory"
      BY <1>2, <1>5, <1>6, <2>2, <3>2, SourceStands DEF Captured, Shows
    <3> QED BY <3>1, <3>2
  <2>3. CASE i = walk.next /\ q # path
    <3>1. KindAt(path) = "directory"
      BY <1>1, <2>3 DEF TreeInv, IsStrictPrefix
    <3>2. Pending(q)'
      BY <2>3, <3>1 DEF Pending
    <3> QED BY <2>3, <3>2
  <2> QED BY <1>3, <2>1, <2>2, <2>3
<1>11. QuietInv'
  <2>1. RefusedForCause'
    BY <1>2 DEF RefusedForCause
  <2>2. ASSUME NEW k \in DOMAIN entries, NEW q \in Paths, IsPrefix(path, q)
        PROVE  entries[k].path # ManifestPath(path, q)
    <3>1. PICK i \in Begun, p \in Paths : Explains(i, p, entries[k])
      BY <1>1 DEF NothingElse
    <3> QED BY <1>4, <2>2, <3>1, ManifestPathTells DEF Explains
  <2>3. ASSUME touched = {}
        PROVE  DistinctEntries'
    <3>1. DistinctEntries /\ \A k \in DOMAIN entries : entries[k].path # e.path
      BY <1>1, <1>6, <2>2, <2>3, PrefixOrder DEF QuietInv
    <3> QED BY <1>5, <3>1 DEF DistinctEntries
  <2>4. ListedInv' /\ ApartInv'
    <3>1. /\ walk'.stage = "list" => KindAt(path)' = "directory"
          /\ walk'.stage = "before" => KindAt(path)' = "file"
      BY <1>2 DEF KindAt, Exists
    <3>2. walk'.stage = "list" => KindAt(walk.at)' = "directory"
      BY <3>1 DEF KindAt, Exists
    <3>3. walk'.stage = "before" => KindAt(walk.at)' = "file"
      BY <3>1 DEF KindAt, Exists
    <3>4. walk'.todo = <<>>
      BY <1>1
    <3> QED BY <1>2, <3>2, <3>3, <3>4 DEF ListedInv, TodoListed, ApartInv, TodoApart
  <2>5. FreshInv'
    <3> SUFFICES ASSUME NEW q \in Paths, NEW k \in DOMAIN entries',
                        IsPrefix(path, q), Awaited(q)'
                 PROVE  entries'[k].path # ManifestPath(path, q)
      BY DEF FreshInv
    <3>1. q # path \/ walk'.stage # "list"
      BY <1>1 DEF Awaited, UnderTodo
    <3>2. CASE k \in DOMAIN entries
      BY <1>5, <2>2, <3>2
    <3>3. CASE walk'.stage = "list" /\ entries'[k] = e
      BY <1>6, <3>1, <3>3, ManifestPathTells, PrefixOrder
    <3> QED BY <1>5, <3>2, <3>3
  <2> QED BY <1>2, <2>1, <2>3, <2>4, <2>5 DEF QuietInv
<1> QED BY <1>2, <1>7, <1>8, <1>9, <1>10, <1>11 DEF WholeInv

LEMMA InputExact ==
  ASSUME WholeInv, Input
  PROVE  WholeInv'
<1>1. /\ CaptureInv /\ CaptureInv' /\ DOMAIN walk = WalkFields /\ walk.stage = "input"
      /\ tree \in [Paths -> Things \cup {None}]
  BY InputKeeps DEF WholeInv, CaptureInv, CaptureTypeOK, Input
<1>2. /\ inputs \in Seq(Paths) /\ walk.next \in 1..Len(inputs) /\ Len(inputs) \in Nat
  BY <1>1, InputsArePaths DEF Input
<1> DEFINE path == inputs[walk.next]
           taken == {Last(inputs[i]) : i \in 1..(walk.next - 1)}
           begun == [walk EXCEPT !.next = @ + 1, !.root = path, !.at = path]
           e == DirectoryEntry(ManifestPath(path, path))
<1>3. path \in Paths /\ path \in Range(inputs)
  BY <1>2 DEF Range
<1>4. CASE Last(path) \in taken \/ KindAt(path) \notin {"file", "directory"}
  <2>1. Refuse
    BY <1>4 DEF Input
  <2>2. ASSUME touched = {}
        PROVE  Refusable
    <3>1. CASE Last(path) \in taken
      <4>1. PICK i \in 1..(walk.next - 1) : Last(inputs[i]) = Last(path)
        BY <3>1
      <4>2. i \in DOMAIN inputs /\ walk.next \in DOMAIN inputs /\ i # walk.next
        BY <1>2
      <4> QED BY <4>1, <4>2 DEF Refusable, Acceptable
    <3>2. CASE tree[path] = None
      <4>1. ~Disturbed(path)
        BY <2>2 DEF Disturbed
      <4> QED BY <1>3, <3>2, <4>1 DEF Refusable, Acceptable
    <3>3. CASE tree[path] # None /\ KindAt(path) \notin {"file", "directory"}
      <4> DEFINE item == ItemAt(path, path)
      <4>1. item \in Source /\ item.kind = KindAt(path)
        BY <1>1, <1>2, <1>3, <3>3, PrefixOrder, SourceHasItems DEF ItemAt
      <4> QED BY <3>3, <4>1 DEF Refusable, Acceptable
    <3> QED BY <1>4, <3>1, <3>2, <3>3
  <2> QED BY <2>1, <2>2, RefuseEnds
<1>5. CASE Last(path) \notin taken /\ KindAt(path) \in {"file", "directory"}
  <2>1. /\ \/ /\ KindAt(path) = "file"
              /\ walk' = [begun EXCEPT !.stage = "before"] /\ entries' = entries
           \/ /\ KindAt(path) = "directory"
              /\ walk' = [begun EXCEPT !.stage = "list"] /\ entries' = Append(entries, e)
        /\ UNCHANGED <<sourceVars, inputs, open>>
    BY <1>5 DEF Input
  <2>2. /\ DOMAIN begun = WalkFields /\ begun.root = path /\ begun.next = walk.next + 1
        /\ begun.at = path /\ begun.todo = walk.todo
    BY <1>1 DEF WalkFields
  <2>3. e \in Entries
    BY <1>3, ManifestPathIsAPath, DirectoriesAreEntries
  <2>4. \A i \in Begun : Last(inputs[i]) # Last(path)
    BY <1>5 DEF Begun
  <2> HIDE DEF begun
  <2>5. /\ DOMAIN walk' = WalkFields /\ walk'.next = walk.next + 1 /\ walk'.root = path
        /\ walk'.at = path /\ walk'.todo = walk.todo
        /\ \/ KindAt(path) = "file" /\ walk'.stage = "before" /\ entries' = entries
           \/ KindAt(path) = "directory" /\ walk'.stage = "list" /\ entries' = Append(entries, e)
    <3>1. CASE KindAt(path) = "file" /\ walk' = [begun EXCEPT !.stage = "before"]
      BY <2>1, <2>2, <3>1, WalkMoves
    <3>2. CASE KindAt(path) = "directory" /\ walk' = [begun EXCEPT !.stage = "list"]
      BY <2>1, <2>2, <3>2, WalkMoves
    <3> QED BY <2>1, <3>1, <3>2
  <2> HIDE DEF path, e
  <2>6. path = inputs[walk.next] /\ e = DirectoryEntry(ManifestPath(path, path))
    BY DEF path, e
  <2> QED BY <1>1, <1>2, <1>3, <2>1, <2>3, <2>4, <2>5, <2>6, InputBegins
<1> QED BY <1>4, <1>5

-----------------------------------------------------------------------------
LEMMA ExactNext == WholeInv /\ [Next]_vars => WholeInv'
<1> SUFFICES ASSUME WholeInv, [Next]_vars PROVE WholeInv'
  OBVIOUS
<1>1. CaptureInv
  BY DEF WholeInv
<1>2. CASE WalkStep
  <2>1. CASE Input
    BY <2>1, InputExact
  <2>2. CASE List
    BY <2>2, ListExact
  <2>3. CASE Inspect
    BY <2>3, InspectExact
  <2>4. CASE Before
    BY <2>4, BeforeExact
  <2>5. CASE Open
    BY <2>5, OpenExact
  <2>6. CASE Read
    BY <2>6, ReadExact
  <2>7. CASE Settle
    BY <2>7, SettleExact
  <2>8. CASE Finish
    BY <2>8, FinishExact
  <2>9. CASE Interrupt
    BY <1>1, <2>9, EndKeeps, InterruptEnds
  <2> QED
    BY <1>2, <2>1, <2>2, <2>3, <2>4, <2>5, <2>6, <2>7, <2>8, <2>9 DEF WalkStep
<1>3. CASE SourceStep
  <2>1. CASE \E id \in DOMAIN files : Write(id)
    BY <2>1, WriteSpares
  <2>2. CASE \E path \in Paths, kind \in {"file", "directory", "link", "special"} :
                Place(path, kind)
    BY <2>2, PlaceSpares
  <2>3. CASE \E path \in Paths : Unlink(path)
    BY <2>3, UnlinkSpares
  <2>4. CASE Tick
    <3>1. CaptureInv'
      BY <1>1, <2>4, TickKeeps
    <3> QED BY <2>4, <3>1, WholeStands DEF Tick, captureVars
  <2> QED BY <1>3, <2>1, <2>2, <2>3, <2>4 DEF SourceStep
<1>4. CASE UNCHANGED vars
  <2>1. CaptureInv'
    BY <1>1, <1>4, StandingStill
  <2> QED BY <1>4, <2>1, WholeStands DEF vars, sourceVars, captureVars
<1> QED BY <1>2, <1>3, <1>4 DEF Next

\* The walk is done: every input was begun and nothing is still to be visited.
LEMMA DoneIsExact ==
  ASSUME WholeInv, walk.stage = "done"
  PROVE  Untouched(Content) = Untouched(Source) /\ Acceptable(Untouched(Source))
<1>1. /\ CaptureInv /\ PlaceInv /\ NothingElse /\ NothingMissed /\ entries \in Seq(Entries)
      /\ inputs \in Seq(Paths) /\ Len(inputs) \in Nat
  BY InputsArePaths DEF WholeInv, CaptureInv, CaptureTypeOK
<1>2. Begun = 1..Len(inputs) /\ DOMAIN inputs = 1..Len(inputs)
  <2>1. walk.next = Len(inputs) + 1
    BY <1>1 DEF PlaceInv
  <2> QED BY <1>1, <2>1 DEF Begun
<1>3. ASSUME NEW i \in 1..Len(inputs), NEW p \in Paths, IsPrefix(inputs[i], p),
             ManifestPath(inputs[i], p) \notin DisturbedEntries
      PROVE  ~Disturbed(p)
  <2>1. inputs[i] \in Range(inputs)
    BY <1>2 DEF Range
  <2> QED BY <1>3, <2>1 DEF DisturbedEntries
<1>4. Content = {Bare(entries[k]) : k \in DOMAIN entries}
  BY DEF Content, Bare, Range
<1>5. ASSUME NEW x \in Untouched(Content)
      PROVE  x \in Untouched(Source)
  <2>1. PICK k \in DOMAIN entries : x = Bare(entries[k])
    BY <1>4, <1>5 DEF Untouched
  <2>2. PICK i \in Begun, p \in Paths : Explains(i, p, entries[k])
    BY <1>1 DEF NothingElse
  <2>3. x.path = ManifestPath(inputs[i], p) /\ x.path \notin DisturbedEntries
    BY <1>5, <2>1, <2>2 DEF Explains, Bare, Untouched
  <2>4. Shows(entries[k], p)
    BY <1>2, <1>3, <2>2, <2>3 DEF Explains
  <2>5. x = ItemAt(inputs[i], p)
    BY <2>1, <2>2, <2>4 DEF Bare, ItemAt, Shows, Explains
  <2>6. x \in Source
    BY <1>1, <1>2, <2>2, <2>4, <2>5, SourceHasItems DEF Shows, Explains
  <2> QED BY <2>3, <2>6 DEF Untouched
<1>6. ASSUME NEW x \in Untouched(Source)
      PROVE  x \in Untouched(Content)
  <2>1. x \in Source /\ x.path \notin DisturbedEntries
    BY <1>6 DEF Untouched
  <2>2. PICK i \in 1..Len(inputs), p \in Paths :
           IsPrefix(inputs[i], p) /\ tree[p] # None /\ x = ItemAt(inputs[i], p)
    BY <1>1, <2>1, SourceIsItems
  <2>3. ~Disturbed(p)
    BY <1>3, <2>1, <2>2 DEF ItemAt
  <2>4. ~Pending(p)
    BY DEF Pending, Walking
  <2>5. Captured(i, p)
    BY <1>1, <1>2, <2>2, <2>3, <2>4 DEF NothingMissed
  <2>6. PICK k \in DOMAIN entries :
           entries[k].path = ManifestPath(inputs[i], p) /\ Shows(entries[k], p)
    BY <2>5 DEF Captured
  <2>7. x = Bare(entries[k])
    BY <2>2, <2>6 DEF Bare, ItemAt, Shows
  <2> QED BY <1>4, <2>1, <2>7 DEF Untouched
<1>7. Untouched(Content) = Untouched(Source)
  BY <1>5, <1>6
<1>8. Acceptable(Untouched(Source))
  <2>1. ASSUME NEW x \in Untouched(Content)
        PROVE  x.kind \in {"file", "directory"}
    <3>1. PICK k \in DOMAIN entries : x = Bare(entries[k])
      BY <1>4, <2>1 DEF Untouched
    <3>2. \A e \in Entries : e.kind \in {"file", "directory"}
      BY DEF Entries
    <3> QED BY <1>1, <3>1, <3>2 DEF Bare
  <2>2. \A i, j \in DOMAIN inputs : Last(inputs[i]) = Last(inputs[j]) => i = j
    BY <1>1, <1>2 DEF PlaceInv
  <2>3. \A input \in Range(inputs) : tree[input] # None \/ Disturbed(input)
    BY <1>1, <1>2 DEF PlaceInv, Range
  <2> QED BY <1>7, <2>1, <2>2, <2>3 DEF Acceptable
<1> QED BY <1>7, <1>8

(***************************************************************************)
(* Whatever is done to the source while the inputs are walked, everything   *)
(* that create_drop holds is of a path under an input it has begun, each    *)
(* such path that nobody disturbed has its entry, or its turn is still to   *)
(* come, and no path is captured twice before the first change.             *)
(***************************************************************************)
THEOREM WholeInvariance == Spec => []WholeInv
<1>1. Init => WholeInv
  BY ExactInit
<1>2. WholeInv /\ [Next]_vars => WholeInv'
  BY ExactNext
<1> QED BY <1>1, <1>2, PTL DEF Spec

(***************************************************************************)
(* Changes stay where they are made: for every source, every inputs and any *)
(* number of changes a finished capture has, at the paths nobody disturbed, *)
(* exactly what the inputs hold, and an untouched source is refused only    *)
(* for what it holds.                                                       *)
(***************************************************************************)
THEOREM UntouchedPathsStayExact == Spec => []UntouchedPathsAreExact
<1>1. WholeInv => UntouchedPathsAreExact
  <2> SUFFICES ASSUME WholeInv PROVE UntouchedPathsAreExact
    OBVIOUS
  <2>1. FinishedIsExact
    BY DoneIsExact DEF FinishedIsExact
  <2>2. RefusedForCause
    BY DEF WholeInv, QuietInv
  <2> QED BY <2>1, <2>2 DEF UntouchedPathsAreExact
<1> QED BY <1>1, WholeInvariance, PTL

=============================================================================
