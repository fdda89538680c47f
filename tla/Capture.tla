------------------------------- MODULE Capture -------------------------------
(***************************************************************************)
(* How Storage::create_drop of src/src/storage.rs walks its inputs and      *)
(* captures each file (capture_file) while others change the source.  What  *)
(* a capture leaves in the object store, and the row that ends a            *)
(* publication, is ObjectStore's.                                           *)
(*                                                                         *)
(* A path is a sequence of names, a name a number by its place in the order *)
(* of names.  The bytes of a file are a sequence of blocks, a block what    *)
(* one read of the copy loop returns.  A change puts the present tick of a  *)
(* clock on its file: mtime and ctime in one, and as coarse as they are.    *)
(* Left out: names that safe_component refuses, inputs given through links  *)
(* in their parents (canonicalize resolves them), and where a link leads:   *)
(* links here lead nowhere.                                                 *)
(***************************************************************************)
EXTENDS Integers, FiniteSets, SequencesExt

CONSTANTS
    Paths,       \* the paths of the source, with all their prefixes but <<>>
    Trees,       \* what may be at them when the capture starts
    InputLists,  \* the lists of inputs that may be given
    MaxFiles,    \* MAX_FILES
    MaxBytes,    \* MAX_LOGICAL_BYTES, in blocks
    MaxEdits,    \* bound of the model: changes made by others
    MaxTicks,    \* bound of the model: the clock stops here
    None         \* an absent value

\* A file is named by the path and the change that made it.
FileId(path, nth) == [at |-> path, nth |-> nth]
FileIds == [at : Paths, nth : Nat]

Things ==
    [kind : {"file"}, id : FileIds] \cup [kind : {"directory", "link", "special"}, id : {None}]

ASSUME CaptureAssumption ==
    /\ IsFiniteSet(Paths)
    /\ \A p \in Paths :
          /\ p \in Seq(Nat) /\ p # <<>>
          /\ \A n \in 1..Len(p) : SubSeq(p, 1, n) \in Paths
    /\ \A t \in Trees :
          /\ t \in [Paths -> Things \cup {None}]
          /\ \A p \in Paths : t[p] # None =>
                \A n \in 1..(Len(p) - 1) : t[SubSeq(p, 1, n)] = [kind |-> "directory", id |-> None]
          /\ \A p \in Paths : t[p] # None /\ t[p].kind = "file" => t[p].id = FileId(p, 0)
    /\ \A l \in InputLists : l \in Seq(Paths) /\ l # <<>>
    /\ MaxFiles \in Nat /\ MaxBytes \in Nat

\* The file being captured, and an entry of the manifest: see Open and
\* FileEntry for what is history in them.
Captures ==
    [id : FileIds, size : Nat, stamp : Nat, moment : Seq(Nat), copied : Seq(Nat),
     hidden : BOOLEAN]
ASSUME NoneIsNothing == None \notin Things /\ None \notin Captures

VARIABLES
    tree,     \* what is at each path: its kind and file, None if nothing is
    files,    \* bytes and timestamp of each file, also of a removed one
    clock,    \* the tick of the file system's timestamps
    edits,    \* history: the number of changes made
    touched,  \* history: the paths they were made at
    inputs,   \* the inputs given
    walk,     \* where create_drop is
    open,     \* the file being captured, None if none is
    entries   \* the entries captured so far

sourceVars == <<tree, files, clock, edits, touched>>
captureVars == <<inputs, walk, open, entries>>
vars == <<sourceVars, captureVars>>

-----------------------------------------------------------------------------
Exists(path) == path \in Paths /\ tree[path] # None
KindAt(path) == IF Exists(path) THEN tree[path].kind ELSE "absent"
Children(path) == {p \in Paths : Front(p) = path /\ tree[p] # None}
IsDirectory(path) == IF path = <<>> THEN TRUE ELSE KindAt(path) = "directory"

\* The path in the manifest of what is found at path under an input.
ManifestPath(root, path) == <<Last(root)>> \o SubSeq(path, Len(root) + 1, Len(path))

\* moment and clear are history: the bytes of the file when it was opened, and
\* whether no change since was hidden by the coarseness of timestamps.
DirectoryEntry(path) ==
    [path |-> path, kind |-> "directory", data |-> <<>>, moment |-> <<>>, clear |-> TRUE]
FileEntry(path) ==
    [path |-> path, kind |-> "file", data |-> open.copied, moment |-> open.moment,
     clear |-> ~open.hidden]

Init ==
    /\ tree \in Trees
    /\ \E ages \in [{p \in Paths : KindAt(p) = "file"} -> {0, 1}] :
          files = [id \in {tree[p].id : p \in DOMAIN ages} |->
                     [data |-> <<0, 0>>, stamp |-> ages[id.at]]]
    /\ clock = 1
    /\ edits = 0
    /\ touched = {}
    /\ inputs \in InputLists
    /\ walk = [stage |-> "input", next |-> 1, root |-> None, at |-> None, todo |-> <<>>]
    /\ open = None
    /\ entries = <<>>

Active == walk.stage \notin {"done", "refused", "interrupted"}

-----------------------------------------------------------------------------
\* Every refusal ends the publication; TempCleanup removes the copy.
Refuse ==
    /\ walk' = [walk EXCEPT !.stage = "refused"]
    /\ open' = None
    /\ UNCHANGED <<sourceVars, inputs, entries>>

\* The walk goes on to the next listed entry, or to the next input.  A
\* directory, as it was when it was listed, is listed before it is inspected.
Onwards(todo) ==
    IF todo = <<>> THEN [walk EXCEPT !.stage = "input", !.todo = todo]
    ELSE [walk EXCEPT !.stage = IF Head(todo).directory THEN "list" ELSE "inspect",
                      !.at = Head(todo).path, !.todo = Tail(todo)]

\* An input: links, special files and names already taken are refused.
Input ==
    /\ walk.stage = "input"
    /\ walk.next <= Len(inputs)
    /\ LET path == inputs[walk.next]
           taken == {Last(inputs[i]) : i \in 1..(walk.next - 1)}
           begun == [walk EXCEPT !.next = @ + 1, !.root = path, !.at = path]
       IN  IF Last(path) \in taken \/ KindAt(path) \notin {"file", "directory"} THEN Refuse
           ELSE /\ IF KindAt(path) = "file"
                   THEN /\ walk' = [begun EXCEPT !.stage = "before"]
                        /\ UNCHANGED entries
                   ELSE /\ walk' = [begun EXCEPT !.stage = "list"]
                        /\ entries' = Append(entries,
                                          DirectoryEntry(ManifestPath(path, path)))
                /\ UNCHANGED <<sourceVars, inputs, open>>

\* Mutant: what a nested directory holds replaces what is still to be visited.
TodoNestedOnly(listed) == listed

TodoWith(listed) == listed \o walk.todo

\* sort_by_file_name: the k-th has k names up to its own.
Sorted(paths) ==
    [k \in 1..Cardinality(paths) |->
        CHOOSE p \in paths : Cardinality({q \in paths : Last(q) <= Last(p)}) = k]

\* readdir: what a directory holds now, in the order of the names.  An input
\* that has become a file is walked as an empty directory.
List ==
    /\ walk.stage = "list"
    /\ LET root == walk.at = walk.root
           children == Sorted(Children(walk.at))
           listed == [i \in DOMAIN children |->
                        [path |-> children[i], directory |-> KindAt(children[i]) = "directory"]]
       IN  IF \/ KindAt(walk.at) = "directory"
              \/ root /\ KindAt(walk.at) \in {"file", "special"}
           THEN /\ walk' = IF root THEN Onwards(TodoWith(listed))
                           ELSE [walk EXCEPT !.stage = "inspect", !.todo = TodoWith(listed)]
                /\ UNCHANGED <<sourceVars, inputs, open, entries>>
           ELSE Refuse

\* The limit is looked at after each entry below an input, not after an input.
WithinLimit(found) == Len(found) <= MaxFiles

\* symlink_metadata of an entry that was listed.
Inspect ==
    /\ walk.stage = "inspect"
    /\ LET found == Append(entries, DirectoryEntry(ManifestPath(walk.root, walk.at)))
       IN  IF KindAt(walk.at) = "file"
           THEN /\ walk' = [walk EXCEPT !.stage = "before"]
                /\ UNCHANGED <<sourceVars, inputs, open, entries>>
           ELSE IF KindAt(walk.at) = "directory" /\ WithinLimit(found)
           THEN /\ entries' = found
                /\ walk' = Onwards(walk.todo)
                /\ UNCHANGED <<sourceVars, inputs, open>>
           ELSE Refuse

\* capture_file: the metadata of the path before it is opened ...
Before ==
    /\ walk.stage = "before"
    /\ IF KindAt(walk.at) = "file"
       THEN /\ open' = [id |-> tree[walk.at].id, size |-> 0, stamp |-> 0,
                        moment |-> <<>>, copied |-> <<>>, hidden |-> FALSE]
            /\ walk' = [walk EXCEPT !.stage = "open"]
            /\ UNCHANGED <<sourceVars, inputs, entries>>
       ELSE Refuse

\* ... it is opened without following links, and must be the same file ...
Open ==
    /\ walk.stage = "open"
    /\ IF KindAt(walk.at) = "file" /\ tree[walk.at].id = open.id
       THEN LET file == files[open.id]
            IN  /\ open' = [open EXCEPT !.size = Len(file.data), !.stamp = file.stamp,
                                        !.moment = file.data]
                /\ walk' = [walk EXCEPT !.stage = "copy"]
                /\ UNCHANGED <<sourceVars, inputs, entries>>
       ELSE Refuse

\* ... its blocks are read up to its end, wherever that is by then ...
Read ==
    /\ walk.stage = "copy"
    /\ LET data == files[open.id].data
           n == Len(open.copied) + 1
       IN  IF n > Len(data)
           THEN /\ walk' = [walk EXCEPT !.stage = "settle"]
                /\ UNCHANGED <<sourceVars, inputs, open, entries>>
           ELSE IF n > MaxBytes THEN Refuse
           ELSE /\ open' = [open EXCEPT !.copied = Append(@, data[n])]
                /\ UNCHANGED <<sourceVars, inputs, walk, entries>>

\* Mutant: only the lengths are compared.
StableLength(file) == Len(file.data) = open.size /\ Len(open.copied) = Len(file.data)

\* stable_during_copy, and copied == after.len()
Stable(file) ==
    /\ Len(file.data) = open.size
    /\ file.stamp = open.stamp
    /\ Len(open.copied) = Len(file.data)

\* ... and must not have changed meanwhile.
Settle ==
    /\ walk.stage = "settle"
    /\ LET found == Append(entries, FileEntry(ManifestPath(walk.root, walk.at)))
       IN  IF Stable(files[open.id]) /\ (walk.at = walk.root \/ WithinLimit(found))
           THEN /\ entries' = found
                /\ walk' = Onwards(walk.todo)
                /\ open' = None
                /\ UNCHANGED <<sourceVars, inputs>>
           ELSE Refuse

\* The sum of the sizes: the number of the blocks of all.
BytesOf(found) == Cardinality(UNION {{i} \X DOMAIN found[i].data : i \in DOMAIN found})

\* All inputs are walked: duplicate paths and the total are looked at.
Finish ==
    /\ walk.stage = "input"
    /\ walk.next > Len(inputs)
    /\ IF /\ Cardinality({entries[i].path : i \in DOMAIN entries}) = Len(entries)
          /\ BytesOf(entries) <= MaxBytes
       THEN /\ walk' = [walk EXCEPT !.stage = "done"]
            /\ UNCHANGED <<sourceVars, inputs, open, entries>>
       ELSE Refuse

\* The disk is full, or the process is killed.
Interrupt ==
    /\ Active
    /\ walk' = [walk EXCEPT !.stage = "interrupted"]
    /\ open' = None
    /\ UNCHANGED <<sourceVars, inputs, entries>>

-----------------------------------------------------------------------------
\* Others change the source.
Edit(path) ==
    /\ Active
    /\ edits < MaxEdits
    /\ edits' = edits + 1
    /\ touched' = touched \cup {path}

\* A change of a file puts the tick on it; it is hidden if that was there.
Touch(id, data) ==
    /\ files' = [files EXCEPT ![id] = [data |-> data, stamp |-> clock]]
    /\ open' = IF /\ open # None
                  /\ walk.stage \in {"copy", "settle"}
                  /\ id = open.id
               THEN [open EXCEPT !.hidden = @ \/ files[id].stamp = clock]
               ELSE open

\* What a write makes of data: a block replaced or added, or all of it cut.
Written(data) ==
    {[data EXCEPT ![i] = edits + 1] : i \in DOMAIN data}
        \cup {Append(data, edits + 1), <<>>}

Write(id) ==
    /\ Edit(id.at)
    /\ \E data \in Written(files[id].data) : Touch(id, data)
    /\ UNCHANGED <<tree, clock, inputs, walk, entries>>

\* A file, removed or not, with its new bytes at a path.
Create(path) ==
    /\ tree' = [tree EXCEPT ![path] = [kind |-> "file", id |-> FileId(path, edits + 1)]]
    /\ files' = [id \in DOMAIN files \cup {FileId(path, edits + 1)} |->
          IF id \in DOMAIN files THEN files[id] ELSE [data |-> <<edits + 1>>, stamp |-> clock]]
    /\ UNCHANGED open

\* Something is made where nothing was.
Place(path, kind) ==
    /\ Edit(path)
    /\ IsDirectory(Front(path)) /\ tree[path] = None
    /\ IF kind = "file" THEN Create(path)
       ELSE /\ tree' = [tree EXCEPT ![path] = [kind |-> kind, id |-> None]]
            /\ UNCHANGED <<files, open>>
    /\ UNCHANGED <<clock, inputs, walk, entries>>

\* A file, a link or an empty directory is removed; a file may stay open.
Unlink(path) ==
    /\ Edit(path)
    /\ tree[path] # None /\ Children(path) = {}
    /\ tree' = [tree EXCEPT ![path] = None]
    /\ IF KindAt(path) = "file" THEN Touch(tree[path].id, files[tree[path].id].data)
       ELSE UNCHANGED <<files, open>>
    /\ UNCHANGED <<clock, inputs, walk, entries>>

Tick ==
    /\ Active
    /\ clock < MaxTicks
    /\ clock' = clock + 1
    /\ UNCHANGED <<tree, files, edits, touched, captureVars>>

-----------------------------------------------------------------------------
WalkStep ==
    \/ Input
    \/ List
    \/ Inspect
    \/ Before
    \/ Open
    \/ Read
    \/ Settle
    \/ Finish
    \/ Interrupt

SourceStep ==
    \/ \E id \in DOMAIN files : Write(id)
    \/ \E path \in Paths :
          \/ \E kind \in {"file", "directory", "link", "special"} : Place(path, kind)
          \/ Unlink(path)
    \/ Tick

Next == WalkStep \/ SourceStep

Spec == Init /\ [][Next]_vars

-----------------------------------------------------------------------------
(***************************************************************************)
(* A captured file is the file as it was when it was opened, all of it and  *)
(* nothing else, however it was written, cut, lengthened, unlinked or       *)
(* replaced while its blocks were read -- unless a change within one tick   *)
(* of the timestamps hid itself from stable_during_copy.                    *)
(***************************************************************************)
EachFileIsOneMoment ==
    \A e \in Range(entries) : e.clear => e.data = e.moment

\* What an input holds, at the paths it gets in the manifest.
Holds(input) ==
    {[path |-> ManifestPath(input, p), kind |-> KindAt(p),
      data |-> IF KindAt(p) = "file" THEN files[tree[p].id].data ELSE <<>>] :
     p \in {q \in Paths : IsPrefix(input, q) /\ tree[q] # None}}

\* A path is disturbed when somebody touched it or a directory it is in.
Disturbed(path) == \E t \in touched : IsPrefix(t, path)
DisturbedEntries ==
    UNION {{ManifestPath(input, p) : p \in {q \in Paths : IsPrefix(input, q) /\ Disturbed(q)}} :
           input \in Range(inputs)}

Acceptable(source) ==
    /\ \A item \in source : item.kind \in {"file", "directory"}
    /\ \A i, j \in DOMAIN inputs : Last(inputs[i]) = Last(inputs[j]) => i = j
    /\ \A input \in Range(inputs) : tree[input] # None \/ Disturbed(input)

Source == UNION {Holds(input) : input \in Range(inputs)}
Content == {[path |-> e.path, kind |-> e.kind, data |-> e.data] : e \in Range(entries)}
Untouched(items) == {item \in items : item.path \notin DisturbedEntries}

FinishedIsExact ==
    walk.stage = "done" =>
        /\ Untouched(Content) = Untouched(Source)
        /\ Acceptable(Untouched(Source))

Refusable ==
    \/ ~Acceptable(Source)
    \/ Cardinality(Source) > MaxFiles
    \/ BytesOf([item \in Source |-> item]) > MaxBytes

RefusedForCause == walk.stage = "refused" /\ touched = {} => Refusable

(***************************************************************************)
(* Changes stay where they are made.  A finished capture has exactly what   *)
(* the inputs hold, at every path that nobody touched and whose directories *)
(* nobody touched, whatever went on elsewhere in the tree between listing,  *)
(* inspecting and copying; and a source that nobody touched at all is       *)
(* refused only for what it holds.                                          *)
(***************************************************************************)
UntouchedPathsAreExact == FinishedIsExact /\ RefusedForCause
=============================================================================
