----------------------------- MODULE MCCapture -----------------------------
(* A directory with a directory or a file, and a file, next to a file of its *)
(* own: nested walks, overlapping names, links and special files.           *)
EXTENDS Capture

root == <<1>>
sub == <<1, 1>>
leaf == <<1, 1, 2>>
beside == <<1, 2>>
single == <<2>>

MCPaths == {root, sub, leaf, beside, single}

FileAt(path) == [kind |-> "file", id |-> FileId(path, 0)]
Other(kind) == [kind |-> kind, id |-> None]

Tree(s, l, b, f) ==
    root :> Other("directory") @@ sub :> s @@ leaf :> l @@ beside :> b @@ single :> f

MCTrees ==
    {Tree(FileAt(sub), None, FileAt(beside), FileAt(single)),
     Tree(Other("directory"), FileAt(leaf), FileAt(beside), Other("directory")),
     Tree(Other("directory"), None, Other("link"), Other("special"))}

MCInputLists == {<<root>>, <<root, single>>, <<single, beside>>}
=============================================================================
