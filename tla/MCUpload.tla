------------------------------- MODULE MCUpload -------------------------------
(* A name sent twice, the name its copy will get, and the name that is made   *)
(* up for the second file when its own is refused.                            *)
EXTENDS Upload

MCRawNames ==
    {[stem |-> "a", tail |-> <<>>], [stem |-> "a", tail |-> <<2>>],
     [stem |-> "upload", tail |-> <<2>>]}
=============================================================================
