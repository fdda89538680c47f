--------------------------- MODULE MCCommandLine ---------------------------
(* Codes of two characters, under one of two workloads.  "names": commands   *)
(* one after the other on drops of which two differ only in case and one has *)
(* an underscore at the same place.  "codes": commands side by side on two   *)
(* of the drops, and the codes of one of them expire and are redeemed.       *)
EXTENDS CommandLine

MCUpperOf == [c \in {"a", "b"} |-> IF c = "a" THEN "A" ELSE "B"]
MCDigits == {"2"}
MCCodes == {<<"A", "2">>, <<"2", "A">>, <<"2", "2">>}

abA == <<"a", "b", "A">>
MCDropIds == {abA, <<"a", "B", "A">>, <<"a", "_", "A">>}
MCReferences == {<<" ">> \o abA, <<"a", "_">>, <<"a">>, <<"a", "%", "A">>}

Symmetry == Permutations(Processes)

VARIABLE workload

OneAtATime ==
    /\ \A p, q \in Processes : proc[p].stage # "off" /\ proc[q].stage # "off" => p = q
    /\ \A d \in StoredDrops : rows[d].fresh /\ rows[d].left = None

TwoDrops ==
    /\ \A d \in StoredDrops :
          d[2] # "_" /\ (d # abA => rows[d].fresh /\ rows[d].left = None)
    /\ \A p \in Processes : job[p] # None => job[p].reference \in {None, <<" ">> \o abA}

MCInit == CommandInit /\ workload \in {"names", "codes"}

MCNext ==
    /\ CommandNext
    /\ IF workload = "names" THEN OneAtATime' ELSE TwoDrops'
    /\ UNCHANGED workload

MCSpec == MCInit /\ [][MCNext]_<<allVars, workload>>
=============================================================================
