-------------------------- MODULE ObjectStoreProofs --------------------------
(***************************************************************************)
(* Theorems about ObjectStore and Doctor: only a publication that overlaps  *)
(* gc can lose an object, only a kill leaves a file under tmp/, and what    *)
(* the doctor reports beside them is so.                                    *)
(***************************************************************************)
EXTENDS Doctor, FiniteSetTheorems, TLAPS

-----------------------------------------------------------------------------
(***************************************************************************)
(* The inductive invariant.  What lets gc unlink without a lock is that the *)
(* drops stored while a run is in progress, raced ones apart, were stored   *)
(* before it read the references: they are referenced, or doomed and purged *)
(* before anything is unlinked.  That needs a drop to be published once and *)
(* by one publisher.                                                        *)
(***************************************************************************)
Drop(p) == publisher[p].drop
InProgress == {Drop(p) : p \in Publishing}

PublishedOnce ==
    /\ Stored \subseteq begun
    /\ tmp \subseteq begun
    /\ \A p \in Publishing : Drop(p) \in begun /\ Drop(p) \notin Stored
    /\ \A p, q \in Publishing : Drop(p) = Drop(q) => p = q
    /\ \A c \in Collecting :
          /\ collector[c].doomed \subseteq begun
          /\ collector[c].doomed \cap InProgress = {}

OverlapIsRaced == Collecting # {} => InProgress \subseteq raced

\* A collector leaves alone what d references.
Spares(c, d) ==
    \/ drops[d].objs \subseteq collector[c].referenced
    \/ collector[c].stage = "walk" /\ d \in collector[c].doomed

CollectorsSpareTheRest ==
    \A c \in Collecting :
        /\ collector[c].candidates \cap collector[c].referenced = {}
        /\ \A d \in Stored \ raced : Spares(c, d)

\* Between two files a publication has no copy under tmp/.
CopiesAreOfOneFile ==
    \A p \in Publishing : publisher[p].stage \in {"capture", "seal"} => Drop(p) \notin tmp

\* A publication that is not between two files has one.
FilesAreNamed ==
    \A p \in Publishing : publisher[p].stage # "capture" => publisher[p].file \in Objects

Leftover == tmp \ InProgress

LeftoverIsOfKills == IsFiniteSet(Leftover) /\ Cardinality(Leftover) <= kills

IInv ==
    /\ TypeOK
    /\ PublishedOnce
    /\ OverlapIsRaced
    /\ CollectorsSpareTheRest
    /\ OnlyRacedDropsLoseObjects
    /\ CopiesAreOfOneFile
    /\ FilesAreNamed
    /\ LeftoverIsOfKills

-----------------------------------------------------------------------------
LEMMA InitIInv == Init => IInv
<1> SUFFICES ASSUME Init PROVE IInv
  OBVIOUS
<1>1. Stored = {} /\ Publishing = {} /\ Collecting = {} /\ InProgress = {}
  BY DEF Init, Stored, Publishing, Collecting, InProgress
<1>2. TypeOK
  BY KillAssumption DEF Init, TypeOK
<1>3. LeftoverIsOfKills
  BY <1>1, FS_EmptySet DEF Init, Leftover, LeftoverIsOfKills
<1> QED
  BY <1>1, <1>2, <1>3
     DEF Init, IInv, PublishedOnce, OverlapIsRaced, CollectorsSpareTheRest,
         OnlyRacedDropsLoseObjects, CopiesAreOfOneFile,
         FilesAreNamed

\* What a publisher that goes on with its publication leaves as it was.
LEMMA GoesOn ==
    ASSUME TypeOK, NEW p \in Publishing, NEW r \in Publication, r.drop = Drop(p),
           publisher' = [publisher EXCEPT ![p] = r]
    PROVE  /\ Publishing' = Publishing
           /\ publisher'[p] = r
           /\ \A q \in Publishing : q # p => publisher'[q] = publisher[q]
           /\ \A q \in Publishing : Drop(q)' = Drop(q)
           /\ InProgress' = InProgress
           /\ publisher' \in [Publishers -> Publication \cup {None}]
<1>1. p \in Publishers /\ publisher[p] # None /\ r # None
  BY NoneAssumption DEF Publishing
<1>2. /\ publisher' \in [Publishers -> Publication \cup {None}]
      /\ \A q \in Publishers : publisher'[q] = IF q = p THEN r ELSE publisher[q]
  BY <1>1 DEF TypeOK
<1>3. Publishing' = Publishing
  BY <1>1, <1>2 DEF Publishing
<1>4. \A q \in Publishing : Drop(q)' = Drop(q)
  BY <1>2 DEF Drop, Publishing
<1>5. InProgress' = InProgress
  BY <1>3, <1>4 DEF InProgress
<1> QED BY <1>1, <1>2, <1>3, <1>4, <1>5 DEF Publishing

\* What a publisher that ends leaves as it was.
LEMMA Ends ==
    ASSUME TypeOK, PublishedOnce, NEW p \in Publishing,
           publisher' = [publisher EXCEPT ![p] = None]
    PROVE  /\ Publishing' = Publishing \ {p}
           /\ \A q \in Publishing' : publisher'[q] = publisher[q] /\ Drop(q)' = Drop(q)
           /\ InProgress' = InProgress \ {Drop(p)}
           /\ publisher' \in [Publishers -> Publication \cup {None}]
<1>1. p \in Publishers
  BY DEF Publishing
<1>2. /\ publisher' \in [Publishers -> Publication \cup {None}]
      /\ \A q \in Publishers : publisher'[q] = IF q = p THEN None ELSE publisher[q]
  BY <1>1 DEF TypeOK
<1>3. Publishing' = Publishing \ {p}
  BY <1>1, <1>2 DEF Publishing
<1>4. \A q \in Publishing' : publisher'[q] = publisher[q] /\ Drop(q)' = Drop(q)
  BY <1>2, <1>3 DEF Drop, Publishing
<1>5. InProgress' = InProgress \ {Drop(p)}
  BY <1>3, <1>4 DEF InProgress, PublishedOnce
<1> QED BY <1>2, <1>3, <1>4, <1>5

\* Fewer leftovers are no more than the kills.
LEMMA FewerLeftovers ==
    ASSUME LeftoverIsOfKills, Leftover' \subseteq Leftover, kills' = kills, kills \in Nat
    PROVE  LeftoverIsOfKills'
<1>1. /\ IsFiniteSet(Leftover') /\ Cardinality(Leftover') <= Cardinality(Leftover)
  BY FS_Subset DEF LeftoverIsOfKills
<1>2. Cardinality(Leftover) \in Nat /\ Cardinality(Leftover') \in Nat
  BY <1>1, FS_CardinalityType DEF LeftoverIsOfKills
<1> QED BY <1>1, <1>2 DEF LeftoverIsOfKills

-----------------------------------------------------------------------------
\* A step of a publication that goes on, has its own file under tmp/ or none,
\* and takes nothing away from the store.
LEMMA GoingOnKeepsIInv ==
    ASSUME IInv, NEW p \in Publishing, NEW r \in Publication, r.drop = Drop(p),
           publisher' = [publisher EXCEPT ![p] = r],
           objects \subseteq objects', objects' \subseteq Objects,
           r.done \subseteq publisher[p].done \cup objects',
           r.stage # "capture" => r.file \in Objects,
           \/ tmp' = tmp \cup {Drop(p)} /\ r.stage = "copied"
           \/ tmp' = tmp \ {Drop(p)}
           \/ tmp' = tmp /\ publisher[p].stage \in {"capture", "seal"}
           \/ tmp' = tmp /\ r.stage \notin {"capture", "seal"},
           UNCHANGED <<drops, collector, begun, raced, kills>>
    PROVE  IInv'
<1>1. /\ Publishing' = Publishing /\ publisher'[p] = r
      /\ \A q \in Publishing : q # p => publisher'[q] = publisher[q]
      /\ \A q \in Publishing : Drop(q)' = Drop(q)
      /\ InProgress' = InProgress
      /\ publisher' \in [Publishers -> Publication \cup {None}]
  BY GoesOn DEF IInv
<1>2. Stored' = Stored /\ Collecting' = Collecting
  BY DEF Stored, Collecting
<1>3. Drop(p) \in Drops /\ Drop(p) \in InProgress /\ Drop(p) \in begun
  BY NoneAssumption DEF IInv, TypeOK, PublishedOnce, Drop, Publishing, Publication, InProgress
<1>4. TypeOK'
  BY <1>1, <1>3 DEF IInv, TypeOK
<1>5. PublishedOnce'
  BY <1>1, <1>2, <1>3 DEF IInv, PublishedOnce
<1>6. OverlapIsRaced'
  BY <1>1, <1>2 DEF IInv, OverlapIsRaced
<1>7. CollectorsSpareTheRest'
  BY <1>2 DEF IInv, CollectorsSpareTheRest, Spares
<1>8. OnlyRacedDropsLoseObjects'
  <2>1. \A d \in (Stored \ raced)' : (drops[d].objs \subseteq objects)'
    BY <1>2 DEF IInv, OnlyRacedDropsLoseObjects
  <2>2. ASSUME NEW q \in Publishing', (publisher[q].drop \notin raced)'
        PROVE  (publisher[q].done \subseteq objects)'
    <3>1. q \in Publishing /\ publisher[q].drop \notin raced
      BY <1>1, <2>2 DEF Drop
    <3>2. publisher[q].done \subseteq objects
      BY <3>1 DEF IInv, OnlyRacedDropsLoseObjects
    <3> QED BY <1>1, <3>1, <3>2
  <2> QED BY <2>1, <2>2 DEF OnlyRacedDropsLoseObjects
<1>9. CopiesAreOfOneFile'
  <2> SUFFICES ASSUME NEW q \in Publishing', publisher'[q].stage \in {"capture", "seal"}
               PROVE  Drop(q)' \notin tmp'
    BY DEF CopiesAreOfOneFile
  <2>1. q \in Publishing /\ Drop(q)' = Drop(q)
    BY <1>1
  <2>2. CASE q = p
    BY <1>1, <2>1, <2>2 DEF IInv, CopiesAreOfOneFile
  <2>3. CASE q # p
    <3>1. Drop(q) # Drop(p)
      BY <2>1, <2>3 DEF IInv, PublishedOnce
    <3>2. Drop(q) \notin tmp
      BY <1>1, <2>1, <2>3 DEF IInv, CopiesAreOfOneFile
    <3> QED BY <2>1, <3>1, <3>2
  <2> QED BY <2>2, <2>3
<1>10. LeftoverIsOfKills'
  <2>1. Leftover' \subseteq Leftover
    BY <1>1, <1>3 DEF Leftover
  <2> QED BY <2>1, FewerLeftovers DEF IInv, TypeOK
<1>11. FilesAreNamed'
  BY <1>1 DEF IInv, FilesAreNamed
<1> QED BY <1>4, <1>5, <1>6, <1>7, <1>8, <1>9, <1>10, <1>11 DEF IInv

LEMMA CaptureKeepsIInv ==
    ASSUME IInv, NEW p \in Publishers,
           \/ \E o \in Objects : Copy(p, o)
           \/ Probe(p) \/ Reuse(p) \/ Install(p) \/ Seal(p)
    PROVE  IInv'
<1>1. p \in Publishing /\ publisher[p] \in Publication
  BY DEF Copy, Probe, Reuse, Install, Seal, At, Publishing, IInv, TypeOK
<1>2. objects \subseteq Objects
  BY DEF IInv, TypeOK
<1>3. ASSUME NEW o \in Objects, Copy(p, o)
      PROVE  IInv'
  <2> DEFINE r == [publisher[p] EXCEPT !.stage = "copied", !.file = o]
  <2>1. /\ r \in Publication /\ r.drop = Drop(p) /\ r.stage = "copied"
        /\ r.done = publisher[p].done /\ r.file = o
    BY <1>1 DEF Publication, Drop
  <2>2. publisher' = [publisher EXCEPT ![p] = r]
    BY <1>3 DEF Copy
  <2>3. tmp' = tmp \cup {Drop(p)} /\ UNCHANGED <<objects, drops, collector, begun, raced, kills>>
    BY <1>3 DEF Copy, Drop
  <2> HIDE DEF r
  <2> QED BY <1>1, <1>2, <2>1, <2>2, <2>3, GoingOnKeepsIInv
<1>4. CASE Probe(p)
  <2> DEFINE r == [publisher[p] EXCEPT !.stage =
                     IF publisher[p].file \in objects THEN "reuse" ELSE "install"]
  <2>1. /\ r \in Publication /\ r.drop = Drop(p) /\ r.stage \in {"reuse", "install"}
        /\ r.done = publisher[p].done
    BY <1>1 DEF Publication, Drop
  <2>4. r.file \in Objects
    BY <1>1, <1>4 DEF Probe, At, IInv, FilesAreNamed, Publication
  <2>2. publisher' = [publisher EXCEPT ![p] = r]
    BY <1>4 DEF Probe
  <2>3. UNCHANGED <<tmp, objects, drops, collector, begun, raced, kills>>
    BY <1>4 DEF Probe
  <2> HIDE DEF r
  <2> QED BY <1>1, <1>2, <2>1, <2>2, <2>3, <2>4, GoingOnKeepsIInv
<1>5. ASSUME publisher[p].file \in objects
      PROVE  /\ Captured(p) \in Publication /\ Captured(p).drop = Drop(p)
             /\ Captured(p).stage = "capture"
             /\ Captured(p).done \subseteq publisher[p].done \cup objects
  BY <1>1, <1>2, <1>5 DEF Publication, Drop, Captured
<1>6. CASE Reuse(p)
  <2>1. /\ publisher[p].file \in objects
        /\ publisher' = [publisher EXCEPT ![p] = Captured(p)]
        /\ tmp' = tmp \ {Drop(p)}
        /\ UNCHANGED <<objects, drops, collector, begun, raced, kills>>
    BY <1>6 DEF Reuse, Drop
  <2> QED BY <1>1, <1>2, <1>5, <2>1, GoingOnKeepsIInv
<1>7. CASE Install(p)
  <2> DEFINE r == [publisher[p] EXCEPT !.stage = "seal"]
  <2>1. /\ r \in Publication /\ r.drop = Drop(p)
        /\ r.done = publisher[p].done /\ r.file = publisher[p].file
    BY <1>1 DEF Publication, Drop
  <2>2. publisher' = [publisher EXCEPT ![p] = r]
    BY <1>7 DEF Install
  <2>3. /\ objects' = objects \cup {publisher[p].file}
        /\ tmp' = tmp \ {Drop(p)}
        /\ UNCHANGED <<drops, collector, begun, raced, kills>>
    BY <1>7 DEF Install, Drop
  <2>4. publisher[p].file \in Objects
    BY <1>1, <1>7 DEF Install, At, IInv, FilesAreNamed
  <2> HIDE DEF r
  <2> QED BY <1>1, <1>2, <2>1, <2>2, <2>3, <2>4, GoingOnKeepsIInv
<1>8. CASE Seal(p)
  <2>1. /\ publisher[p].file \in objects /\ publisher[p].stage = "seal"
        /\ publisher' = [publisher EXCEPT ![p] = Captured(p)]
        /\ UNCHANGED <<tmp, objects, drops, collector, begun, raced, kills>>
    BY <1>8 DEF Seal, At
  <2> QED BY <1>1, <1>2, <1>5, <2>1, GoingOnKeepsIInv
<1> QED BY <1>3, <1>4, <1>6, <1>7, <1>8

\* create_drop begins: its drop is new, and raced if gc is in progress.
LEMMA BeginKeepsIInv ==
    ASSUME IInv, NEW p \in Publishers, NEW d \in Drops, NEW wanted \in SUBSET Objects,
           Begin(p, d, wanted)
    PROVE  IInv'
<1> DEFINE r == [stage |-> "capture", drop |-> d, todo |-> wanted, done |-> {},
                 file |-> None]
<1>1. /\ publisher[p] = None /\ d \notin begun
      /\ publisher' = [publisher EXCEPT ![p] = r]
      /\ begun' = begun \cup {d}
      /\ raced' = IF Collecting # {} THEN raced \cup {d} ELSE raced
      /\ UNCHANGED <<objects, tmp, drops, collector, kills>>
  BY DEF Begin
<1>2. /\ r \in Publication /\ r # None /\ r.drop = d /\ r.done = {}
      /\ r.stage = "capture"
  BY NoneAssumption DEF Publication
<1> HIDE DEF r
<1>3. /\ publisher' \in [Publishers -> Publication \cup {None}]
      /\ \A q \in Publishers : publisher'[q] = IF q = p THEN r ELSE publisher[q]
  BY <1>1, <1>2 DEF IInv, TypeOK
<1>4. /\ Publishing' = Publishing \cup {p} /\ p \notin Publishing
      /\ \A q \in Publishing : publisher'[q] = publisher[q] /\ Drop(q)' = Drop(q)
      /\ Drop(p)' = d
      /\ Stored' = Stored /\ Collecting' = Collecting
  BY <1>1, <1>2, <1>3 DEF Publishing, Drop, Stored, Collecting
<1>5. InProgress' = InProgress \cup {d}
  BY <1>4 DEF InProgress
<1>6. InProgress \subseteq begun /\ d \notin Stored /\ d \notin tmp /\ d \notin InProgress
  BY <1>1 DEF IInv, PublishedOnce, InProgress
<1>7. TypeOK'
  BY <1>1, <1>3 DEF IInv, TypeOK
<1>8. PublishedOnce'
  <2>1. \A q \in Publishing : Drop(q) # d
    BY <1>6 DEF InProgress
  <2>2. \A q, q2 \in Publishing' : Drop(q)' = Drop(q2)' => q = q2
    BY <1>4, <2>1 DEF IInv, PublishedOnce
  <2>3. \A q \in Publishing' : Drop(q)' \in begun' /\ Drop(q)' \notin Stored'
    BY <1>1, <1>4, <1>6 DEF IInv, PublishedOnce
  <2>4. \A c \in Collecting' : /\ collector'[c].doomed \subseteq begun'
                              /\ collector'[c].doomed \cap InProgress' = {}
    BY <1>1, <1>4, <1>5 DEF IInv, PublishedOnce
  <2>5. Stored' \subseteq begun' /\ tmp' \subseteq begun'
    BY <1>1, <1>4 DEF IInv, PublishedOnce
  <2> QED BY <2>2, <2>3, <2>4, <2>5 DEF PublishedOnce
<1>9. OverlapIsRaced'
  BY <1>1, <1>4, <1>5 DEF IInv, OverlapIsRaced
<1>10. CollectorsSpareTheRest'
  BY <1>1, <1>4 DEF IInv, CollectorsSpareTheRest, Spares
<1>11. OnlyRacedDropsLoseObjects'
  BY <1>1, <1>2, <1>3, <1>4, <1>6 DEF IInv, OnlyRacedDropsLoseObjects
<1>12. CopiesAreOfOneFile'
  BY <1>1, <1>4, <1>6 DEF IInv, CopiesAreOfOneFile
<1>13. FilesAreNamed'
  BY <1>1, <1>2, <1>3, <1>4 DEF IInv, FilesAreNamed
<1>14. LeftoverIsOfKills'
  <2>1. Leftover' \subseteq Leftover
    BY <1>1, <1>5 DEF Leftover
  <2> QED BY <1>1, <2>1, FewerLeftovers DEF IInv, TypeOK
<1> QED BY <1>7, <1>8, <1>9, <1>10, <1>11, <1>12, <1>13, <1>14 DEF IInv

\* A publication ends, its drop stored or not, with its copy removed or not;
\* what is left behind is reckoned apart.
LEMMA EndKeepsIInv ==
    ASSUME IInv, NEW p \in Publishing,
           publisher' = [publisher EXCEPT ![p] = None],
           tmp' \subseteq tmp,
           \/ UNCHANGED drops
           \/ drops' = [drops EXCEPT ![Drop(p)] =
                            [objs |-> publisher[p].done, overdue |-> FALSE]],
           kills' \in 0..MaxKills, LeftoverIsOfKills',
           UNCHANGED <<objects, collector, begun, raced>>
    PROVE  IInv'
<1>1. /\ Publishing' = Publishing \ {p}
      /\ \A q \in Publishing' : publisher'[q] = publisher[q] /\ Drop(q)' = Drop(q)
      /\ InProgress' = InProgress \ {Drop(p)}
      /\ publisher' \in [Publishers -> Publication \cup {None}]
  BY Ends DEF IInv
<1>2. /\ Drop(p) \in Drops /\ Drop(p) \in begun /\ Drop(p) \notin Stored
      /\ Drop(p) \in InProgress /\ publisher[p].done \subseteq Objects
      /\ \A q \in Publishing' : Drop(q) # Drop(p)
  BY <1>1, NoneAssumption
     DEF IInv, TypeOK, PublishedOnce, Drop, Publishing, Publication, InProgress
<1>3. /\ drops' \in [Drops -> DropRow \cup {None}]
      /\ Stored \subseteq Stored' /\ Stored' \subseteq Stored \cup {Drop(p)}
      /\ \A d \in Stored : drops'[d] = drops[d]
      /\ Drop(p) \in Stored' => drops'[Drop(p)].objs = publisher[p].done
  <2>1. CASE UNCHANGED drops
    BY <1>2, <2>1 DEF IInv, TypeOK, Stored
  <2>2. CASE drops' = [drops EXCEPT ![Drop(p)] =
                         [objs |-> publisher[p].done, overdue |-> FALSE]]
    <3> DEFINE row == [objs |-> publisher[p].done, overdue |-> FALSE]
    <3>4. row \in DropRow /\ row.objs = publisher[p].done
      BY <1>2 DEF DropRow
    <3> HIDE DEF row
    <3>1. row \in DropRow /\ row # None /\ row.objs = publisher[p].done
      BY <3>4, NoneAssumption
    <3>2. \A d \in Drops : drops'[d] = IF d = Drop(p) THEN row ELSE drops[d]
      BY <2>2 DEF IInv, TypeOK, row
    <3>3. drops' \in [Drops -> DropRow \cup {None}]
      BY <2>2, <3>1 DEF IInv, TypeOK, row
    <3> QED BY <1>2, <3>1, <3>2, <3>3 DEF Stored
  <2> QED BY <2>1, <2>2
<1>4. Collecting' = Collecting
  BY DEF Collecting
<1>5. TypeOK'
  BY <1>1, <1>3 DEF IInv, TypeOK
<1>6. PublishedOnce'
  BY <1>1, <1>2, <1>3, <1>4 DEF IInv, PublishedOnce
<1>7. OverlapIsRaced'
  BY <1>1, <1>4 DEF IInv, OverlapIsRaced
<1>8. CollectorsSpareTheRest'
  <2> SUFFICES ASSUME NEW c \in Collecting, NEW d \in Stored' \ raced
               PROVE  Spares(c, d)'
    BY <1>4 DEF IInv, CollectorsSpareTheRest
  <2>1. d # Drop(p)
    BY <1>2 DEF IInv, OverlapIsRaced
  <2> QED BY <1>3, <2>1 DEF IInv, CollectorsSpareTheRest, Spares
<1>9. OnlyRacedDropsLoseObjects'
  <2>1. ASSUME NEW d \in Stored' \ raced
        PROVE  drops'[d].objs \subseteq objects
    <3>1. CASE d = Drop(p)
      BY <1>3, <2>1, <3>1 DEF IInv, OnlyRacedDropsLoseObjects, Drop
    <3>2. CASE d # Drop(p)
      BY <1>3, <2>1, <3>2 DEF IInv, OnlyRacedDropsLoseObjects
    <3> QED BY <3>1, <3>2
  <2>2. \A q \in Publishing' :
            publisher'[q].drop \notin raced => publisher'[q].done \subseteq objects
    BY <1>1 DEF IInv, OnlyRacedDropsLoseObjects
  <2> QED BY <2>1, <2>2 DEF OnlyRacedDropsLoseObjects
<1>10. CopiesAreOfOneFile'
  BY <1>1 DEF IInv, CopiesAreOfOneFile
<1>11. FilesAreNamed'
  BY <1>1 DEF IInv, FilesAreNamed
<1> QED BY <1>5, <1>6, <1>7, <1>8, <1>9, <1>10, <1>11 DEF IInv

LEMMA PublisherKeepsIInv ==
    ASSUME IInv, NEW p \in Publishers, PublisherStep(p)
    PROVE  IInv'
<1>1. kills \in 0..MaxKills /\ kills \in Nat /\ MaxKills \in Nat
  BY KillAssumption DEF IInv, TypeOK
<1>2. ASSUME NEW d \in Drops, NEW wanted \in SUBSET Objects, Begin(p, d, wanted)
      PROVE  IInv'
  BY <1>2, BeginKeepsIInv
<1>3. CASE \/ \E o \in Objects : Copy(p, o)
           \/ Probe(p) \/ Reuse(p) \/ Install(p) \/ Seal(p)
  BY <1>3, CaptureKeepsIInv
<1>4. ASSUME p \in Publishing, publisher' = [publisher EXCEPT ![p] = None]
      PROVE  InProgress' = InProgress \ {Drop(p)}
  BY <1>4, Ends DEF IInv
<1>5. CASE Commit(p)
  <2>1. /\ p \in Publishing /\ publisher[p].stage = "capture"
        /\ publisher' = [publisher EXCEPT ![p] = None]
        /\ drops' = [drops EXCEPT ![Drop(p)] =
                         [objs |-> publisher[p].done, overdue |-> FALSE]]
        /\ UNCHANGED <<objects, tmp, collector, begun, raced, kills>>
    BY <1>5 DEF Commit, At, Publishing, Drop
  <2>2. Drop(p) \notin tmp
    BY <2>1 DEF IInv, CopiesAreOfOneFile
  <2>3. LeftoverIsOfKills'
    <3>1. Leftover' \subseteq Leftover
      BY <1>4, <2>1, <2>2 DEF Leftover
    <3> QED BY <1>1, <2>1, <3>1, FewerLeftovers DEF IInv
  <2> QED BY <1>1, <2>1, <2>3, EndKeepsIInv
<1>6. CASE Fail(p)
  <2>1. /\ p \in Publishing
        /\ publisher' = [publisher EXCEPT ![p] = None]
        /\ tmp' = tmp \ {Drop(p)}
        /\ UNCHANGED <<objects, drops, collector, begun, raced, kills>>
    BY <1>6 DEF Fail, Publishing, Drop
  <2>2. LeftoverIsOfKills'
    <3>1. Leftover' \subseteq Leftover
      BY <1>4, <2>1 DEF Leftover
    <3> QED BY <1>1, <2>1, <3>1, FewerLeftovers DEF IInv
  <2> QED BY <1>1, <2>1, <2>2, EndKeepsIInv
<1>7. CASE KillPublisher(p)
  <2>1. /\ p \in Publishing /\ kills < MaxKills /\ kills' = kills + 1
        /\ publisher' = [publisher EXCEPT ![p] = None]
        /\ UNCHANGED <<objects, tmp, drops, collector, begun, raced>>
    BY <1>7 DEF KillPublisher, Publishing
  <2>2. LeftoverIsOfKills'
    <3>1. Leftover' \subseteq Leftover \cup {Drop(p)}
      BY <1>4, <2>1 DEF Leftover
    <3>2. IsFiniteSet(Leftover) /\ Cardinality(Leftover) <= kills
      BY DEF IInv, LeftoverIsOfKills
    <3>3. /\ IsFiniteSet(Leftover \cup {Drop(p)})
          /\ Cardinality(Leftover \cup {Drop(p)}) <= Cardinality(Leftover) + 1
          /\ Cardinality(Leftover) \in Nat
      <4>1. Cardinality(Leftover) \in Nat
        BY <3>2, FS_CardinalityType
      <4>2. /\ IsFiniteSet(Leftover \cup {Drop(p)})
            /\ Cardinality(Leftover \cup {Drop(p)}) =
                  IF Drop(p) \in Leftover THEN Cardinality(Leftover)
                                          ELSE Cardinality(Leftover) + 1
        BY <3>2, FS_AddElement, Zenon
      <4> QED BY <4>1, <4>2
    <3>4. /\ IsFiniteSet(Leftover')
          /\ Cardinality(Leftover') <= Cardinality(Leftover \cup {Drop(p)})
      BY <3>1, <3>3, FS_Subset
    <3>5. Cardinality(Leftover') \in Nat /\ Cardinality(Leftover \cup {Drop(p)}) \in Nat
      BY <3>3, <3>4, FS_CardinalityType
    <3>6. Cardinality(Leftover') <= kills'
      BY <1>1, <2>1, <3>2, <3>3, <3>4, <3>5
    <3> QED BY <3>4, <3>6 DEF LeftoverIsOfKills
  <2>3. kills' \in 0..MaxKills
    BY <1>1, <2>1
  <2> QED BY <2>1, <2>2, <2>3, EndKeepsIInv
<1> QED BY <1>2, <1>3, <1>5, <1>6, <1>7 DEF PublisherStep

-----------------------------------------------------------------------------
\* A step of collector c that starts nothing: its row of the collectors, the
\* purge and the unlinking are all that changes.
LEMMA CollectorGoesOn ==
    ASSUME IInv, NEW c \in Collecting, NEW r \in Collection \cup {None},
           collector' = [collector EXCEPT ![c] = r]
    PROVE  /\ Collecting' \subseteq Collecting
           /\ \A e \in Collecting' : collector'[e] = IF e = c THEN r ELSE collector[e]
           /\ collector' \in [Collectors -> Collection \cup {None}]
           /\ c \in Collecting' => r \in Collection
BY DEF IInv, TypeOK, Collecting

LEMMA CollectKeepsIInv ==
    ASSUME IInv, NEW c \in Collectors, Collect(c)
    PROVE  IInv'
<1> DEFINE r == [stage |-> "walk", doomed |-> Overdue,
                 referenced |-> ReferencedAfterRetention(Overdue),
                 unseen |-> Objects, candidates |-> {}]
<1>1. /\ collector' = [collector EXCEPT ![c] = r]
      /\ raced' = raced \cup InProgress
      /\ UNCHANGED <<objects, tmp, drops, publisher, begun, kills>>
  BY DEF Collect, InProgress, Drop
<1>2. /\ Overdue \subseteq Stored /\ Stored \subseteq Drops
      /\ InProgress \subseteq begun /\ InProgress \cap Stored = {}
  BY DEF IInv, PublishedOnce, Overdue, Stored, InProgress
<1>3. /\ \A d \in Stored : drops[d].objs \subseteq Objects
      /\ ReferencedAfterRetention(Overdue) \subseteq Objects
      /\ \A d \in Stored \ Overdue :
            drops[d].objs \subseteq ReferencedAfterRetention(Overdue)
  <2>1. \A d \in Stored : drops[d].objs \subseteq Objects
    BY DEF IInv, TypeOK, Stored, DropRow
  <2> QED BY <2>1 DEF ReferencedAfterRetention
<1>4. /\ r.stage = "walk" /\ r.doomed = Overdue /\ r.candidates = {}
      /\ r.referenced = ReferencedAfterRetention(Overdue)
      /\ r \in Collection
  BY <1>2, <1>3 DEF Collection
<1> HIDE DEF r
<1>5. /\ collector' \in [Collectors -> Collection \cup {None}]
      /\ \A e \in Collectors : collector'[e] = IF e = c THEN r ELSE collector[e]
  BY <1>1, <1>4 DEF IInv, TypeOK
<1>6. Publishing' = Publishing /\ InProgress' = InProgress /\ Stored' = Stored
  BY <1>1 DEF Publishing, InProgress, Drop, Stored
<1>7. /\ Collecting' \subseteq Collecting \cup {c}
      /\ \A e \in Collecting' : collector'[e] = IF e = c THEN r ELSE collector[e]
  BY <1>5 DEF Collecting
<1>8. TypeOK'
  BY <1>1, <1>2, <1>5 DEF IInv, TypeOK
<1>9. PublishedOnce'
  BY <1>1, <1>2, <1>4, <1>6, <1>7 DEF IInv, PublishedOnce, Drop
<1>10. OverlapIsRaced'
  BY <1>1, <1>6 DEF OverlapIsRaced
<1>11. CollectorsSpareTheRest'
  <2> SUFFICES ASSUME NEW e \in Collecting'
               PROVE  /\ collector'[e].candidates \cap collector'[e].referenced = {}
                      /\ \A d \in Stored' \ raced' : Spares(e, d)'
    BY DEF CollectorsSpareTheRest
  <2>1. CASE e = c
    BY <1>1, <1>3, <1>4, <1>6, <1>7, <2>1 DEF Spares
  <2>2. CASE e # c
    BY <1>1, <1>6, <1>7, <2>2 DEF IInv, CollectorsSpareTheRest, Spares
  <2> QED BY <2>1, <2>2
<1>12. OnlyRacedDropsLoseObjects' /\ CopiesAreOfOneFile' /\ FilesAreNamed'
  BY <1>1, <1>6
     DEF IInv, OnlyRacedDropsLoseObjects, CopiesAreOfOneFile, FilesAreNamed, Drop
<1>13. LeftoverIsOfKills'
  BY <1>1, <1>6 DEF IInv, LeftoverIsOfKills, Leftover
<1> QED BY <1>8, <1>9, <1>10, <1>11, <1>12, <1>13 DEF IInv

\* Every other step of a collector.
LEMMA CollectorGoingOnKeepsIInv ==
    ASSUME IInv, NEW c \in Collecting, NEW r \in Collection \cup {None},
           collector' = [collector EXCEPT ![c] = r],
           r # None =>
               /\ r.doomed = collector[c].doomed
               /\ r.referenced = collector[c].referenced
               /\ r.candidates \cap r.referenced = {}
               /\ r.stage = collector[c].stage \/ Stored' \cap collector[c].doomed = {},
           Stored' \subseteq Stored, \A d \in Stored' : drops'[d] = drops[d],
           drops' \in [Drops -> DropRow \cup {None}],
           objects' \subseteq objects,
           objects' # objects =>
               collector[c].stage = "unlink" /\ objects \ objects' \subseteq collector[c].candidates,
           kills' \in 0..MaxKills, kills <= kills',
           UNCHANGED <<tmp, publisher, begun, raced>>
    PROVE  IInv'
<1>1. /\ Collecting' \subseteq Collecting
      /\ \A e \in Collecting' : collector'[e] = IF e = c THEN r ELSE collector[e]
      /\ collector' \in [Collectors -> Collection \cup {None}]
      /\ c \in Collecting' => r \in Collection /\ r # None
  <2>1. c \in Collecting' => r # None
    BY DEF IInv, TypeOK, Collecting
  <2> QED BY <2>1, CollectorGoesOn
<1>2. Publishing' = Publishing /\ InProgress' = InProgress
  BY DEF Publishing, InProgress, Drop
<1>3. TypeOK'
  BY <1>1 DEF IInv, TypeOK
<1>4. PublishedOnce'
  <2>1. \A e \in Collecting' : collector'[e].doomed = collector[e].doomed
    BY <1>1
  <2> QED BY <1>1, <1>2, <2>1 DEF IInv, PublishedOnce, Drop
<1>5. OverlapIsRaced'
  BY <1>1, <1>2 DEF IInv, OverlapIsRaced
<1>6. CollectorsSpareTheRest'
  <2> SUFFICES ASSUME NEW e \in Collecting'
               PROVE  /\ collector'[e].candidates \cap collector'[e].referenced = {}
                      /\ \A d \in Stored' \ raced' : Spares(e, d)'
    BY DEF CollectorsSpareTheRest
  <2>1. \A d \in Stored' \ raced' : Spares(e, d)
    BY <1>1 DEF IInv, CollectorsSpareTheRest
  <2>2. CASE e = c
    BY <1>1, <2>1, <2>2 DEF IInv, CollectorsSpareTheRest, Spares
  <2>3. CASE e # c
    BY <1>1, <2>1, <2>3 DEF IInv, CollectorsSpareTheRest, Spares
  <2> QED BY <2>2, <2>3
<1>7. OnlyRacedDropsLoseObjects'
  <2>1. ASSUME NEW d \in Stored' \ raced'
        PROVE  drops'[d].objs \subseteq objects'
    <3>1. d \in Stored \ raced /\ drops'[d] = drops[d] /\ drops[d].objs \subseteq objects
      BY DEF IInv, OnlyRacedDropsLoseObjects
    <3>2. CASE objects' = objects
      BY <3>1, <3>2
    <3>3. CASE objects' # objects
      <4>1. drops[d].objs \subseteq collector[c].referenced
        BY <3>1, <3>3 DEF IInv, CollectorsSpareTheRest, Spares
      <4> QED BY <3>1, <3>3, <4>1 DEF IInv, CollectorsSpareTheRest
    <3> QED BY <3>2, <3>3
  <2>2. \A p \in Publishing : Drop(p) \in raced
    BY DEF IInv, OverlapIsRaced, InProgress
  <2> QED BY <1>2, <2>1, <2>2 DEF OnlyRacedDropsLoseObjects, Drop
<1>8. CopiesAreOfOneFile' /\ FilesAreNamed'
  BY <1>2 DEF IInv, CopiesAreOfOneFile, FilesAreNamed, Drop
<1>9. LeftoverIsOfKills'
  <2>1. Leftover' = Leftover /\ IsFiniteSet(Leftover) /\ Cardinality(Leftover) <= kills
    BY <1>2 DEF IInv, Leftover, LeftoverIsOfKills
  <2>2. Cardinality(Leftover) \in Nat
    BY <2>1, FS_CardinalityType
  <2>3. kills \in Nat /\ kills' \in Nat
    BY KillAssumption DEF IInv, TypeOK
  <2> QED BY <2>1, <2>2, <2>3 DEF LeftoverIsOfKills
<1> QED BY <1>3, <1>4, <1>5, <1>6, <1>7, <1>8, <1>9 DEF IInv

LEMMA CollectorKeepsIInv ==
    ASSUME IInv, NEW c \in Collectors, CollectorProgress(c) \/ KillCollector(c)
    PROVE  IInv'
<1>1. CASE Collect(c)
  BY <1>1, CollectKeepsIInv
<1>2. /\ kills \in 0..MaxKills /\ kills <= kills /\ MaxKills \in Nat
      /\ drops \in [Drops -> DropRow \cup {None}]
      /\ c \in Collecting => collector[c] \in Collection /\ collector[c] # None
      /\ c \in Collecting => collector[c].candidates \cap collector[c].referenced = {}
  BY KillAssumption DEF IInv, TypeOK, Collecting, CollectorsSpareTheRest
<1>3. ASSUME NEW o \in Objects, Visit(c, o)
      PROVE  IInv'
  <2> DEFINE r == [collector[c] EXCEPT
                     !.unseen = @ \ {o},
                     !.candidates = IF Unreachable(c, o) THEN @ \cup {o} ELSE @]
  <2>1. /\ c \in Collecting /\ collector' = [collector EXCEPT ![c] = r]
        /\ UNCHANGED <<objects, tmp, drops, publisher, begun, raced, kills>>
    BY <1>3 DEF Visit
  <2>2. /\ r \in Collection /\ r.doomed = collector[c].doomed
        /\ r.referenced = collector[c].referenced /\ r.stage = collector[c].stage
        /\ r.candidates \cap r.referenced = {}
    BY <1>2, <2>1 DEF Collection, Unreachable
  <2>3. Stored' = Stored
    BY <2>1 DEF Stored
  <2> HIDE DEF r
  <2> QED BY <1>2, <2>1, <2>2, <2>3, CollectorGoingOnKeepsIInv
<1>4. CASE Purge(c)
  <2> DEFINE r == [collector[c] EXCEPT !.stage = "unlink"]
  <2>1. /\ c \in Collecting /\ collector' = [collector EXCEPT ![c] = r]
        /\ drops' = [d \in Drops |-> IF d \in collector[c].doomed THEN None ELSE drops[d]]
        /\ UNCHANGED <<objects, tmp, publisher, begun, raced, kills>>
    BY <1>4 DEF Purge
  <2>2. /\ r \in Collection /\ r.doomed = collector[c].doomed
        /\ r.referenced = collector[c].referenced
        /\ r.candidates \cap r.referenced = {}
    BY <1>2, <2>1 DEF Collection
  <2>3. /\ Stored' \subseteq Stored /\ Stored' \cap collector[c].doomed = {}
        /\ \A d \in Stored' : drops'[d] = drops[d]
        /\ drops' \in [Drops -> DropRow \cup {None}]
    BY <1>2, <2>1 DEF Stored
  <2> HIDE DEF r
  <2> QED BY <1>2, <2>1, <2>2, <2>3, CollectorGoingOnKeepsIInv
<1>5. ASSUME NEW o \in Objects, Unlink(c, o)
      PROVE  IInv'
  <2> DEFINE r == [collector[c] EXCEPT !.candidates = @ \ {o}]
  <2>1. /\ c \in Collecting /\ collector' = [collector EXCEPT ![c] = r]
        /\ collector[c].stage = "unlink" /\ o \in collector[c].candidates
        /\ objects' = objects \ {o}
        /\ UNCHANGED <<tmp, drops, publisher, begun, raced, kills>>
    BY <1>5 DEF Unlink
  <2>2. /\ r \in Collection /\ r.doomed = collector[c].doomed
        /\ r.referenced = collector[c].referenced /\ r.stage = collector[c].stage
        /\ r.candidates \cap r.referenced = {}
    BY <1>2, <2>1 DEF Collection
  <2>3. Stored' = Stored
    BY <2>1 DEF Stored
  <2> HIDE DEF r
  <2> QED BY <1>2, <2>1, <2>2, <2>3, CollectorGoingOnKeepsIInv
<1>6. CASE Finish(c) \/ KillCollector(c)
  <2>1. /\ c \in Collecting /\ collector' = [collector EXCEPT ![c] = None]
        /\ kills' = kills \/ (kills < MaxKills /\ kills' = kills + 1)
        /\ UNCHANGED <<objects, tmp, drops, publisher, begun, raced>>
    BY <1>6 DEF Finish, KillCollector
  <2>2. kills' \in 0..MaxKills /\ kills <= kills'
    BY <1>2, <2>1
  <2>3. Stored' = Stored
    BY <2>1 DEF Stored
  <2> QED BY <1>2, <2>1, <2>2, <2>3, CollectorGoingOnKeepsIInv
<1> QED BY <1>1, <1>3, <1>4, <1>5, <1>6 DEF CollectorProgress

LEMMA BecomeOverdueKeepsIInv ==
    ASSUME IInv, NEW d \in Drops, BecomeOverdue(d)
    PROVE  IInv'
<1> DEFINE row == [drops[d] EXCEPT !.overdue = TRUE]
<1>1. /\ d \in Stored /\ drops' = [drops EXCEPT ![d] = row]
      /\ UNCHANGED <<objects, tmp, publisher, collector, begun, raced, kills>>
  BY DEF BecomeOverdue
<1>2. row \in DropRow /\ row.objs = drops[d].objs
  BY <1>1 DEF IInv, TypeOK, Stored, DropRow
<1> HIDE DEF row
<1>3. row # None
  BY <1>2, NoneAssumption
<1>4. /\ drops' \in [Drops -> DropRow \cup {None}]
      /\ Stored' = Stored
      /\ \A e \in Stored : drops'[e].objs = drops[e].objs
  BY <1>1, <1>2, <1>3 DEF IInv, TypeOK, Stored
<1>5. Publishing' = Publishing /\ InProgress' = InProgress /\ Collecting' = Collecting
  BY <1>1 DEF Publishing, InProgress, Drop, Collecting
<1>6. TypeOK' /\ PublishedOnce' /\ OverlapIsRaced'
  BY <1>1, <1>4, <1>5 DEF IInv, TypeOK, PublishedOnce, OverlapIsRaced, Drop
<1>7. CollectorsSpareTheRest'
  BY <1>1, <1>4, <1>5 DEF IInv, CollectorsSpareTheRest, Spares
<1>8. OnlyRacedDropsLoseObjects' /\ CopiesAreOfOneFile' /\ FilesAreNamed'
  BY <1>1, <1>4, <1>5
     DEF IInv, OnlyRacedDropsLoseObjects, CopiesAreOfOneFile, FilesAreNamed, Drop
<1>9. LeftoverIsOfKills'
  BY <1>1, <1>5 DEF IInv, LeftoverIsOfKills, Leftover
<1> QED BY <1>6, <1>7, <1>8, <1>9 DEF IInv

LEMMA NextKeepsIInv ==
    ASSUME IInv, [Next]_vars
    PROVE  IInv'
<1>1. ASSUME NEW p \in Publishers, PublisherStep(p)
      PROVE  IInv'
  BY <1>1, PublisherKeepsIInv
<1>2. ASSUME NEW d \in Drops, BecomeOverdue(d)
      PROVE  IInv'
  BY <1>2, BecomeOverdueKeepsIInv
<1>3. ASSUME NEW c \in Collectors, CollectorProgress(c) \/ KillCollector(c)
      PROVE  IInv'
  BY <1>3, CollectorKeepsIInv
<1>4. CASE UNCHANGED vars
  <2>1. /\ Publishing' = Publishing /\ InProgress' = InProgress
        /\ Collecting' = Collecting /\ Stored' = Stored
    BY <1>4 DEF vars, Publishing, InProgress, Drop, Collecting, Stored
  <2>2. TypeOK' /\ PublishedOnce' /\ OverlapIsRaced' /\ CollectorsSpareTheRest'
    BY <1>4, <2>1
       DEF vars, IInv, TypeOK, PublishedOnce, OverlapIsRaced, CollectorsSpareTheRest,
           Spares, Drop
  <2>3. OnlyRacedDropsLoseObjects' /\ CopiesAreOfOneFile' /\ FilesAreNamed'
    BY <1>4, <2>1
       DEF vars, IInv, OnlyRacedDropsLoseObjects, CopiesAreOfOneFile, FilesAreNamed, Drop
  <2>4. LeftoverIsOfKills'
    BY <1>4, <2>1 DEF vars, IInv, LeftoverIsOfKills, Leftover
  <2> QED BY <2>2, <2>3, <2>4 DEF IInv
<1> QED BY <1>1, <1>2, <1>3, <1>4 DEF Next

(***************************************************************************)
(* The invariant holds whatever publications, runs of gc and kills there   *)
(* are, in any order.                                                      *)
(***************************************************************************)
THEOREM Invariance == Spec => []IInv
BY InitIInv, NextKeepsIInv, PTL DEF Spec

-----------------------------------------------------------------------------
(***************************************************************************)
(* The variables of ObjectStore have their types.                           *)
(***************************************************************************)
THEOREM TypeCorrect == Spec => []TypeOK
<1>1. IInv => TypeOK
  BY DEF IInv
<1> QED BY <1>1, Invariance, PTL

(***************************************************************************)
(* For any number of publications, runs of gc, objects and kills: a drop    *)
(* whose publication did not overlap gc (storage.rs:537-582) has all its    *)
(* objects for as long as it is stored.                                     *)
(***************************************************************************)
THEOREM OnlyRacesLoseObjects == Spec => []OnlyRacedDropsLoseObjects
<1>1. IInv => OnlyRacedDropsLoseObjects
  BY DEF IInv
<1> QED BY <1>1, Invariance, PTL

(***************************************************************************)
(* There are never more files under tmp/ without a publication than         *)
(* processes were killed: TempCleanup and the renames see to every other.   *)
(***************************************************************************)
THEOREM TempFilesAreOfKills == Spec => []TempFilesAreAccountedFor
<1>1. IInv => TempFilesAreAccountedFor
  BY DEF IInv, LeftoverIsOfKills, Leftover, InProgress, Drop, TempFilesAreAccountedFor
<1> QED BY <1>1, Invariance, PTL

-----------------------------------------------------------------------------
(***************************************************************************)
(* The store implements DropStore.  A run of gc purges the drops it found   *)
(* overdue when it read the references; each of them still is, or has left, *)
(* because nothing is published a second time.                              *)
(***************************************************************************)
DoomedAreOverdue ==
    \A c \in Collecting : collector[c].doomed \cap Stored \subseteq Overdue

StoreInv == IInv /\ DoomedAreOverdue

\* The publications that have ended, one way or the other.
Done == begun \ InProgress

\* Where a drop is in its life, read from the rows and from Done.
LEMMA PhaseOf ==
    /\ Overdue \subseteq Stored
    /\ \A d \in Drops :
          /\ d \in Overdue => Phase[d] = "overdue"
          /\ d \in Stored \ Overdue => Phase[d] = "kept"
          /\ d \in Done \ Stored => Phase[d] = "ended"
          /\ d \notin Done \cup Stored => Phase[d] = "unpublished"
          /\ Contents[d] = IF d \in Stored THEN drops[d].objs ELSE None
  BY DEF Phase, Contents, Done, InProgress, Drop, Overdue

LEMMA PhaseDomain == Phase = [d \in Drops |-> Phase[d]]
  BY DEF Phase

\* The same after a step.
LEMMA PhaseAfter ==
    Phase' = [d \in Drops |-> IF d \in Overdue' THEN "overdue"
                             ELSE IF d \in Stored' THEN "kept"
                             ELSE IF d \in Done' THEN "ended" ELSE "unpublished"]
<1>1. (begun \ {publisher[p].drop : p \in Publishing})' = Done'
  BY DEF Done, InProgress, Drop
<1> QED BY <1>1 DEF Phase

\* A step that changes no row and ends no publication.
LEMMA SameView ==
    ASSUME drops' = drops, Done' = Done
    PROVE  /\ Phase' = Phase /\ Contents' = Contents
           /\ Stored' = Stored /\ Overdue' = Overdue
<1>1. Stored' = Stored /\ Overdue' = Overdue
  BY DEF Stored, Overdue
<1>2. begun \ {publisher[p].drop : p \in Publishing} = Done
  BY DEF Done, InProgress, Drop
<1>3. (begun \ {publisher[p].drop : p \in Publishing})' = Done'
  BY DEF Done, InProgress, Drop
<1>4. Phase' = Phase
  BY <1>1, <1>2, <1>3 DEF Phase
<1> QED BY <1>1, <1>4 DEF Contents

\* What it may change is which raced drops are whole.
LEMMA OnlyRacedWaver ==
    ASSUME IInv, IInv', drops' = drops, Done' = Done, raced' = raced
    PROVE  Promise!Next
<1>1. /\ Phase' = Phase /\ Contents' = Contents
      /\ Stored' = Stored /\ Overdue' = Overdue
  BY SameView
<1>2. Readable' \subseteq Stored /\ Stored \subseteq Drops
  BY <1>1 DEF Readable, Stored
<1>3. \A d \in Stored \ raced : d \in Readable /\ d \in Readable'
  BY <1>1 DEF IInv, OnlyRacedDropsLoseObjects, Readable
<1>4. (Readable' \ Readable) \cup (Readable \ Readable') \subseteq raced
  BY <1>1, <1>3 DEF Readable
<1>5. \A d \in Stored : Phase[d] \in {"kept", "overdue"}
  BY <1>2, PhaseOf
<1>6. Promise!Waver(Readable')
  BY <1>1, <1>2, <1>4, <1>5 DEF Promise!Waver, Promise!Published
<1>7. Readable' \in SUBSET Drops
  BY <1>2
<1> QED BY <1>6, <1>7 DEF Promise!Next

LEMMA CaptureIsPromised ==
    ASSUME IInv, IInv', NEW p \in Publishers,
           \/ \E o \in Objects : Copy(p, o)
           \/ Probe(p) \/ Reuse(p) \/ Install(p) \/ Seal(p)
    PROVE  Promise!Next
<1>1. UNCHANGED <<drops, begun, raced>> /\ p \in Publishing
  BY DEF Copy, Probe, Reuse, Install, Seal, At, Publishing
<1>2. publisher[p] \in Publication /\ Drop(p) = publisher[p].drop
  BY <1>1 DEF IInv, TypeOK, Publishing, Drop
<1>3. ASSUME NEW r \in Publication, r.drop = Drop(p), publisher' = [publisher EXCEPT ![p] = r]
      PROVE  Promise!Next
  <2>1. InProgress' = InProgress
    BY <1>1, <1>3, GoesOn DEF IInv
  <2> QED BY <1>1, <2>1, OnlyRacedWaver DEF Done
<1>4. ASSUME NEW o \in Objects, Copy(p, o)
      PROVE  Promise!Next
  <2> DEFINE r == [publisher[p] EXCEPT !.stage = "copied", !.file = o]
  <2>1. r \in Publication /\ r.drop = Drop(p) /\ publisher' = [publisher EXCEPT ![p] = r]
    BY <1>2, <1>4 DEF Copy, Publication
  <2> QED BY <1>3, <2>1
<1>5. CASE Probe(p)
  <2> DEFINE r == [publisher[p] EXCEPT !.stage =
                     IF publisher[p].file \in objects THEN "reuse" ELSE "install"]
  <2>1. r \in Publication /\ r.drop = Drop(p) /\ publisher' = [publisher EXCEPT ![p] = r]
    BY <1>2, <1>5 DEF Probe, Publication
  <2> QED BY <1>3, <2>1
<1>6. CASE Reuse(p) \/ Seal(p)
  <2>1. publisher[p].file \in Objects
    BY <1>6 DEF Reuse, Seal, IInv, TypeOK
  <2>2. Captured(p) \in Publication /\ Captured(p).drop = Drop(p)
    BY <1>2, <2>1 DEF Captured, Publication
  <2>3. publisher' = [publisher EXCEPT ![p] = Captured(p)]
    BY <1>6 DEF Reuse, Seal
  <2> QED BY <1>3, <2>2, <2>3
<1>7. CASE Install(p)
  <2> DEFINE r == [publisher[p] EXCEPT !.stage = "seal"]
  <2>1. r \in Publication /\ r.drop = Drop(p) /\ publisher' = [publisher EXCEPT ![p] = r]
    BY <1>2, <1>7 DEF Install, Publication
  <2> QED BY <1>3, <2>1
<1> QED BY <1>4, <1>5, <1>6, <1>7

\* A new publication, exposed if gc is in progress.
LEMMA BeginIsPromised ==
    ASSUME IInv, IInv', NEW p \in Publishers, NEW d \in Drops,
           NEW wanted \in SUBSET Objects, Begin(p, d, wanted)
    PROVE  Promise!Next
<1> DEFINE r == [stage |-> "capture", drop |-> d, todo |-> wanted, done |-> {},
                 file |-> None]
<1>1. /\ publisher[p] = None /\ d \notin begun
      /\ publisher' = [publisher EXCEPT ![p] = r]
      /\ begun' = begun \cup {d}
      /\ raced' = IF Collecting # {} THEN raced \cup {d} ELSE raced
      /\ UNCHANGED <<objects, drops>>
  BY DEF Begin
<1>2. r # None /\ r.drop = d
  <2>1. r \in Publication
    BY DEF Publication
  <2> QED BY <2>1, NoneAssumption
<1> HIDE DEF r
<1>3. \A q \in Publishers : publisher'[q] = IF q = p THEN r ELSE publisher[q]
  BY <1>1 DEF IInv, TypeOK
<1>4. InProgress' = InProgress \cup {d}
  BY <1>1, <1>2, <1>3 DEF InProgress, Publishing, Drop
<1>5. Done' = Done /\ d \notin Done /\ d \notin Stored
  BY <1>1, <1>4 DEF Done, IInv, PublishedOnce
<1>6. /\ Phase' = Phase /\ Contents' = Contents /\ Stored' = Stored
      /\ Readable' = Readable
  BY <1>1, <1>5, SameView DEF Readable
<1>7. Phase[d] = "unpublished"
  BY <1>5, PhaseOf
<1>8. PICK D \in SUBSET {d} : raced' = raced \cup D
  BY <1>1
<1>9. Promise!Expose(D)
  BY <1>6, <1>7, <1>8 DEF Promise!Expose
<1> QED BY <1>8, <1>9 DEF Promise!Next

\* A publication ends: what it stored is whole unless it is raced.
LEMMA EndIsPromised ==
    ASSUME IInv, IInv', NEW p \in Publishers, Commit(p) \/ Fail(p) \/ KillPublisher(p)
    PROVE  Promise!Next
<1>1. /\ p \in Publishing /\ publisher' = [publisher EXCEPT ![p] = None]
      /\ UNCHANGED <<objects, begun, raced>>
  BY DEF Commit, Fail, KillPublisher, At, Publishing
<1> DEFINE d == Drop(p)
<1>2. /\ publisher[p] \in Publication /\ d \in Drops /\ d \in begun /\ d \notin Stored
      /\ d \in InProgress
  BY <1>1 DEF IInv, TypeOK, PublishedOnce, Publishing, Publication, Drop, InProgress
<1>3. InProgress' = InProgress \ {d}
  BY <1>1, Ends DEF IInv
<1> HIDE DEF d
<1>4. Done' = Done \cup {d} /\ d \notin Done
  BY <1>1, <1>2, <1>3 DEF Done
<1>5. Phase[d] = "unpublished"
  BY <1>2, <1>4, PhaseOf
<1>6. CASE drops' = drops
  <2>1. Stored' = Stored /\ Overdue' = Overdue
    BY <1>6 DEF Stored, Overdue
  <2>2. Contents' = Contents /\ Readable' = Readable
    BY <1>1, <1>6, <2>1 DEF Contents, Readable
  <2>3. Phase' = [Phase EXCEPT ![d] = "ended"]
    BY <1>2, <1>4, <2>1, PhaseOf, PhaseAfter, PhaseDomain
  <2>4. Promise!Abandon(d)
    BY <1>1, <1>5, <2>2, <2>3 DEF Promise!Abandon
  <2> QED BY <1>2, <2>4 DEF Promise!Next
<1>7. CASE Commit(p)
  <2> DEFINE row == [objs |-> publisher[p].done, overdue |-> FALSE]
  <2>1. drops' = [drops EXCEPT ![d] = row]
    BY <1>7 DEF Commit, d, Drop
  <2>2. row \in DropRow /\ row.objs = publisher[p].done /\ ~row.overdue
    BY <1>2 DEF DropRow, Publication
  <2> HIDE DEF row
  <2>3. row # None
    BY <2>2, NoneAssumption
  <2>4. \A e \in Drops : drops'[e] = IF e = d THEN row ELSE drops[e]
    BY <2>1 DEF IInv, TypeOK
  <2>5. Stored' = Stored \cup {d} /\ Overdue' = Overdue
    BY <1>2, <2>2, <2>3, <2>4 DEF Stored, Overdue
  <2>6. Contents' = [Contents EXCEPT ![d] = row.objs]
    BY <1>2, <2>4, <2>5 DEF Contents
  <2>7. Phase' = [Phase EXCEPT ![d] = "kept"]
    BY <1>2, <1>4, <2>5, PhaseOf, PhaseAfter, PhaseDomain
  <2>8. Readable' \in {Readable, Readable \cup {d}}
    BY <1>1, <1>2, <2>4, <2>5 DEF Readable, Stored
  <2>9. d \in Readable' \cup raced
    BY <1>1, <2>5 DEF IInv, OnlyRacedDropsLoseObjects, Readable
  <2>10. Promise!Publish(d, row.objs)
    BY <1>1, <1>5, <2>6, <2>7, <2>8, <2>9 DEF Promise!Publish
  <2>11. row.objs \in SUBSET Objects
    BY <2>2 DEF DropRow
  <2> QED BY <1>2, <2>10, <2>11 DEF Promise!Next
<1>8. Commit(p) \/ drops' = drops
  BY DEF Fail, KillPublisher
<1> QED BY <1>6, <1>7, <1>8

\* A drop becomes overdue.
LEMMA OverdueIsPromised ==
    ASSUME IInv, NEW d \in Drops, BecomeOverdue(d)
    PROVE  Promise!Next
<1> DEFINE row == [drops[d] EXCEPT !.overdue = TRUE]
<1>1. /\ d \in Stored \ Overdue /\ drops' = [drops EXCEPT ![d] = row]
      /\ UNCHANGED <<objects, publisher, begun, raced>>
  BY DEF BecomeOverdue
<1>2. row \in DropRow /\ row.objs = drops[d].objs /\ row.overdue
  BY <1>1 DEF IInv, TypeOK, Stored, DropRow
<1> HIDE DEF row
<1>3. row # None /\ \A e \in Drops : drops'[e] = IF e = d THEN row ELSE drops[e]
  BY <1>1, <1>2, NoneAssumption DEF IInv, TypeOK
<1>4. /\ Stored' = Stored /\ Overdue' = Overdue \cup {d}
      /\ \A e \in Stored : drops'[e].objs = drops[e].objs
  BY <1>1, <1>2, <1>3 DEF Stored, Overdue
<1>5. Done' = Done
  BY <1>1 DEF Done, InProgress, Publishing, Drop
<1>6. Contents' = Contents /\ Readable' = Readable
  BY <1>1, <1>4 DEF Contents, Readable
<1>7. Phase' = [Phase EXCEPT ![d] = "overdue"]
  BY <1>1, <1>4, <1>5, PhaseOf, PhaseAfter, PhaseDomain
<1>8. Phase[d] = "kept"
  BY <1>1, PhaseOf
<1>9. Promise!BecomeOverdue(d)
  BY <1>1, <1>6, <1>7, <1>8 DEF Promise!BecomeOverdue
<1> QED BY <1>9 DEF Promise!Next

\* gc exposes what is being published, purges what is overdue, and otherwise
\* takes nothing but from what is exposed.
LEMMA CollectorIsPromised ==
    ASSUME StoreInv, IInv', NEW c \in Collectors, CollectorProgress(c) \/ KillCollector(c)
    PROVE  Promise!Next
<1>1. CASE Collect(c)
  <2>1. raced' = raced \cup InProgress /\ UNCHANGED <<objects, drops, publisher, begun>>
    BY <1>1 DEF Collect, InProgress, Drop
  <2>2. Done' = Done
    BY <2>1 DEF Done, InProgress, Publishing, Drop
  <2>3. /\ Phase' = Phase /\ Contents' = Contents /\ Stored' = Stored
        /\ Readable' = Readable
    BY <2>1, <2>2, SameView DEF Readable
  <2>4. /\ InProgress \subseteq Drops
        /\ \A d \in InProgress : d \notin Stored \cup Done
    BY DEF StoreInv, IInv, TypeOK, PublishedOnce, InProgress, Done
  <2>5. \A d \in InProgress : Phase[d] = "unpublished"
    BY <2>4, PhaseOf
  <2>6. Promise!Expose(InProgress)
    BY <2>1, <2>3, <2>5 DEF Promise!Expose
  <2> QED BY <2>4, <2>6 DEF Promise!Next
<1>2. CASE Purge(c)
  <2> DEFINE D == collector[c].doomed \cap Stored
  <2>1. /\ c \in Collecting
        /\ drops' = [d \in Drops |-> IF d \in collector[c].doomed THEN None ELSE drops[d]]
        /\ UNCHANGED <<objects, publisher, begun, raced>>
    BY <1>2 DEF Purge
  <2>2. D \subseteq Overdue /\ D \subseteq Stored
    BY <2>1 DEF StoreInv, DoomedAreOverdue
  <2>3. /\ Stored' = Stored \ D /\ Overdue' = Overdue \ D
        /\ \A d \in Stored' : drops'[d] = drops[d]
    BY <2>1 DEF Stored, Overdue
  <2> HIDE DEF D
  <2>4. Done' = Done /\ D \subseteq Done
    <3>1. Done' = Done
      BY <2>1 DEF Done, InProgress, Publishing, Drop
    <3>2. Stored \subseteq Done
      BY DEF StoreInv, IInv, PublishedOnce, Done, InProgress
    <3> QED BY <2>2, <3>1, <3>2
  <2>5. Contents' = [d \in Drops |-> IF d \in D THEN None ELSE Contents[d]]
    BY <2>3 DEF Contents
  <2>6. Readable' = Readable \ D
    BY <2>1, <2>3 DEF Readable
  <2>7. Phase' = [d \in Drops |-> IF d \in D THEN "ended" ELSE Phase[d]]
    BY <2>2, <2>3, <2>4, PhaseOf, PhaseAfter, PhaseDomain
  <2>8. \A d \in D : Phase[d] = "overdue"
    BY <2>2, PhaseOf DEF Stored
  <2>9. Promise!Purge(D)
    BY <2>1, <2>5, <2>6, <2>7, <2>8 DEF Promise!Purge
  <2>10. D \in SUBSET Drops
    BY <2>2 DEF Stored
  <2> QED BY <2>9, <2>10 DEF Promise!Next
<1>3. CASE UNCHANGED <<drops, publisher, begun, raced>>
  <2>1. Done' = Done
    BY <1>3 DEF Done, InProgress, Publishing, Drop
  <2> QED BY <1>3, <2>1, OnlyRacedWaver DEF StoreInv
<1>4. Collect(c) \/ Purge(c) \/ UNCHANGED <<drops, publisher, begun, raced>>
  BY DEF CollectorProgress, KillCollector, Visit, Unlink, Finish
<1> QED BY <1>1, <1>2, <1>3, <1>4

\* What is doomed stays overdue if no drop is stored but by its publication.
LEMMA StillOverdue ==
    ASSUME StoreInv, Stored' \subseteq Stored \cup InProgress,
           Overdue \cap Stored' \subseteq Overdue',
           \A c \in Collecting' :
              \/ collector'[c].doomed \subseteq Overdue'
              \/ c \in Collecting /\ collector'[c].doomed = collector[c].doomed
    PROVE  DoomedAreOverdue'
<1> SUFFICES ASSUME NEW c \in Collecting, collector'[c].doomed = collector[c].doomed
             PROVE  collector'[c].doomed \cap Stored' \subseteq Overdue'
  BY DEF DoomedAreOverdue
<1>1. collector[c].doomed \cap InProgress = {} /\ collector[c].doomed \cap Stored \subseteq Overdue
  BY DEF StoreInv, IInv, PublishedOnce, DoomedAreOverdue
<1> QED BY <1>1

LEMMA PublisherKeepsDoomed ==
    ASSUME StoreInv, NEW p \in Publishers, PublisherStep(p)
    PROVE  DoomedAreOverdue'
<1>1. UNCHANGED collector /\ Collecting' = Collecting
  BY DEF PublisherStep, Begin, Copy, Probe, Reuse, Install, Seal, Commit, Fail,
         KillPublisher, Collecting
<1>2. CASE drops' = drops
  <2>1. Stored' = Stored /\ Overdue' = Overdue
    BY <1>2 DEF Stored, Overdue
  <2> QED BY <1>1, <2>1, StillOverdue
<1>3. CASE Commit(p)
  <2>1. p \in Publishing /\ Drop(p) \in InProgress /\ Drop(p) \notin Stored
    BY <1>3 DEF Commit, At, Publishing, InProgress, StoreInv, IInv, PublishedOnce
  <2>2. \A d \in Drops : d # Drop(p) => drops'[d] = drops[d]
    BY <1>3 DEF Commit, Drop, StoreInv, IInv, TypeOK
  <2>3. Stored' \subseteq Stored \cup InProgress /\ Overdue \subseteq Overdue'
    BY <2>1, <2>2 DEF Stored, Overdue
  <2> QED BY <1>1, <2>3, StillOverdue
<1>4. Commit(p) \/ drops' = drops
  BY DEF PublisherStep, Begin, Copy, Probe, Reuse, Install, Seal, Fail, KillPublisher
<1> QED BY <1>2, <1>3, <1>4

LEMMA CollectorKeepsDoomed ==
    ASSUME StoreInv, NEW c \in Collectors, CollectorProgress(c) \/ KillCollector(c)
    PROVE  DoomedAreOverdue'
<1>1. /\ Stored' \subseteq Stored /\ Overdue \cap Stored' \subseteq Overdue'
  <2>1. CASE drops' = drops
    BY <2>1 DEF Stored, Overdue
  <2>2. CASE Purge(c)
    BY <2>2 DEF Purge, Stored, Overdue
  <2> QED
    BY <2>1, <2>2 DEF CollectorProgress, KillCollector, Collect, Visit, Unlink, Finish
<1>2. collector \in [Collectors -> Collection \cup {None}]
  BY DEF StoreInv, IInv, TypeOK
<1>3. CASE Collect(c)
  <2> DEFINE r == [stage |-> "walk", doomed |-> Overdue,
                   referenced |-> ReferencedAfterRetention(Overdue),
                   unseen |-> Objects, candidates |-> {}]
  <2>1. collector' = [collector EXCEPT ![c] = r] /\ r.doomed = Overdue /\ drops' = drops
    BY <1>3 DEF Collect
  <2>2. Overdue' = Overdue
    BY <2>1 DEF Overdue, Stored
  <2> HIDE DEF r
  <2>3. \A e \in Collectors : collector'[e] = IF e = c THEN r ELSE collector[e]
    BY <1>2, <2>1
  <2>4. \A e \in Collecting' : \/ collector'[e].doomed \subseteq Overdue'
                               \/ e \in Collecting /\ collector'[e].doomed = collector[e].doomed
    BY <2>1, <2>2, <2>3 DEF Collecting
  <2> QED BY <1>1, <2>4, StillOverdue
<1>4. CASE \/ \E o \in Objects : Visit(c, o) \/ Unlink(c, o)
           \/ Purge(c) \/ Finish(c) \/ KillCollector(c)
  <2>1. c \in Collecting /\ collector[c] \in Collection
    BY <1>2, <1>4 DEF Visit, Unlink, Purge, Finish, KillCollector, Collecting
  <2> DEFINE Left(r) == /\ collector' = [collector EXCEPT ![c] = r]
                        /\ r # None => r.doomed = collector[c].doomed
  <2>2. PICK r : Left(r)
    <3>1. ASSUME NEW o \in Objects, Visit(c, o)
          PROVE  \E r : Left(r)
      <4> DEFINE q == [collector[c] EXCEPT
                         !.unseen = @ \ {o},
                         !.candidates = IF Unreachable(c, o) THEN @ \cup {o} ELSE @]
      <4>1. collector' = [collector EXCEPT ![c] = q] /\ q.doomed = collector[c].doomed
        BY <2>1, <3>1 DEF Visit, Collection
      <4> QED BY <4>1
    <3>2. ASSUME NEW o \in Objects, Unlink(c, o)
          PROVE  \E r : Left(r)
      <4> DEFINE q == [collector[c] EXCEPT !.candidates = @ \ {o}]
      <4>1. collector' = [collector EXCEPT ![c] = q] /\ q.doomed = collector[c].doomed
        BY <2>1, <3>2 DEF Unlink, Collection
      <4> QED BY <4>1
    <3>3. ASSUME Purge(c)
          PROVE  \E r : Left(r)
      <4> DEFINE q == [collector[c] EXCEPT !.stage = "unlink"]
      <4>1. collector' = [collector EXCEPT ![c] = q] /\ q.doomed = collector[c].doomed
        BY <2>1, <3>3 DEF Purge, Collection
      <4> QED BY <4>1
    <3>4. ASSUME Finish(c) \/ KillCollector(c)
          PROVE  \E r : Left(r)
      BY <3>4 DEF Finish, KillCollector
    <3> QED BY <1>4, <3>1, <3>2, <3>3, <3>4
  <2>3. \A e \in Collectors : collector'[e] = IF e = c THEN r ELSE collector[e]
    BY <1>2, <2>2
  <2>4. \A e \in Collecting' : e \in Collecting /\ collector'[e].doomed = collector[e].doomed
    BY <2>1, <2>2, <2>3 DEF Collecting
  <2> QED BY <1>1, <2>4, StillOverdue
<1> QED BY <1>3, <1>4 DEF CollectorProgress

LEMMA InitIsPromised == Init => StoreInv /\ Promise!Init
<1> SUFFICES ASSUME Init PROVE StoreInv /\ Promise!Init
  OBVIOUS
<1>1. /\ Stored = {} /\ Overdue = {} /\ Collecting = {} /\ Publishing = {}
      /\ begun = {} /\ raced = {}
  BY DEF Init, Stored, Overdue, Collecting, Publishing
<1>2. StoreInv
  BY <1>1, InitIInv DEF StoreInv, DoomedAreOverdue
<1>3. Promise!Init
  BY <1>1 DEF Promise!Init, Phase, Contents, Readable
<1> QED BY <1>2, <1>3

LEMMA StepIsPromised ==
    ASSUME StoreInv, [Next]_vars
    PROVE  StoreInv' /\ [Promise!Next]_(Promise!vars)
<1>1. IInv'
  BY NextKeepsIInv DEF StoreInv
<1>2. ASSUME NEW p \in Publishers, PublisherStep(p)
      PROVE  DoomedAreOverdue' /\ Promise!Next
  <2>1. ASSUME NEW d \in Drops, NEW wanted \in SUBSET Objects, Begin(p, d, wanted)
        PROVE  Promise!Next
    BY <1>1, <2>1, BeginIsPromised DEF StoreInv
  <2>2. ASSUME \/ \E o \in Objects : Copy(p, o)
               \/ Probe(p) \/ Reuse(p) \/ Install(p) \/ Seal(p)
        PROVE  Promise!Next
    BY <1>1, <2>2, CaptureIsPromised DEF StoreInv
  <2>3. ASSUME Commit(p) \/ Fail(p) \/ KillPublisher(p)
        PROVE  Promise!Next
    BY <1>1, <2>3, EndIsPromised DEF StoreInv
  <2> QED BY <1>2, <2>1, <2>2, <2>3, PublisherKeepsDoomed DEF PublisherStep
<1>3. ASSUME NEW d \in Drops, BecomeOverdue(d)
      PROVE  DoomedAreOverdue' /\ Promise!Next
  <2>1. UNCHANGED collector /\ Collecting' = Collecting
    BY <1>3 DEF BecomeOverdue, Collecting
  <2>2. /\ \A e \in Drops : e # d => drops'[e] = drops[e]
        /\ d \in Stored
    BY <1>3 DEF BecomeOverdue, StoreInv, IInv, TypeOK
  <2>3. d \notin Overdue
    BY <1>3 DEF BecomeOverdue
  <2>4. Stored' \subseteq Stored /\ Overdue \subseteq Overdue'
    BY <2>2, <2>3 DEF Stored, Overdue
  <2>5. DoomedAreOverdue'
    BY <2>1, <2>4, StillOverdue
  <2> QED BY <1>3, <2>5, OverdueIsPromised DEF StoreInv
<1>4. ASSUME NEW c \in Collectors, CollectorProgress(c) \/ KillCollector(c)
      PROVE  DoomedAreOverdue' /\ Promise!Next
  BY <1>1, <1>4, CollectorKeepsDoomed, CollectorIsPromised
<1>5. CASE UNCHANGED vars
  <2>1. Stored' = Stored /\ Overdue' = Overdue /\ Collecting' = Collecting
    BY <1>5 DEF vars, Stored, Overdue, Collecting
  <2>2. DoomedAreOverdue'
    BY <1>5, <2>1 DEF vars, StoreInv, DoomedAreOverdue
  <2>3. Done' = Done
    BY <1>5 DEF vars, Done, InProgress, Publishing, Drop
  <2>4. Promise!Next
    BY <1>1, <1>5, <2>3, OnlyRacedWaver DEF vars, StoreInv
  <2> QED BY <1>1, <2>2, <2>4 DEF StoreInv
<1> QED BY <1>1, <1>2, <1>3, <1>4, <1>5 DEF StoreInv, Next

(***************************************************************************)
(* storage.rs implements DropStore, whatever publications, runs of gc and   *)
(* kills there are: a drop's contents never change, a drop leaves the store *)
(* only when it is overdue, although a run of gc purges by what it read     *)
(* before its walk, and a drop that can lose bytes was raced before it was  *)
(* published.                                                               *)
(***************************************************************************)
THEOREM StoreImplementsDropStore == Spec => ImplementsDropStore
<1>1. Init => StoreInv /\ Promise!Init
  BY InitIsPromised
<1>2. StoreInv /\ [Next]_vars => StoreInv' /\ [Promise!Next]_(Promise!vars)
  BY StepIsPromised
<1> QED BY <1>1, <1>2, PTL DEF Spec, ImplementsDropStore, Promise!Spec

(***************************************************************************)
(* So a drop that has been published, and gc did not meet before, is there  *)
(* to be read in whole.                                                     *)
(***************************************************************************)
THEOREM PublishedDropsAreReadable == Spec => []Promise!PublishedIsReadable
<1>1. IInv => Promise!PublishedIsReadable
  <2> SUFFICES ASSUME IInv, NEW d \in Drops, Phase[d] \in {"kept", "overdue"}, d \notin raced
               PROVE  d \in Readable
    BY DEF Promise!PublishedIsReadable, Promise!Published
  <2>1. d \in Stored
    BY PhaseOf
  <2> QED BY <2>1 DEF IInv, OnlyRacedDropsLoseObjects, Readable
<1> QED BY <1>1, Invariance, PTL


-----------------------------------------------------------------------------
(***************************************************************************)
(* The inductive invariant.  A loss the doctor has not named is still among *)
(* the objects it will look at, and still absent when it does.  While gc    *)
(* is idle no row of drops goes, so what the query returned stays           *)
(* referenced, and what is referenced and absent was lost by a raced drop.  *)
(***************************************************************************)
LossIsAhead ==
    Examining => /\ doctor.lost \subseteq doctor.missing \cup doctor.unseen
                 /\ doctor.lost \cap objects = {}

QuietViewIsCurrent ==
    Examining /\ ~disturbed =>
        /\ Collecting = {}
        /\ doctor.unseen \subseteq ReferencedObjects
        /\ \A o \in doctor.missing : \E d \in Stored \cap raced : o \in drops[d].objs

DoctorIInv ==
    /\ IInv
    /\ DoctorTypeOK
    /\ LossIsAhead
    /\ QuietViewIsCurrent

-----------------------------------------------------------------------------
\* What drops reference are objects.
LEMMA ReferencedAreObjects ==
    ASSUME TypeOK PROVE ReferencedObjects \subseteq Objects
<1>1. \A d \in Stored : drops[d] \in DropRow
  BY DEF TypeOK, Stored
<1> QED BY <1>1 DEF ReferencedObjects, DropRow

\* The rows and the references depend on drops alone.
LEMMA SameStore ==
    ASSUME UNCHANGED vars
    PROVE  /\ Stored' = Stored /\ Collecting' = Collecting
           /\ ReferencedObjects' = ReferencedObjects
  BY DEF vars, Stored, Collecting, ReferencedObjects

\* A step of the store that leaves idle collectors idle takes no row away and
\* changes what none of them references.
LEMMA IdleStep ==
    ASSUME IInv, Next, Collecting = {}, collector' = collector
    PROVE  /\ Collecting' = {}
           /\ Stored \subseteq Stored'
           /\ \A d \in Stored : drops'[d].objs = drops[d].objs
           /\ raced \subseteq raced'
<1> USE DEF IInv
<1>1. Collecting' = {}
  BY DEF Collecting
<1>2. SUFFICES /\ Stored \subseteq Stored'
               /\ \A d \in Stored : drops'[d].objs = drops[d].objs
               /\ raced \subseteq raced'
  BY <1>1
<1>3. ASSUME UNCHANGED drops, raced \subseteq raced' PROVE <1>2!1
  BY <1>3 DEF Stored
<1>4. ASSUME NEW p \in Publishers, PublisherStep(p) PROVE <1>2!1
  <2>1. ASSUME Commit(p) PROVE <1>2!1
    <3> DEFINE row == [objs |-> publisher[p].done, overdue |-> FALSE]
    <3>1. p \in Publishing
      BY <2>1 DEF Commit, At, Publishing
    <3>2. publisher[p].drop \notin Stored
      BY <3>1 DEF PublishedOnce, Drop
    <3>3. \A d \in Drops : d # publisher[p].drop => drops'[d] = drops[d]
      BY <2>1 DEF Commit, TypeOK
    <3> QED BY <2>1, <3>2, <3>3 DEF Commit, Stored
  <2>2. ASSUME NEW d \in Drops, NEW wanted \in SUBSET Objects, Begin(p, d, wanted)
        PROVE  <1>2!1
    BY <2>2, <1>3 DEF Begin
  <2>3. ASSUME \/ \E o \in Objects : Copy(p, o)
               \/ Probe(p) \/ Reuse(p) \/ Install(p) \/ Seal(p) \/ Fail(p)
               \/ KillPublisher(p)
        PROVE  <1>2!1
    BY <2>3, <1>3 DEF Copy, Probe, Reuse, Install, Seal, Fail, KillPublisher
  <2> QED BY <1>4, <2>1, <2>2, <2>3 DEF PublisherStep
<1>5. ASSUME NEW d \in Drops, BecomeOverdue(d) PROVE <1>2!1
  <2>1. d \in Stored /\ drops[d] \in DropRow
    BY <1>5 DEF BecomeOverdue, TypeOK, Stored
  <2> DEFINE row == [drops[d] EXCEPT !.overdue = TRUE]
  <2>2. row \in DropRow /\ row.objs = drops[d].objs
    BY <2>1 DEF DropRow
  <2>3. \A e \in Drops : drops'[e] = IF e = d THEN row ELSE drops[e]
    BY <1>5 DEF BecomeOverdue, TypeOK
  <2> HIDE DEF row
  <2>4. row # None
    BY <2>2, NoneAssumption
  <2> QED BY <1>5, <2>2, <2>3, <2>4 DEF BecomeOverdue, Stored
<1>6. ASSUME NEW c \in Collectors, CollectorProgress(c) \/ KillCollector(c) PROVE <1>2!1
  <2>1. Collect(c)
    BY <1>6 DEF CollectorProgress, Visit, Unlink, Purge, Finish, KillCollector
  <2> QED BY <2>1, <1>3 DEF Collect
<1> QED BY <1>4, <1>5, <1>6 DEF Next

-----------------------------------------------------------------------------
LEMMA DoctorInitIInv == DoctorInit => DoctorIInv
<1> SUFFICES ASSUME DoctorInit PROVE DoctorIInv
  OBVIOUS
<1>1. IInv /\ ~Examining
  BY InitIInv DEF DoctorInit, Examining
<1> QED
  BY <1>1 DEF DoctorInit, DoctorIInv, DoctorTypeOK, LossIsAhead, QuietViewIsCurrent, IInv

\* The store goes on under an examination.
LEMMA StoreStepKeepsIInv == DoctorIInv /\ StoreStep => DoctorIInv'
<1> SUFFICES ASSUME DoctorIInv, StoreStep PROVE DoctorIInv'
  OBVIOUS
<1>1. IInv'
  BY NextKeepsIInv DEF DoctorIInv, StoreStep
<1>2. CASE ~Examining
  <2>1. doctor' = doctor /\ ~Examining' /\ disturbed' \in BOOLEAN
    BY <1>2 DEF StoreStep, Examining, DoctorIInv, DoctorTypeOK
  <2> QED
    BY <1>1, <2>1 DEF DoctorIInv, DoctorTypeOK, LossIsAhead, QuietViewIsCurrent, IInv
<1>3. CASE Examining
  <2>1. doctor \in Examination
    BY <1>3 DEF DoctorIInv, DoctorTypeOK, Examining
  <2>2. /\ doctor' \in Examination
        /\ doctor'.unseen = doctor.unseen /\ doctor'.missing = doctor.missing
        /\ doctor'.lost = doctor.lost \ objects'
    BY <1>3, <2>1 DEF StoreStep, Examination
  <2>3. disturbed' = (disturbed \/ collector' # collector)
    BY <1>3 DEF StoreStep
  <2>4. DoctorTypeOK'
    BY <1>1, <2>2, <2>3 DEF DoctorTypeOK, IInv
  <2>5. LossIsAhead'
    BY <1>3, <2>2 DEF DoctorIInv, LossIsAhead
  <2>6. QuietViewIsCurrent'
    <3> SUFFICES ASSUME ~disturbed'
                 PROVE  /\ Collecting' = {}
                        /\ doctor'.unseen \subseteq ReferencedObjects'
                        /\ \A o \in doctor'.missing :
                              \E d \in Stored' \cap raced' : o \in drops'[d].objs
      BY DEF QuietViewIsCurrent
    <3>1. ~disturbed /\ collector' = collector
      BY <2>3
    <3>2. /\ Collecting = {}
          /\ doctor.unseen \subseteq ReferencedObjects
          /\ \A o \in doctor.missing : \E d \in Stored \cap raced : o \in drops[d].objs
      BY <1>3, <3>1 DEF DoctorIInv, QuietViewIsCurrent
    <3>3. /\ Collecting' = {}
          /\ Stored \subseteq Stored'
          /\ \A d \in Stored : drops'[d].objs = drops[d].objs
          /\ raced \subseteq raced'
      BY <3>1, <3>2, IdleStep DEF DoctorIInv, StoreStep
    <3>4. ReferencedObjects \subseteq ReferencedObjects'
      BY <3>3 DEF ReferencedObjects
    <3> QED BY <2>2, <3>2, <3>3, <3>4
  <2> QED BY <1>1, <2>4, <2>5, <2>6 DEF DoctorIInv
<1> QED BY <1>2, <1>3

\* The references are read.
LEMMA ExamineKeepsIInv == DoctorIInv /\ Examine => DoctorIInv'
<1> SUFFICES ASSUME DoctorIInv, Examine PROVE DoctorIInv'
  OBVIOUS
<1>1. UNCHANGED vars /\ IInv'
  BY NextKeepsIInv DEF DoctorIInv, Examine
<1>2. /\ Stored' = Stored /\ Collecting' = Collecting
      /\ ReferencedObjects' = ReferencedObjects /\ objects' = objects
  BY <1>1, SameStore DEF vars
<1>3. ReferencedObjects \subseteq Objects
  BY ReferencedAreObjects DEF DoctorIInv, IInv
<1>4. doctor' = [unseen |-> ReferencedObjects, missing |-> {},
                 lost |-> ReferencedObjects \ objects]
  BY DEF Examine, ReferencedObjects
<1>5. doctor' \in Examination
  BY <1>3, <1>4 DEF Examination
<1>6. DoctorTypeOK'
  BY <1>1, <1>5 DEF Examine, DoctorTypeOK, IInv
<1>7. LossIsAhead'
  BY <1>2, <1>4 DEF LossIsAhead
<1>8. QuietViewIsCurrent'
  <2>1. disturbed' = (Collecting # {})
    BY DEF Examine
  <2> QED BY <1>2, <1>4, <2>1 DEF QuietViewIsCurrent
<1> QED BY <1>1, <1>6, <1>7, <1>8 DEF DoctorIInv

\* One object is looked at.
LEMMA LookAtKeepsIInv ==
    ASSUME DoctorIInv, NEW o \in Objects, LookAt(o) PROVE DoctorIInv'
<1>1. UNCHANGED vars /\ IInv'
  BY NextKeepsIInv DEF DoctorIInv, LookAt
<1>2. /\ Stored' = Stored /\ Collecting' = Collecting
      /\ ReferencedObjects' = ReferencedObjects
      /\ objects' = objects /\ drops' = drops /\ raced' = raced
  BY <1>1, SameStore DEF vars
<1>3. Examining /\ doctor \in Examination /\ o \in doctor.unseen
  BY DEF LookAt, DoctorIInv, DoctorTypeOK, Examining
<1>4. /\ doctor' \in Examination
      /\ doctor'.unseen = doctor.unseen \ {o}
      /\ doctor'.missing = IF o \notin objects THEN doctor.missing \cup {o}
                                               ELSE doctor.missing
      /\ doctor'.lost = doctor.lost
  BY <1>3 DEF LookAt, Absent, Examination
<1>5. disturbed' = disturbed
  BY DEF LookAt
<1>6. DoctorTypeOK'
  BY <1>1, <1>4, <1>5 DEF DoctorTypeOK, DoctorIInv, IInv
<1>7. LossIsAhead'
  BY <1>2, <1>3, <1>4 DEF DoctorIInv, LossIsAhead
<1>8. QuietViewIsCurrent'
  <2> SUFFICES ASSUME ~disturbed PROVE QuietViewIsCurrent'
    BY <1>5 DEF QuietViewIsCurrent
  <2>1. /\ Collecting = {}
        /\ doctor.unseen \subseteq ReferencedObjects
        /\ \A x \in doctor.missing : \E d \in Stored \cap raced : x \in drops[d].objs
    BY <1>3 DEF DoctorIInv, QuietViewIsCurrent
  <2>2. ASSUME o \notin objects
        PROVE  \E d \in Stored \cap raced : o \in drops[d].objs
    <3>1. PICK d \in Stored : o \in drops[d].objs
      BY <1>3, <2>1 DEF ReferencedObjects
    <3>2. d \in raced
      BY <2>2, <3>1 DEF DoctorIInv, IInv, OnlyRacedDropsLoseObjects
    <3> QED BY <3>1, <3>2
  <2> QED BY <1>2, <1>4, <2>1, <2>2 DEF QuietViewIsCurrent
<1> QED BY <1>1, <1>6, <1>7, <1>8 DEF DoctorIInv

LEMMA DoctorNextKeepsIInv == DoctorIInv /\ [DoctorNext]_allVars => DoctorIInv'
<1> SUFFICES ASSUME DoctorIInv, [DoctorNext]_allVars PROVE DoctorIInv'
  OBVIOUS
<1>1. ASSUME Report PROVE DoctorIInv'
  <2>1. IInv' /\ ~Examining' /\ doctor' = None /\ disturbed' = FALSE
    BY <1>1, NextKeepsIInv DEF DoctorIInv, Report, Examining
  <2> QED
    BY <2>1 DEF DoctorIInv, DoctorTypeOK, LossIsAhead, QuietViewIsCurrent, IInv
<1>2. ASSUME UNCHANGED allVars PROVE DoctorIInv'
  <2>1. UNCHANGED vars /\ doctor' = doctor /\ disturbed' = disturbed
    BY <1>2 DEF allVars, doctorVars
  <2>2. IInv' /\ objects' = objects /\ drops' = drops /\ raced' = raced
    BY <2>1, NextKeepsIInv DEF DoctorIInv, vars
  <2>3. Stored' = Stored /\ Collecting' = Collecting /\ ReferencedObjects' = ReferencedObjects
    BY <2>1, SameStore
  <2> QED
    BY <2>1, <2>2, <2>3
       DEF DoctorIInv, DoctorTypeOK, Examining, LossIsAhead, QuietViewIsCurrent, IInv
<1> QED
  BY <1>1, <1>2, StoreStepKeepsIInv, ExamineKeepsIInv, LookAtKeepsIInv DEF DoctorNext

(***************************************************************************)
(* The invariant holds with a doctor between any two of these steps.       *)
(***************************************************************************)
THEOREM DoctorInvariance == DoctorSpec => []DoctorIInv
BY DoctorInitIInv, DoctorNextKeepsIInv, PTL DEF DoctorSpec

-----------------------------------------------------------------------------
(***************************************************************************)
(* What is shown above of the store alone also holds beside the doctor:     *)
(* the variables keep their types, and only raced drops lose objects.       *)
(***************************************************************************)
THEOREM DoctorTypeCorrect == DoctorSpec => [](DoctorTypeOK /\ OnlyRacedDropsLoseObjects)
<1>1. DoctorIInv => DoctorTypeOK /\ OnlyRacedDropsLoseObjects
  BY DEF DoctorIInv, IInv
<1> QED BY <1>1, DoctorInvariance, PTL

(***************************************************************************)
(* The report of Storage::doctor (storage.rs:492-521) names every object    *)
(* that was referenced and absent when it began and has been absent since.  *)
(***************************************************************************)
THEOREM LastingLossesAreReported == DoctorSpec => []DoctorSeesLoss
<1>1. DoctorIInv => DoctorSeesLoss
  BY DEF DoctorIInv, LossIsAhead, DoctorSeesLoss
<1> QED BY <1>1, DoctorInvariance, PTL

(***************************************************************************)
(* An object that an examination undisturbed by gc reports missing is       *)
(* referenced by a stored drop, one whose publication had overlapped gc.    *)
(***************************************************************************)
THEOREM AlarmsAreLosses == DoctorSpec => []AlarmsAreReal
<1>1. DoctorIInv => AlarmsAreReal
  BY DEF DoctorIInv, QuietViewIsCurrent, AlarmsAreReal
<1> QED BY <1>1, DoctorInvariance, PTL

(***************************************************************************)
(* The doctor only looks: beside it the store still does what DropStore     *)
(* says.                                                                    *)
(***************************************************************************)
THEOREM DoctorOnlyLooks == DoctorSpec => ImplementsDropStore
<1>1. DoctorInit => Init
  BY DEF DoctorInit
<1>2. [DoctorNext]_allVars => [Next]_vars
  <2>1. ASSUME DoctorNext PROVE [Next]_vars
    BY <2>1 DEF DoctorNext, StoreStep, Examine, LookAt, Report
  <2> QED BY <2>1 DEF allVars
<1> QED BY <1>1, <1>2, StoreImplementsDropStore, PTL DEF DoctorSpec, Spec
=============================================================================
