-------------------------- MODULE FetchClientProofs --------------------------
(***************************************************************************)
(* The invariants of FetchClient, for every value of its constants.         *)
(***************************************************************************)
EXTENDS FetchClient, FiniteSetTheorems, TLAPS

FetcherRow == [stage : Stages, code : Codes \cup {None}, place : Places \cup {None},
               drop : Drops \cup {None}, files : Amounts]

ReportRow == [code : Codes \cup {None}, place : Places \cup {None},
              drop : Drops \cup {None}]

\* What a process knows at each stage about what it is fetching.
RowInv(row) ==
    /\ row.stage # "idle" =>
          /\ row.code \in Codes /\ row.place \in Places
          /\ row.place \in Codes => row.place = row.code
    /\ row.stage \in {"download", "extract", "mark", "publish", "finish"} =>
          row.drop \in ever[row.code]
    /\ row.stage \in {"mark", "publish", "finish"} => row.files = "all"
    /\ row.stage \in {"publish", "finish"} => row.drop \notin Clashing
    /\ row.stage = "finish" => dir[row.place] = Fetched(row.drop, "all")

\* What stands behind a report.
ReportInv(report) ==
    report # NoResult =>
        /\ report.code \in Codes /\ report.place \in Places
        /\ dir[report.place] = Fetched(report.drop, "all")
        /\ report.place \in Codes => report.drop \in ever[report.code]

\* The cache holds under a code what the code has named.
CacheInv ==
    \A c \in Codes :
        /\ names[c] # None => names[c] \in ever[c]
        /\ dir[c].kind = "fetched" => dir[c].drop \in ever[c]

FetchInv ==
    /\ TypeOK
    /\ \A f \in Fetchers : RowInv(fetcher[f]) /\ ReportInv(result[f])
    /\ CacheInv
    /\ MarkedPlacesAreWhole
    /\ StagingIsAccountedFor /\ IsFiniteSet(Staged)

-----------------------------------------------------------------------------

Unstaged == {"idle", "probe", "prepare"}

LEMMA NoneIsNowhere == None \notin Drops /\ None \notin Codes /\ None \notin Places
BY FetchAssumption DEF Places

LEMMA RowOf ==
    ASSUME TypeOK, NEW f \in Fetchers
    PROVE  /\ fetcher \in [Fetchers -> FetcherRow]
           /\ fetcher[f] \in FetcherRow /\ fetcher[f].stage \in Stages
BY DEF TypeOK, FetcherRow

\* One process moves: its row is replaced, and it has a staging directory or
\* not according to the stage it comes to.
LEMMA OneMoves ==
    ASSUME TypeOK, NEW f \in Fetchers, NEW row \in FetcherRow,
           fetcher' = [fetcher EXCEPT ![f] = row]
    PROVE  /\ fetcher' \in [Fetchers -> FetcherRow]
           /\ fetcher'[f] = row
           /\ \A g \in Fetchers : g # f => fetcher'[g] = fetcher[g]
           /\ f \in Staged <=> fetcher[f].stage \notin Unstaged
           /\ Staged' = IF row.stage \in Unstaged THEN Staged \ {f} ELSE Staged \cup {f}
BY RowOf DEF Staged, Unstaged

\* What a move may do to the staging directories, and what it may not.
LEMMA MovesAreAccountedFor ==
    ASSUME TypeOK, StagingIsAccountedFor, IsFiniteSet(Staged),
           NEW f \in Fetchers, NEW row \in FetcherRow,
           fetcher' = [fetcher EXCEPT ![f] = row],
           \/ /\ fetcher[f].stage \in Unstaged <=> row.stage \in Unstaged
              /\ staging' = staging /\ kills' = kills
           \/ /\ fetcher[f].stage \in Unstaged /\ row.stage \notin Unstaged
              /\ staging' = staging + 1 /\ kills' = kills
           \/ /\ fetcher[f].stage \notin Unstaged /\ row.stage \in Unstaged
              /\ \/ staging' = staging - 1 /\ kills' = kills
                 \/ staging' = staging /\ kills' = kills + 1
    PROVE  StagingIsAccountedFor' /\ IsFiniteSet(Staged') /\ staging' \in Nat
<1>1. /\ f \in Staged <=> fetcher[f].stage \notin Unstaged
      /\ Staged' = IF row.stage \in Unstaged THEN Staged \ {f} ELSE Staged \cup {f}
  BY OneMoves
<1>2. /\ Cardinality(Staged) \in Nat /\ kills \in Nat
      /\ staging = Cardinality(Staged) + kills
  BY FS_CardinalityType, FetchAssumption DEF TypeOK, StagingIsAccountedFor
<1>3. CASE /\ fetcher[f].stage \in Unstaged <=> row.stage \in Unstaged
           /\ staging' = staging /\ kills' = kills
  <2>1. Staged' = Staged
    BY <1>1, <1>3
  <2>2. QED
    BY <1>2, <1>3, <2>1 DEF StagingIsAccountedFor
<1>4. CASE /\ fetcher[f].stage \in Unstaged /\ row.stage \notin Unstaged
           /\ staging' = staging + 1 /\ kills' = kills
  <2>1. Staged' = Staged \cup {f} /\ f \notin Staged
    BY <1>1, <1>4
  <2>2. IsFiniteSet(Staged') /\ Cardinality(Staged') = Cardinality(Staged) + 1
    BY <2>1, FS_AddElement
  <2>3. QED
    BY <1>2, <1>4, <2>2 DEF StagingIsAccountedFor
<1>5. CASE /\ fetcher[f].stage \notin Unstaged /\ row.stage \in Unstaged
           /\ \/ staging' = staging - 1 /\ kills' = kills
              \/ staging' = staging /\ kills' = kills + 1
  <2>1. Staged' = Staged \ {f} /\ f \in Staged
    BY <1>1, <1>5
  <2>2. IsFiniteSet(Staged') /\ Cardinality(Staged') = Cardinality(Staged) - 1
    BY <2>1, FS_RemoveElement
  <2>3. Cardinality(Staged') \in Nat
    BY <2>2, FS_CardinalityType
  <2>4. QED
    BY <1>2, <1>5, <2>2, <2>3 DEF StagingIsAccountedFor
<1>6. QED
  BY <1>3, <1>4, <1>5

\* The two ways in which Fail ends a process.
LEMMA FailIsAMove ==
    ASSUME TypeOK, NEW f \in Fetchers, Fail(f)
    PROVE  /\ Idle \in FetcherRow /\ Idle.stage \in Unstaged
           /\ fetcher' = [fetcher EXCEPT ![f] = Idle]
           /\ fetcher[f].stage \in Unstaged => staging' = staging
           /\ fetcher[f].stage \notin Unstaged => staging' = staging - 1
<1>1. Idle \in FetcherRow /\ Idle.stage \in Unstaged
  BY DEF Idle, FetcherRow, Stages, Amounts, Unstaged
<1>2. f \in Staged <=> fetcher[f].stage \notin Unstaged
  BY DEF Staged, Unstaged
<1>3. CASE f \in Staged
  <2>1. {f} \cap Staged = {f}
    BY <1>3
  <2>2. Cardinality({f} \cap Staged) = 1
    BY <2>1, FS_Singleton
  <2>3. QED
    BY <1>1, <1>2, <1>3, <2>2 DEF Fail
<1>4. CASE f \notin Staged
  <2>1. {f} \cap Staged = {}
    BY <1>4
  <2>2. Cardinality({f} \cap Staged) = 0
    BY <2>1, FS_EmptySet
  <2>3. staging - 0 = staging
    BY DEF TypeOK
  <2>4. QED
    BY <1>1, <1>2, <1>4, <2>2, <2>3 DEF Fail
<1>5. QED
  BY <1>3, <1>4

-----------------------------------------------------------------------------
\* A step of a process that leaves the places as they are: enough that what it
\* now knows, and what it reports, is so.
LEMMA MoveKeepsInv ==
    ASSUME FetchInv, NEW f \in Fetchers, NEW row \in FetcherRow, NEW report \in ReportRow,
           fetcher' = [fetcher EXCEPT ![f] = row], RowInv(row),
           result' = [result EXCEPT ![f] = report], ReportInv(report),
           UNCHANGED <<names, ever, dir, changes, edits>>, kills' \in 0..MaxKills,
           StagingIsAccountedFor' /\ IsFiniteSet(Staged') /\ staging' \in Nat
    PROVE  FetchInv'
<1> USE DEF FetchInv
<1>1. /\ fetcher' \in [Fetchers -> FetcherRow] /\ fetcher'[f] = row
      /\ \A g \in Fetchers : g # f => fetcher'[g] = fetcher[g]
  BY OneMoves
<1>2. /\ result' \in [Fetchers -> ReportRow] /\ result'[f] = report
      /\ \A g \in Fetchers : g # f => result'[g] = result[g]
  BY DEF TypeOK, ReportRow
<1>3. TypeOK'
  BY <1>1, <1>2 DEF TypeOK, FetcherRow, ReportRow
<1>4. ASSUME NEW g \in Fetchers
      PROVE  RowInv(fetcher[g])' /\ ReportInv(result[g])'
  <2>1. RowInv(fetcher'[g]) /\ ReportInv(result'[g])
    BY <1>1, <1>2
  <2>2. RowInv(fetcher[g])'
    BY <2>1 DEF RowInv
  <2>3. ReportInv(result[g])'
    BY <2>1 DEF ReportInv
  <2>4. QED
    BY <2>2, <2>3
<1>5. CacheInv' /\ MarkedPlacesAreWhole'
  BY DEF CacheInv, MarkedPlacesAreWhole
<1>6. QED
  BY <1>3, <1>4, <1>5

\* As most steps are, without a report.
LEMMA QuietMoveKeepsInv ==
    ASSUME FetchInv, NEW f \in Fetchers, NEW row \in FetcherRow,
           fetcher' = [fetcher EXCEPT ![f] = row], RowInv(row),
           UNCHANGED <<names, ever, dir, result, changes, edits>>,
           \/ /\ fetcher[f].stage \in Unstaged <=> row.stage \in Unstaged
              /\ staging' = staging /\ kills' = kills
           \/ /\ fetcher[f].stage \in Unstaged /\ row.stage \notin Unstaged
              /\ staging' = staging + 1 /\ kills' = kills
           \/ /\ fetcher[f].stage \notin Unstaged /\ row.stage \in Unstaged
              /\ \/ staging' = staging - 1 /\ kills' = kills
                 \/ staging' = staging /\ kills < MaxKills /\ kills' = kills + 1
    PROVE  FetchInv'
<1>1. StagingIsAccountedFor' /\ IsFiniteSet(Staged') /\ staging' \in Nat
  BY MovesAreAccountedFor DEF FetchInv
<1>2. kills' \in 0..MaxKills
  BY FetchAssumption DEF FetchInv, TypeOK
<1>3. /\ result[f] \in ReportRow /\ ReportInv(result[f])
      /\ result' = [result EXCEPT ![f] = result[f]]
  BY DEF FetchInv, TypeOK, ReportRow
<1>4. QED
  BY <1>1, <1>2, <1>3, MoveKeepsInv

LEMMA FailKeepsInv ==
    ASSUME FetchInv, NEW f \in Fetchers, Fail(f),
           UNCHANGED <<names, ever, dir, result, changes, kills, edits>>
    PROVE  FetchInv'
<1>1. RowInv(Idle)
  BY DEF RowInv, Idle
<1>2. QED
  BY <1>1, FailIsAMove, QuietMoveKeepsInv DEF FetchInv

-----------------------------------------------------------------------------
LEMMA FactsOf ==
    ASSUME FetchInv, NEW f \in Fetchers
    PROVE  /\ fetcher[f] \in FetcherRow /\ RowInv(fetcher[f]) /\ ReportInv(result[f])
           /\ fetcher[f].stage # "idle" =>
                 fetcher[f].code \in Codes /\ fetcher[f].place \in Places
BY RowOf DEF FetchInv, RowInv

LEMMA StartKeepsInv ==
    ASSUME FetchInv, NEW f \in Fetchers, NEW c \in Codes, NEW output \in Outputs \cup {None},
           Start(f, c, output)
    PROVE  FetchInv'
<1> DEFINE row == [Idle EXCEPT !.stage = "probe", !.code = c,
                               !.place = IF output = None THEN Destination(c) ELSE output]
<1>1. row \in FetcherRow /\ row.stage = "probe"
  BY DEF Idle, FetcherRow, Stages, Amounts, Places, Destination
<1>2. row.code = c /\ row.place \in Places /\ (row.place \in Codes => row.place = c)
  BY FetchAssumption DEF Idle, Places, Destination
<1>3. fetcher' = [fetcher EXCEPT ![f] = row] /\ fetcher[f].stage = "idle"
  BY DEF Start
<1> HIDE DEF row
<1>4. RowInv(row)
  BY <1>1, <1>2 DEF RowInv
<1>5. NoResult \in ReportRow /\ ReportInv(NoResult)
  BY DEF NoResult, ReportRow, ReportInv
<1>6. StagingIsAccountedFor' /\ IsFiniteSet(Staged') /\ staging' \in Nat
  BY <1>1, <1>3, MovesAreAccountedFor DEF FetchInv, Start, Unstaged
<1>7. kills' \in 0..MaxKills /\ result' = [result EXCEPT ![f] = NoResult]
      /\ UNCHANGED <<names, ever, dir, changes, edits>>
  BY DEF Start, FetchInv, TypeOK
<1>8. QED
  BY <1>1, <1>3, <1>4, <1>5, <1>6, <1>7, MoveKeepsInv

\* A hit reports what it found, which is all of the drop.
LEMMA ProbeHitKeepsInv ==
    ASSUME FetchInv, NEW f \in Fetchers, ProbeHit(f)
    PROVE  FetchInv'
<1> DEFINE place == fetcher[f].place
           report == [code |-> fetcher[f].code, place |-> place, drop |-> dir[place].drop]
<1>1. /\ fetcher[f].stage = "probe" /\ fetcher[f].code \in Codes /\ place \in Places
      /\ place \in Codes => place = fetcher[f].code
      /\ dir[place].kind = "fetched"
  BY FactsOf DEF ProbeHit, RowInv
<1>2. /\ dir[place] \in [kind : {"absent", "empty", "other", "fetched"},
                         drop : Drops \cup {None}, files : Amounts]
      /\ dir[place].files = "all"
  BY <1>1 DEF FetchInv, TypeOK, MarkedPlacesAreWhole
<1>3. dir[place] = Fetched(dir[place].drop, "all")
  BY <1>1, <1>2 DEF Fetched
<1>4. report \in ReportRow /\ ReportInv(report)
  <2>1. place \in Codes => dir[place].drop \in ever[place]
    BY <1>1 DEF FetchInv, CacheInv
  <2>2. QED
    BY <1>1, <1>2, <1>3, <2>1 DEF ReportRow, ReportInv
<1>5. Idle \in FetcherRow /\ Idle.stage = "idle" /\ RowInv(Idle)
  BY DEF Idle, FetcherRow, Stages, Amounts, RowInv
<1>6. /\ fetcher' = [fetcher EXCEPT ![f] = Idle]
      /\ result' = [result EXCEPT ![f] = report]
      /\ UNCHANGED <<names, ever, dir, staging, changes, kills, edits>>
  BY DEF ProbeHit
<1>7. StagingIsAccountedFor' /\ IsFiniteSet(Staged') /\ staging' \in Nat
  BY <1>1, <1>5, <1>6, MovesAreAccountedFor DEF FetchInv, Unstaged
<1>8. kills' \in 0..MaxKills
  BY <1>6 DEF FetchInv, TypeOK
<1>9. QED
  BY <1>4, <1>5, <1>6, <1>7, <1>8, MoveKeepsInv

LEMMA FinishKeepsInv ==
    ASSUME FetchInv, NEW f \in Fetchers, Finish(f)
    PROVE  FetchInv'
<1> DEFINE report == [code |-> fetcher[f].code, place |-> fetcher[f].place,
                      drop |-> fetcher[f].drop]
<1>1. /\ fetcher[f].stage = "finish"
      /\ fetcher' = [fetcher EXCEPT ![f] = Idle]
      /\ result' = [result EXCEPT ![f] = report]
      /\ staging' = staging - 1
      /\ UNCHANGED <<names, ever, dir, changes, kills, edits>>
  BY DEF Finish
<1>2. /\ fetcher[f].code \in Codes /\ fetcher[f].place \in Places
      /\ fetcher[f].drop \in ever[fetcher[f].code]
      /\ fetcher[f].drop \in Drops \cup {None}
      /\ dir[fetcher[f].place] = Fetched(fetcher[f].drop, "all")
  BY <1>1, FactsOf DEF RowInv, FetcherRow
<1>3. report \in ReportRow /\ ReportInv(report)
  BY <1>2 DEF ReportRow, ReportInv
<1>4. Idle \in FetcherRow /\ Idle.stage = "idle" /\ RowInv(Idle)
  BY DEF Idle, FetcherRow, Stages, Amounts, RowInv
<1>5. StagingIsAccountedFor' /\ IsFiniteSet(Staged') /\ staging' \in Nat
  BY <1>1, <1>4, MovesAreAccountedFor DEF FetchInv, Unstaged
<1>6. kills' \in 0..MaxKills
  BY <1>1 DEF FetchInv, TypeOK
<1>7. QED
  BY <1>1, <1>3, <1>4, <1>5, <1>6, MoveKeepsInv

\* The steps between the probe and the publication.
LEMMA WorkKeepsInv ==
    ASSUME FetchInv, NEW f \in Fetchers,
           ProbeMiss(f) \/ Prepare(f) \/ Redeem(f) \/ Download(f) \/ Extract(f) \/ Mark(f)
    PROVE  FetchInv'
<1>0. /\ fetcher[f] \in FetcherRow /\ RowInv(fetcher[f])
      /\ fetcher[f].stage # "idle" =>
            fetcher[f].code \in Codes /\ fetcher[f].place \in Places
  BY FactsOf
<1>1. CASE ProbeMiss(f)
  <2> DEFINE row == [fetcher[f] EXCEPT !.stage = "prepare"]
  <2>1. /\ fetcher' = [fetcher EXCEPT ![f] = row] /\ fetcher[f].stage = "probe"
        /\ UNCHANGED <<names, ever, dir, result, changes, edits, staging, kills>>
    BY <1>1 DEF ProbeMiss
  <2>2. row \in FetcherRow /\ row.stage = "prepare" /\ RowInv(row)
    BY <1>0, <2>1 DEF FetcherRow, Stages, RowInv
  <2>3. QED
    BY <2>1, <2>2, QuietMoveKeepsInv DEF Unstaged
<1>2. CASE Prepare(f) /\ ~Fail(f)
  <2> DEFINE row == [fetcher[f] EXCEPT !.stage = "redeem"]
  <2>1. /\ fetcher' = [fetcher EXCEPT ![f] = row] /\ fetcher[f].stage = "prepare"
        /\ staging' = staging + 1
        /\ UNCHANGED <<names, ever, dir, result, changes, edits, kills>>
    BY <1>2 DEF Prepare
  <2>2. row \in FetcherRow /\ row.stage = "redeem" /\ RowInv(row)
    BY <1>0, <2>1 DEF FetcherRow, Stages, RowInv
  <2>3. QED
    BY <2>1, <2>2, QuietMoveKeepsInv DEF Unstaged
<1>3. CASE Redeem(f) /\ ~Fail(f)
  <2> DEFINE drop == names[fetcher[f].code]
             row == [fetcher[f] EXCEPT !.stage = "download", !.drop = drop]
  <2>1. /\ fetcher' = [fetcher EXCEPT ![f] = row] /\ fetcher[f].stage = "redeem"
        /\ drop # None
        /\ UNCHANGED <<names, ever, dir, result, changes, edits, staging, kills>>
    BY <1>3 DEF Redeem
  <2>2. drop \in ever[fetcher[f].code] /\ drop \in Drops
    BY <1>0, <2>1 DEF FetchInv, CacheInv, TypeOK
  <2>3. row \in FetcherRow /\ row.stage = "download"
    BY <1>0, <2>2 DEF FetcherRow, Stages
  <2>4. row.drop = drop /\ row.code = fetcher[f].code /\ row.place = fetcher[f].place
    BY <1>0 DEF FetcherRow
  <2> HIDE DEF row
  <2>5. RowInv(row)
    BY <1>0, <2>1, <2>2, <2>3, <2>4 DEF RowInv
  <2>6. QED
    BY <2>1, <2>3, <2>5, QuietMoveKeepsInv DEF Unstaged
<1>4. CASE Download(f)
  <2> DEFINE row == [fetcher[f] EXCEPT !.stage = "extract"]
  <2>1. /\ fetcher' = [fetcher EXCEPT ![f] = row] /\ fetcher[f].stage = "download"
        /\ UNCHANGED <<names, ever, dir, result, changes, edits, staging, kills>>
    BY <1>4 DEF Download
  <2>2. row \in FetcherRow /\ row.stage = "extract" /\ RowInv(row)
    BY <1>0, <2>1 DEF FetcherRow, Stages, RowInv
  <2>3. QED
    BY <2>1, <2>2, QuietMoveKeepsInv DEF Unstaged
<1>5. CASE Extract(f)
  <2>0. /\ fetcher[f].stage = "extract"
        /\ UNCHANGED <<names, ever, dir, result, changes, edits, staging, kills>>
    BY <1>5 DEF Extract
  <2>1. CASE fetcher' = [fetcher EXCEPT ![f].files = "some"]
    <3> DEFINE row == [fetcher[f] EXCEPT !.files = "some"]
    <3>1. fetcher' = [fetcher EXCEPT ![f] = row]
      BY <2>1
    <3>2. row \in FetcherRow /\ row.stage = "extract" /\ RowInv(row)
      BY <1>0, <2>0 DEF FetcherRow, Amounts, RowInv
    <3>3. QED
      BY <2>0, <3>1, <3>2, QuietMoveKeepsInv DEF Unstaged
  <2>2. CASE fetcher' = [fetcher EXCEPT ![f].files = "all", ![f].stage = "mark"]
    <3> DEFINE row == [fetcher[f] EXCEPT !.files = "all", !.stage = "mark"]
    <3>1. fetcher' = [fetcher EXCEPT ![f] = row]
      BY <2>2
    <3>2. row \in FetcherRow /\ row.stage = "mark" /\ RowInv(row)
      BY <1>0, <2>0 DEF FetcherRow, Stages, Amounts, RowInv
    <3>3. QED
      BY <2>0, <3>1, <3>2, QuietMoveKeepsInv DEF Unstaged
  <2>3. QED
    BY <1>5, <2>1, <2>2 DEF Extract
<1>6. CASE Mark(f) /\ ~Fail(f)
  <2> DEFINE row == [fetcher[f] EXCEPT !.stage = "publish"]
  <2>1. /\ fetcher' = [fetcher EXCEPT ![f] = row] /\ fetcher[f].stage = "mark"
        /\ fetcher[f].drop \notin Clashing
        /\ UNCHANGED <<names, ever, dir, result, changes, edits, staging, kills>>
    BY <1>6 DEF Mark
  <2>2. row \in FetcherRow /\ row.stage = "publish" /\ RowInv(row)
    BY <1>0, <2>1 DEF FetcherRow, Stages, RowInv
  <2>3. QED
    BY <2>1, <2>2, QuietMoveKeepsInv DEF Unstaged
<1>7. CASE (Prepare(f) \/ Redeem(f) \/ Mark(f)) /\ Fail(f)
  <2>1. UNCHANGED <<names, ever, dir, result, changes, kills, edits>>
    BY <1>7 DEF Prepare, Redeem, Mark
  <2>2. QED
    BY <1>7, <2>1, FailKeepsInv
<1>8. QED
  BY <1>1, <1>2, <1>3, <1>4, <1>5, <1>6, <1>7

LEMMA EndKeepsInv ==
    ASSUME FetchInv, NEW f \in Fetchers,
           PublishRefused(f) \/ Break(f) \/ Kill(f)
    PROVE  FetchInv'
<1>1. CASE PublishRefused(f) \/ Break(f)
  BY <1>1, FailKeepsInv DEF PublishRefused, Break
<1>2. CASE Kill(f)
  <2>1. Idle \in FetcherRow /\ Idle.stage = "idle" /\ RowInv(Idle)
    BY DEF Idle, FetcherRow, Stages, Amounts, RowInv
  <2>2. /\ fetcher[f].stage \notin Unstaged
        /\ fetcher' = [fetcher EXCEPT ![f] = Idle]
        /\ kills < MaxKills /\ kills' = kills + 1 /\ staging' = staging
        /\ UNCHANGED <<names, ever, dir, result, changes, edits>>
    BY <1>2 DEF Kill, Staged, Unstaged
  <2>3. QED
    BY <2>1, <2>2, QuietMoveKeepsInv DEF Unstaged
<1>3. QED
  BY <1>1, <1>2

-----------------------------------------------------------------------------
\* Nobody relies on a place without a marker.
LEMMA UnmarkedIsFree ==
    ASSUME FetchInv, NEW p \in Places, dir[p].kind # "fetched", NEW f \in Fetchers
    PROVE  /\ fetcher[f].stage = "finish" => fetcher[f].place # p
           /\ result[f] # NoResult => result[f].place # p
<1>1. \A d : Fetched(d, "all").kind = "fetched"
  BY DEF Fetched
<1>2. fetcher[f].stage = "finish" => dir[fetcher[f].place].kind = "fetched"
  BY <1>1, FactsOf DEF RowInv
<1>3. result[f] # NoResult => dir[result[f].place].kind = "fetched"
  BY <1>1, FactsOf DEF ReportInv
<1>4. QED
  BY <1>2, <1>3

LEMMA PublishKeepsInv ==
    ASSUME FetchInv, NEW f \in Fetchers, Publish(f)
    PROVE  FetchInv'
<1> USE DEF FetchInv
<1> DEFINE place == fetcher[f].place
           drop == fetcher[f].drop
           row == [fetcher[f] EXCEPT !.stage = "finish"]
           whole == Fetched(drop, "all")
<1>1. /\ fetcher[f].stage = "publish" /\ dir[place].kind # "fetched"
      /\ fetcher' = [fetcher EXCEPT ![f] = row]
      /\ UNCHANGED <<names, ever, staging, result, changes, kills, edits>>
  BY DEF Publish, Renamable
<1>2. /\ fetcher[f] \in FetcherRow /\ fetcher[f].code \in Codes /\ place \in Places
      /\ place \in Codes => place = fetcher[f].code
      /\ drop \in ever[fetcher[f].code] /\ drop \notin Clashing
      /\ fetcher[f].files = "all"
  BY <1>1, FactsOf DEF RowInv
<1>3. drop \in Drops
  BY <1>2 DEF TypeOK
<1>4. dir' = [dir EXCEPT ![place] = whole]
  BY <1>2 DEF Publish
<1>5. /\ row \in FetcherRow /\ row.stage = "finish" /\ row.code = fetcher[f].code
      /\ row.place = place /\ row.drop = drop /\ row.files = "all"
  BY <1>2 DEF FetcherRow, Stages
<1>6. whole \in [kind : {"absent", "empty", "other", "fetched"},
                 drop : Drops \cup {None}, files : Amounts]
      /\ whole.kind = "fetched" /\ whole.drop = drop /\ whole.files = "all"
  BY <1>3 DEF Fetched, Amounts
<1> HIDE DEF row, whole
<1>7. /\ fetcher' \in [Fetchers -> FetcherRow] /\ fetcher'[f] = row
      /\ \A g \in Fetchers : g # f => fetcher'[g] = fetcher[g]
  BY <1>1, <1>5, OneMoves
<1>8. dir'[place] = whole /\ \A p \in Places : p # place => dir'[p] = dir[p]
  BY <1>2, <1>4 DEF TypeOK
<1>9. TypeOK'
  BY <1>1, <1>2, <1>4, <1>6, <1>7 DEF TypeOK, FetcherRow
<1>10. StagingIsAccountedFor' /\ IsFiniteSet(Staged')
  BY <1>1, <1>5, MovesAreAccountedFor DEF Unstaged
<1>11. CacheInv' /\ MarkedPlacesAreWhole'
  <2>1. CacheInv'
    BY <1>1, <1>2, <1>6, <1>8 DEF CacheInv, Places
  <2>2. MarkedPlacesAreWhole'
    BY <1>2, <1>3, <1>6, <1>8 DEF MarkedPlacesAreWhole
  <2>3. QED
    BY <2>1, <2>2
<1>12. RowInv(fetcher[f])'
  <2>1. whole = Fetched(row.drop, "all")
    BY <1>5 DEF whole
  <2>2. QED
    BY <1>1, <1>2, <1>5, <1>7, <1>8, <2>1 DEF RowInv
<1>13. ASSUME NEW g \in Fetchers, g # f
       PROVE  RowInv(fetcher[g])'
  <2>1. fetcher'[g] = fetcher[g] /\ RowInv(fetcher[g])
    BY <1>7, <1>13
  <2>2. fetcher[g].stage = "finish" => dir'[fetcher[g].place] = dir[fetcher[g].place]
    BY <1>1, <1>2, <1>8, <1>13, FactsOf, UnmarkedIsFree
  <2>3. QED
    BY <1>1, <2>1, <2>2 DEF RowInv
<1>14. ASSUME NEW g \in Fetchers
       PROVE  ReportInv(result[g])'
  <2>1. result'[g] = result[g] /\ ReportInv(result[g])
    BY <1>1
  <2>2. result[g] # NoResult => dir'[result[g].place] = dir[result[g].place]
    BY <1>1, <1>2, <1>8, <2>1, UnmarkedIsFree DEF ReportInv
  <2>3. QED
    BY <1>1, <2>1, <2>2 DEF ReportInv
<1>15. QED
  BY <1>9, <1>10, <1>11, <1>12, <1>13, <1>14

\* The server and the users.
LEMMA RepointKeepsInv ==
    ASSUME FetchInv, NEW c \in Codes, NEW d \in Drops \cup {None}, Repoint(c, d)
    PROVE  FetchInv'
<1> USE DEF FetchInv
<1>1. /\ UNCHANGED <<dir, fetcher, staging, result, kills, edits>>
      /\ changes < MaxChanges /\ changes' = changes + 1
      /\ names' = [names EXCEPT ![c] = d]
      /\ ever' = [ever EXCEPT ![c] = @ \cup ({d} \ {None})]
  BY DEF Repoint
<1>2. /\ \A e \in Codes : ever[e] \subseteq ever'[e]
      /\ names'[c] = d /\ (d # None => d \in ever'[c])
      /\ \A e \in Codes : e # c => names'[e] = names[e]
  BY <1>1 DEF TypeOK
<1>3. TypeOK'
  <2>1. ever' \in [Codes -> SUBSET Drops] /\ names' \in [Codes -> Drops \cup {None}]
    BY <1>1 DEF TypeOK
  <2>2. changes' \in 0..MaxChanges
    BY <1>1, FetchAssumption DEF TypeOK
  <2>3. QED
    BY <1>1, <2>1, <2>2 DEF TypeOK
<1>4. ASSUME NEW f \in Fetchers
      PROVE  RowInv(fetcher[f])' /\ ReportInv(result[f])'
  <2>1. RowInv(fetcher[f])'
    <3>1. fetcher[f].stage # "idle" => fetcher[f].code \in Codes
      BY FactsOf
    <3>2. QED
      BY <1>1, <1>2, <3>1 DEF RowInv
  <2>2. ReportInv(result[f])'
    BY <1>1, <1>2 DEF ReportInv
  <2>3. QED
    BY <2>1, <2>2
<1>5. CacheInv'
  BY <1>1, <1>2 DEF CacheInv
<1>6. MarkedPlacesAreWhole' /\ StagingIsAccountedFor' /\ IsFiniteSet(Staged')
  BY <1>1 DEF MarkedPlacesAreWhole, StagingIsAccountedFor, Staged
<1>7. QED
  BY <1>3, <1>4, <1>5, <1>6

LEMMA MakeDirectoryKeepsInv ==
    ASSUME FetchInv, NEW p \in Outputs, NEW kind \in {"empty", "other"},
           MakeDirectory(p, kind)
    PROVE  FetchInv'
<1> USE DEF FetchInv
<1>1. /\ UNCHANGED <<names, ever, fetcher, staging, result, changes, kills>>
      /\ edits < MaxEdits /\ edits' = edits + 1
      /\ dir[p].kind = "absent" /\ dir' = [dir EXCEPT ![p] = Directory(kind)]
      /\ p \in Places
  BY DEF MakeDirectory, Places
<1>2. /\ dir'[p] = Directory(kind) /\ Directory(kind).kind = kind
      /\ \A q \in Places : q # p => dir'[q] = dir[q]
  BY <1>1 DEF TypeOK, Directory
<1>3. TypeOK'
  <2>1. Directory(kind) \in [kind : {"absent", "empty", "other", "fetched"},
                             drop : Drops \cup {None}, files : Amounts]
    BY DEF Directory, Amounts
  <2>2. edits' \in 0..MaxEdits
    BY <1>1, FetchAssumption DEF TypeOK
  <2>3. QED
    BY <1>1, <2>1, <2>2 DEF TypeOK
<1>4. ASSUME NEW f \in Fetchers
      PROVE  RowInv(fetcher[f])' /\ ReportInv(result[f])'
  <2>1. /\ fetcher[f].stage = "finish" => dir'[fetcher[f].place] = dir[fetcher[f].place]
        /\ result[f] # NoResult => dir'[result[f].place] = dir[result[f].place]
    BY <1>1, <1>2, FactsOf, UnmarkedIsFree DEF ReportInv
  <2>2. RowInv(fetcher[f])'
    BY <1>1, <2>1 DEF RowInv
  <2>3. ReportInv(result[f])'
    BY <1>1, <2>1 DEF ReportInv
  <2>4. QED
    BY <2>2, <2>3
<1>5. CacheInv' /\ MarkedPlacesAreWhole'
  BY <1>1, <1>2 DEF CacheInv, MarkedPlacesAreWhole, Places
<1>6. StagingIsAccountedFor' /\ IsFiniteSet(Staged')
  BY <1>1 DEF StagingIsAccountedFor, Staged
<1>7. QED
  BY <1>3, <1>4, <1>5, <1>6

LEMMA RemoveKeepsInv ==
    ASSUME FetchInv, NEW p \in Places, Remove(p)
    PROVE  FetchInv'
<1> USE DEF FetchInv
<1>1. /\ UNCHANGED <<names, ever, fetcher, staging, changes, kills>>
      /\ edits < MaxEdits /\ edits' = edits + 1
      /\ \A f \in Fetchers : fetcher[f].stage = "finish" => fetcher[f].place # p
      /\ dir' = [dir EXCEPT ![p] = Absent]
      /\ result' = [f \in Fetchers |->
                      IF result[f].place = p THEN NoResult ELSE result[f]]
  BY DEF Remove
<1>2. /\ dir'[p] = Absent /\ Absent.kind = "absent"
      /\ \A q \in Places : q # p => dir'[q] = dir[q]
  BY <1>1 DEF TypeOK, Absent
<1>3. TypeOK'
  <2>1. Absent \in [kind : {"absent", "empty", "other", "fetched"},
                    drop : Drops \cup {None}, files : Amounts]
    BY DEF Absent, Amounts
  <2>2. edits' \in 0..MaxEdits
    BY <1>1, FetchAssumption DEF TypeOK
  <2>3. NoResult \in ReportRow /\ result \in [Fetchers -> ReportRow]
    BY DEF NoResult, ReportRow, TypeOK
  <2>4. result' \in [Fetchers -> ReportRow]
    BY <1>1, <2>3
  <2>5. QED
    BY <1>1, <2>1, <2>2, <2>4 DEF TypeOK, ReportRow
<1>4. ASSUME NEW f \in Fetchers
      PROVE  RowInv(fetcher[f])' /\ ReportInv(result[f])'
  <2>1. fetcher[f].stage = "finish" => dir'[fetcher[f].place] = dir[fetcher[f].place]
    BY <1>1, <1>2, FactsOf
  <2>2. RowInv(fetcher[f])'
    BY <1>1, <2>1 DEF RowInv
  <2>3. CASE result[f].place = p
    BY <1>1, <2>2, <2>3 DEF ReportInv
  <2>4. CASE result[f].place # p
    <3>1. result'[f] = result[f] /\ ReportInv(result[f])
      BY <1>1, <2>4
    <3>2. result[f] # NoResult => dir'[result[f].place] = dir[result[f].place]
      BY <1>2, <2>4, <3>1 DEF ReportInv
    <3>3. QED
      BY <1>1, <2>2, <3>1, <3>2 DEF ReportInv
  <2>5. QED
    BY <2>3, <2>4
<1>5. CacheInv' /\ MarkedPlacesAreWhole'
  BY <1>1, <1>2 DEF CacheInv, MarkedPlacesAreWhole, Places
<1>6. StagingIsAccountedFor' /\ IsFiniteSet(Staged')
  BY <1>1 DEF StagingIsAccountedFor, Staged
<1>7. QED
  BY <1>3, <1>4, <1>5, <1>6

-----------------------------------------------------------------------------
LEMMA FetchInvInit == Init => FetchInv
<1> SUFFICES ASSUME Init PROVE FetchInv
  OBVIOUS
<1> USE DEF Init
<1>1. TypeOK
  <2>1. Absent \in [kind : {"absent", "empty", "other", "fetched"},
                    drop : Drops \cup {None}, files : Amounts]
    BY DEF Absent, Amounts
  <2>2. Idle \in FetcherRow /\ NoResult \in ReportRow
    BY DEF Idle, FetcherRow, NoResult, ReportRow, Stages, Amounts
  <2>3. QED
    BY <2>1, <2>2, FetchAssumption DEF TypeOK, FetcherRow, ReportRow
<1>2. \A f \in Fetchers : RowInv(fetcher[f]) /\ ReportInv(result[f])
  BY DEF RowInv, ReportInv, Idle
<1>3. CacheInv /\ MarkedPlacesAreWhole
  BY DEF CacheInv, MarkedPlacesAreWhole, Absent, Places
<1>4. Staged = {}
  BY DEF Staged, Idle
<1>5. StagingIsAccountedFor /\ IsFiniteSet(Staged)
  BY <1>4, FS_EmptySet DEF StagingIsAccountedFor
<1>6. QED
  BY <1>1, <1>2, <1>3, <1>5 DEF FetchInv

LEMMA FetchInvStep == FetchInv /\ [Next]_vars => FetchInv'
<1> SUFFICES ASSUME FetchInv, [Next]_vars PROVE FetchInv'
  OBVIOUS
<1>1. ASSUME NEW f \in Fetchers, Step(f)
      PROVE  FetchInv'
  BY <1>1, StartKeepsInv, ProbeHitKeepsInv, WorkKeepsInv, PublishKeepsInv,
     FinishKeepsInv, EndKeepsInv DEF Step
<1>2. CASE UNCHANGED vars
  BY <1>2
     DEF vars, FetchInv, TypeOK, RowInv, ReportInv, CacheInv, MarkedPlacesAreWhole,
         StagingIsAccountedFor, Staged
<1>3. QED
  BY <1>1, <1>2, RepointKeepsInv, MakeDirectoryKeepsInv, RemoveKeepsInv DEF Next

(***************************************************************************)
(* The places, the staging directories and what each process knows agree   *)
(* in every state, whatever processes fetch, fail or are killed.           *)
(***************************************************************************)
THEOREM FetchInvariance == Spec => []FetchInv
<1>1. Init => FetchInv
  BY FetchInvInit
<1>2. FetchInv /\ [Next]_vars => FetchInv'
  BY FetchInvStep
<1>3. QED
  BY <1>1, <1>2, PTL DEF Spec

(***************************************************************************)
(* However many processes fetch to one place, fail or are killed on the     *)
(* way, the marker fetch.rs writes last stands for a whole drop.            *)
(***************************************************************************)
THEOREM MarkersAreTrue == Spec => []MarkedPlacesAreWhole
BY FetchInvariance, PTL DEF FetchInv

(***************************************************************************)
(* Every end of a fetch but a kill takes its staging directory with it.     *)
(***************************************************************************)
THEOREM StagingIsCleared == Spec => []StagingIsAccountedFor
BY FetchInvariance, PTL DEF FetchInv

(***************************************************************************)
(* The rename in fetch.rs replaces nothing that was reported: only an empty *)
(* directory or nothing at all makes room for a payload.                    *)
(***************************************************************************)
THEOREM ReportsStayTrue == Spec => []ResultsStayInPlace
<1>1. FetchInv => ResultsStayInPlace
  BY DEF FetchInv, ReportInv, ResultsStayInPlace
<1>2. QED
  BY <1>1, FetchInvariance, PTL

(***************************************************************************)
(* The key of the cache is enough: what lies under a code came from a drop  *)
(* the code has named, whatever the server has done to the code since.      *)
(***************************************************************************)
THEOREM CacheIsOfTheCode == Spec => []CacheReportsWhatTheCodeNamed
<1>1. FetchInv => CacheReportsWhatTheCodeNamed
  <2> SUFFICES ASSUME FetchInv, NEW f \in Fetchers, result[f].place \in Codes
               PROVE  result[f].drop \in ever[result[f].code]
    BY DEF CacheReportsWhatTheCodeNamed
  <2>1. result[f] # NoResult
    BY NoneIsNowhere DEF NoResult
  <2>2. QED
    BY <2>1 DEF FetchInv, ReportInv
<1>2. QED
  BY <1>1, FetchInvariance, PTL

=============================================================================
