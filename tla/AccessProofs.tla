---------------------------- MODULE AccessProofs ----------------------------
(***************************************************************************)
(* Who gets in: the bounds of FailureBudget, and the invariants of the two  *)
(* modules that spend that budget, Console and DropRegistry, for every      *)
(* value of the constants.                                                  *)
(***************************************************************************)
EXTENDS DropRegistry, Console, FiniteSetTheorems, TLAPS

\* The attempts in flight whose row would fall into the window ending at t:
\* those past the global count, and those of src past the source count.
InFlight(t) ==
    {h \in Handlers : gate[h] # None /\ gate[h].at \in (t - Window)..t}

InFlightFrom(t, src) ==
    {h \in InFlight(t) : gate[h].stage = "checked" /\ gate[h].src = src}

\* Only rows that no handler can count any more are pruned.
PrunedAreOld ==
    \A r \in refusals \ failures : r.at < clock - FailureRetention

\* GlobalBound is not inductive: it must also count the attempts that have
\* been let through and have yet to add their row.
GlobalPotential ==
    \A t \in Int :
        Cardinality(During(refusals, t)) + Cardinality(InFlight(t))
            <= GlobalLimit + Cardinality(Handlers)

SourcePotential ==
    \A t \in Int, src \in Sources :
        Cardinality(Of(During(refusals, t), src))
          + Cardinality(InFlightFrom(t, src))
            <= SourceLimit + Cardinality(Handlers)

BudgetInv ==
    BudgetTypeOK /\ PrunedAreOld /\ GlobalPotential /\ SourcePotential

-----------------------------------------------------------------------------
(***************************************************************************)
(* A subset of a finite set is finite and no larger.                        *)
(***************************************************************************)
LEMMA SubsetSize ==
    ASSUME NEW S, NEW T, IsFiniteSet(T), S \subseteq T
    PROVE  /\ IsFiniteSet(S)
           /\ Cardinality(S) \in Nat /\ Cardinality(T) \in Nat
           /\ Cardinality(S) <= Cardinality(T)
BY FS_Subset, FS_CardinalityType

(***************************************************************************)
(* One more element is at most one more.                                    *)
(***************************************************************************)
LEMMA OneMore ==
    ASSUME NEW S, NEW T, NEW x, IsFiniteSet(S), T \subseteq S \cup {x}
    PROVE  /\ IsFiniteSet(T)
           /\ Cardinality(S) \in Nat /\ Cardinality(T) \in Nat
           /\ Cardinality(T) <= Cardinality(S) + 1
<1>1. Cardinality(S) \in Nat
  BY FS_CardinalityType
<1>2. /\ IsFiniteSet(S \cup {x})
      /\ Cardinality(S \cup {x}) =
            IF x \in S THEN Cardinality(S) ELSE Cardinality(S) + 1
  BY FS_AddElement, Zenon
<1>3. /\ IsFiniteSet(T)
      /\ Cardinality(T) \in Nat
      /\ Cardinality(T) <= Cardinality(S \cup {x})
  BY <1>2, SubsetSize
<1>4. QED
  BY <1>1, <1>2, <1>3

(***************************************************************************)
(* The new row is a row, and of the time and source it is made for.         *)
(***************************************************************************)
LEMMA NewFailureType ==
    ASSUME IsFiniteSet(refusals), NEW now \in Int, NEW src \in Sources
    PROVE  /\ NewFailure(now, src) \in Failure
           /\ NewFailure(now, src).at = now
           /\ NewFailure(now, src).src = src
<1> DEFINE same == {r \in refusals : r.at = now /\ r.src = src}
<1>1. Cardinality(same) \in Nat
  BY SubsetSize
<1>2. QED
  BY <1>1 DEF NewFailure, Failure

(***************************************************************************)
(* Pruning drops nothing that a handler with a lagging clock may count, so  *)
(* the window it counts covers the whole window of refusals that a row      *)
(* added at that time would join (CountsAreExact, and what is used of it).  *)
(***************************************************************************)
LEMMA WindowIsCounted ==
    ASSUME BudgetTypeOK, PrunedAreOld, NEW now \in ReadClock
    PROVE  /\ Since(failures, now) = Since(refusals, now)
           /\ Since(Unpruned(failures, now), now) = Since(refusals, now)
           /\ IsFiniteSet(Since(refusals, now))
           /\ \A t \in Int : now \in (t - Window)..t =>
                 During(refusals, t) \subseteq Since(refusals, now)
<1> USE BudgetAssumption DEF BudgetTypeOK, Failure, ReadClock
<1>1. \A r \in refusals : r.at \in Int /\ (r.at >= now - Window => r \in failures)
  BY DEF PrunedAreOld
<1>2. Since(failures, now) = Since(refusals, now)
  BY <1>1 DEF Since
<1>3. Since(Unpruned(failures, now), now) = Since(refusals, now)
  BY <1>1 DEF Since, Unpruned
<1>4. IsFiniteSet(Since(refusals, now))
  BY SubsetSize DEF Since
<1>5. \A t \in Int : now \in (t - Window)..t =>
         During(refusals, t) \subseteq Since(refusals, now)
  BY <1>1 DEF Since, During
<1>6. QED
  BY <1>2, <1>3, <1>4, <1>5

(***************************************************************************)
(* Time passing and pruning at a reading of the clock keep PrunedAreOld.    *)
(***************************************************************************)
LEMMA PruningIsSafe ==
    ASSUME BudgetTypeOK, PrunedAreOld, NEW now \in ReadClock
    PROVE  /\ Unpruned(failures, now) \subseteq failures
           /\ \A r \in refusals \ Unpruned(failures, now) :
                 r.at < clock - FailureRetention
BY BudgetAssumption DEF BudgetTypeOK, Failure, ReadClock, PrunedAreOld, Unpruned

-----------------------------------------------------------------------------
(***************************************************************************)
(* A row joins at most the windows around its time.                         *)
(***************************************************************************)
LEMMA ChargedWindow ==
    ASSUME BudgetTypeOK, NEW now \in Int, NEW src \in Sources, NEW rows,
           Charge(rows, now, src), NEW t \in Int
    PROVE  /\ now \notin (t - Window)..t =>
                 During(refusals, t)' = During(refusals, t)
           /\ During(refusals, t)'
                 \subseteq During(refusals, t) \cup {NewFailure(now, src)}
           /\ \A s \in Sources :
                 /\ Of(During(refusals, t), s)'
                      \subseteq Of(During(refusals, t), s) \cup {NewFailure(now, src)}
                 /\ s # src \/ now \notin (t - Window)..t =>
                      Of(During(refusals, t), s)' = Of(During(refusals, t), s)
           /\ IsFiniteSet(During(refusals, t))
           /\ \A s \in Sources : IsFiniteSet(Of(During(refusals, t), s))
<1>1. /\ NewFailure(now, src).at = now
      /\ NewFailure(now, src).src = src
  BY NewFailureType DEF BudgetTypeOK
<1>2. refusals' = refusals \cup {NewFailure(now, src)}
  BY DEF Charge
<1>3. QED
  BY <1>1, <1>2, SubsetSize DEF During, Of, BudgetTypeOK

(***************************************************************************)
(* What the potentials say of windows in which nothing changes, and of the  *)
(* attempts in flight.                                                      *)
(***************************************************************************)
LEMMA AttemptsAreFew ==
    ASSUME NEW S, S \subseteq Handlers
    PROVE  /\ IsFiniteSet(S)
           /\ Cardinality(S) \in Nat /\ Cardinality(Handlers) \in Nat
           /\ Cardinality(S) <= Cardinality(Handlers)
BY SubsetSize, BudgetAssumption

LEMMA WindowsAreFinite ==
    ASSUME BudgetTypeOK, NEW t \in Int
    PROVE  /\ IsFiniteSet(During(refusals, t))
           /\ Cardinality(During(refusals, t)) \in Nat
           /\ \A src \in Sources :
                 /\ IsFiniteSet(Of(During(refusals, t), src))
                 /\ Cardinality(Of(During(refusals, t), src)) \in Nat
BY SubsetSize DEF During, Of, BudgetTypeOK

(***************************************************************************)
(* A handler that found room, globally or for its source, at a (lagging)    *)
(* time within a window, found room in that window.                         *)
(***************************************************************************)
LEMMA RoomInWindow ==
    ASSUME BudgetTypeOK, PrunedAreOld, NEW now \in ReadClock,
           NEW t \in Int, now \in (t - Window)..t, NEW src \in Sources,
           NEW rows, Since(rows, now) = Since(refusals, now)
    PROVE  /\ ~GlobalFull(rows, now) =>
                 Cardinality(During(refusals, t)) + 1 <= GlobalLimit
           /\ ~SourceFull(rows, now, src) =>
                 Cardinality(Of(During(refusals, t), src)) + 1 <= SourceLimit
<1> DEFINE counted == Since(refusals, now)
<1>1. /\ IsFiniteSet(counted)
      /\ During(refusals, t) \subseteq counted
  BY WindowIsCounted
<1>2. /\ Cardinality(During(refusals, t)) \in Nat
      /\ Cardinality(counted) \in Nat
      /\ Cardinality(During(refusals, t)) <= Cardinality(counted)
  BY <1>1, SubsetSize
<1>3. /\ IsFiniteSet(Of(counted, src))
      /\ Of(During(refusals, t), src) \subseteq Of(counted, src)
  BY <1>1, SubsetSize DEF Of
<1>4. /\ Cardinality(Of(During(refusals, t), src)) \in Nat
      /\ Cardinality(Of(counted, src)) \in Nat
      /\ Cardinality(Of(During(refusals, t), src)) <= Cardinality(Of(counted, src))
  BY <1>3, SubsetSize
<1>5. QED
  BY <1>2, <1>4, BudgetAssumption DEF GlobalFull, SourceFull

-----------------------------------------------------------------------------
(***************************************************************************)
(* A step that adds no refusal and lets no attempt through keeps both        *)
(* potentials.                                                              *)
(***************************************************************************)
LEMMA NoNewRow ==
    ASSUME BudgetInv, refusals' = refusals,
           \A t \in Int : InFlight(t)' \subseteq InFlight(t),
           \A t \in Int, src \in Sources :
              InFlightFrom(t, src)' \subseteq InFlightFrom(t, src)
    PROVE  GlobalPotential' /\ SourcePotential'
<1> USE DEF BudgetInv
<1>1. ASSUME NEW t \in Int
      PROVE  /\ During(refusals, t)' = During(refusals, t)
             /\ InFlight(t) \subseteq Handlers
             /\ \A src \in Sources :
                   /\ Of(During(refusals, t), src)' = Of(During(refusals, t), src)
                   /\ InFlightFrom(t, src) \subseteq Handlers
  BY DEF During, Of, InFlight, InFlightFrom
<1>2. GlobalPotential'
  <2> SUFFICES ASSUME NEW t \in Int
               PROVE  Cardinality(During(refusals, t)')
                        + Cardinality(InFlight(t)')
                          <= GlobalLimit + Cardinality(Handlers)
    BY DEF GlobalPotential
  <2>1. IsFiniteSet(InFlight(t))
    BY <1>1, AttemptsAreFew
  <2>2. /\ Cardinality(InFlight(t)') \in Nat
        /\ Cardinality(InFlight(t)) \in Nat
        /\ Cardinality(InFlight(t)') <= Cardinality(InFlight(t))
    BY <2>1, SubsetSize
  <2>3. Cardinality(During(refusals, t)') = Cardinality(During(refusals, t))
    BY <1>1
  <2>4. QED
    BY <2>2, <2>3, WindowsAreFinite, AttemptsAreFew, BudgetAssumption
       DEF GlobalPotential
<1>3. SourcePotential'
  <2> SUFFICES ASSUME NEW t \in Int, NEW src \in Sources
               PROVE  Cardinality(Of(During(refusals, t), src)')
                        + Cardinality(InFlightFrom(t, src)')
                          <= SourceLimit + Cardinality(Handlers)
    BY DEF SourcePotential
  <2>1. IsFiniteSet(InFlightFrom(t, src))
    BY <1>1, AttemptsAreFew
  <2>2. /\ Cardinality(InFlightFrom(t, src)') \in Nat
        /\ Cardinality(InFlightFrom(t, src)) \in Nat
        /\ Cardinality(InFlightFrom(t, src)') <= Cardinality(InFlightFrom(t, src))
    BY <2>1, SubsetSize
  <2>3. Cardinality(Of(During(refusals, t), src)')
          = Cardinality(Of(During(refusals, t), src))
    BY <1>1
  <2>4. QED
    BY <2>2, <2>3, WindowsAreFinite, AttemptsAreFew, BudgetAssumption
       DEF SourcePotential
<1>4. QED
  BY <1>2, <1>3

(***************************************************************************)
(* A redemption adds its row in the transaction that found room for it.     *)
(***************************************************************************)
LEMMA RefusalKeepsPotential ==
    ASSUME BudgetInv, NEW now \in ReadClock, NEW src \in Sources,
           RedeemRefused(now, src)
    PROVE  GlobalPotential' /\ SourcePotential'
<1> USE DEF BudgetInv
<1> DEFINE rows == Unpruned(failures, now)
<1>1. now \in Int
  BY BudgetAssumption DEF ReadClock, BudgetTypeOK
<1>2. /\ Charge(rows, now, src)
      /\ ~GlobalFull(rows, now) /\ ~SourceFull(rows, now, src)
      /\ gate' = gate
  BY DEF RedeemRefused, OverBudget
<1>3. Since(rows, now) = Since(refusals, now)
  BY WindowIsCounted
<1>4. ASSUME NEW t \in Int
      PROVE  /\ InFlight(t)' = InFlight(t)
             /\ InFlight(t) \subseteq Handlers
             /\ \A s \in Sources :
                   /\ InFlightFrom(t, s)' = InFlightFrom(t, s)
                   /\ InFlightFrom(t, s) \subseteq Handlers
  BY <1>2 DEF InFlight, InFlightFrom
<1>5. GlobalPotential'
  <2> SUFFICES ASSUME NEW t \in Int
               PROVE  Cardinality(During(refusals, t)')
                        + Cardinality(InFlight(t)')
                          <= GlobalLimit + Cardinality(Handlers)
    BY DEF GlobalPotential
  <2>1. CASE now \notin (t - Window)..t
    <3>1. During(refusals, t)' = During(refusals, t)
      BY <1>1, <1>2, <2>1, ChargedWindow
    <3>2. QED
      BY <3>1, <1>4 DEF GlobalPotential
  <2>2. CASE now \in (t - Window)..t
    <3>1. /\ Cardinality(During(refusals, t)) \in Nat
          /\ Cardinality(During(refusals, t)') \in Nat
          /\ Cardinality(During(refusals, t)') <= Cardinality(During(refusals, t)) + 1
      BY <1>1, <1>2, ChargedWindow, OneMore
    <3>2. Cardinality(During(refusals, t)) + 1 <= GlobalLimit
      BY <1>2, <1>3, <2>2, RoomInWindow
    <3>3. /\ Cardinality(InFlight(t)') \in Nat /\ Cardinality(Handlers) \in Nat
          /\ Cardinality(InFlight(t)') <= Cardinality(Handlers)
      BY <1>4, AttemptsAreFew
    <3>4. QED
      BY <3>1, <3>2, <3>3, BudgetAssumption
  <2>3. QED
    BY <2>1, <2>2
<1>6. SourcePotential'
  <2> SUFFICES ASSUME NEW t \in Int, NEW s \in Sources
               PROVE  Cardinality(Of(During(refusals, t), s)')
                        + Cardinality(InFlightFrom(t, s)')
                          <= SourceLimit + Cardinality(Handlers)
    BY DEF SourcePotential
  <2>1. CASE s # src \/ now \notin (t - Window)..t
    <3>1. Of(During(refusals, t), s)' = Of(During(refusals, t), s)
      BY <1>1, <1>2, <2>1, ChargedWindow
    <3>2. QED
      BY <3>1, <1>4 DEF SourcePotential
  <2>2. CASE s = src /\ now \in (t - Window)..t
    <3>1. /\ Cardinality(Of(During(refusals, t), s)) \in Nat
          /\ Cardinality(Of(During(refusals, t), s)') \in Nat
          /\ Cardinality(Of(During(refusals, t), s)')
               <= Cardinality(Of(During(refusals, t), s)) + 1
      <4>1. /\ IsFiniteSet(Of(During(refusals, t), s))
            /\ Of(During(refusals, t), s)'
                 \subseteq Of(During(refusals, t), s) \cup {NewFailure(now, src)}
        BY <1>1, <1>2, ChargedWindow
      <4> QED BY <4>1, OneMore
    <3>2. Cardinality(Of(During(refusals, t), s)) + 1 <= SourceLimit
      BY <1>2, <1>3, <2>2, RoomInWindow
    <3>3. /\ Cardinality(InFlightFrom(t, s)') \in Nat
          /\ Cardinality(Handlers) \in Nat
          /\ Cardinality(InFlightFrom(t, s)') <= Cardinality(Handlers)
      BY <1>4, AttemptsAreFew
    <3>4. QED
      BY <3>1, <3>2, <3>3, BudgetAssumption
  <2>3. QED
    BY <2>1, <2>2
<1>7. QED
  BY <1>5, <1>6

(***************************************************************************)
(* The gate lets an attempt through only while there is room, each count    *)
(* for its own potential.                                                   *)
(***************************************************************************)
LEMMA GlobalCountKeepsPotential ==
    ASSUME BudgetInv, NEW h \in Handlers, NEW now \in ReadClock,
           NEW src \in Sources, GateCountGlobal(h, now, src)
    PROVE  GlobalPotential' /\ SourcePotential'
<1> USE DEF BudgetInv
<1>1. CASE GlobalFull(failures', now)
  <2>1. gate' = gate /\ refusals' = refusals
    BY <1>1 DEF GateCountGlobal
  <2>2. /\ \A t \in Int : InFlight(t)' \subseteq InFlight(t)
        /\ \A t \in Int, s \in Sources : InFlightFrom(t, s)' \subseteq InFlightFrom(t, s)
    BY <2>1 DEF InFlight, InFlightFrom
  <2>3. QED
    BY <2>1, <2>2, NoNewRow
<1>2. CASE ~GlobalFull(failures', now)
  <2>1. /\ failures' = Unpruned(failures, now)
        /\ refusals' = refusals
        /\ gate' = [gate EXCEPT ![h] =
                       [stage |-> "counted", src |-> src, at |-> now]]
        /\ gate \in [Handlers -> Attempt \cup {None}]
    BY <1>2 DEF GateCountGlobal, BudgetTypeOK
  <2>2. ASSUME NEW t \in Int
        PROVE  /\ During(refusals, t)' = During(refusals, t)
               /\ InFlight(t) \subseteq Handlers
               /\ InFlight(t)' \subseteq Handlers
               /\ now \notin (t - Window)..t => InFlight(t)' \subseteq InFlight(t)
               /\ \A s \in Sources :
                     /\ Of(During(refusals, t), s)' = Of(During(refusals, t), s)
                     /\ InFlightFrom(t, s) \subseteq Handlers
                     /\ InFlightFrom(t, s)' \subseteq InFlightFrom(t, s)
    BY <2>1 DEF InFlight, InFlightFrom, During, Of
  <2>3. GlobalPotential'
    <3> SUFFICES ASSUME NEW t \in Int
                 PROVE  Cardinality(During(refusals, t)')
                          + Cardinality(InFlight(t)')
                            <= GlobalLimit + Cardinality(Handlers)
      BY DEF GlobalPotential
    <3>1. /\ Cardinality(InFlight(t)') \in Nat /\ Cardinality(InFlight(t)) \in Nat
          /\ Cardinality(Handlers) \in Nat
          /\ Cardinality(InFlight(t)') <= Cardinality(Handlers)
          /\ IsFiniteSet(InFlight(t))
      BY <2>2, AttemptsAreFew
    <3>2. /\ Cardinality(During(refusals, t)') = Cardinality(During(refusals, t))
          /\ Cardinality(During(refusals, t)) \in Nat
      BY <2>2, WindowsAreFinite
    <3>3. CASE now \in (t - Window)..t
      <4>1. Since(failures', now) = Since(refusals, now)
        BY <2>1, WindowIsCounted
      <4>2. Cardinality(During(refusals, t)) + 1 <= GlobalLimit
        BY <1>2, <3>3, <4>1, RoomInWindow
      <4>3. QED
        BY <3>1, <3>2, <4>2, BudgetAssumption
    <3>4. CASE now \notin (t - Window)..t
      <4>1. Cardinality(InFlight(t)') <= Cardinality(InFlight(t))
        BY <2>2, <3>1, <3>4, SubsetSize
      <4>2. QED
        BY <3>1, <3>2, <4>1, BudgetAssumption DEF GlobalPotential
    <3>5. QED
      BY <3>3, <3>4
  <2>4. SourcePotential'
    <3> SUFFICES ASSUME NEW t \in Int, NEW s \in Sources
                 PROVE  Cardinality(Of(During(refusals, t), s)')
                          + Cardinality(InFlightFrom(t, s)')
                            <= SourceLimit + Cardinality(Handlers)
      BY DEF SourcePotential
    <3>1. /\ IsFiniteSet(InFlightFrom(t, s))
          /\ Cardinality(Handlers) \in Nat
      BY <2>2, AttemptsAreFew
    <3>2. /\ Cardinality(InFlightFrom(t, s)') \in Nat
          /\ Cardinality(InFlightFrom(t, s)) \in Nat
          /\ Cardinality(InFlightFrom(t, s)') <= Cardinality(InFlightFrom(t, s))
      BY <2>2, <3>1, SubsetSize
    <3>3. /\ Cardinality(Of(During(refusals, t), s)')
               = Cardinality(Of(During(refusals, t), s))
          /\ Cardinality(Of(During(refusals, t), s)) \in Nat
      BY <2>2, WindowsAreFinite
    <3>4. QED
      BY <3>1, <3>2, <3>3, BudgetAssumption DEF SourcePotential
  <2>5. QED
    BY <2>3, <2>4
<1>3. QED
  BY <1>1, <1>2

LEMMA SourceCountKeepsPotential ==
    ASSUME BudgetInv, NEW h \in Handlers, GateCountSource(h)
    PROVE  GlobalPotential' /\ SourcePotential'
<1> USE DEF BudgetInv
<1> DEFINE now == gate[h].at  src == gate[h].src
<1>1. /\ refusals' = refusals
      /\ gate[h] # None /\ gate[h] \in Attempt /\ gate[h].stage = "counted"
      /\ gate[h].at \in ReadClock /\ gate[h].src \in Sources
      /\ gate \in [Handlers -> Attempt \cup {None}]
  BY DEF GateCountSource, BudgetTypeOK, Attempt
<1>2. CASE SourceFull(failures, gate[h].at, gate[h].src)
  <2>1. gate' = [gate EXCEPT ![h] = None]
    BY <1>2 DEF GateCountSource
  <2>2. /\ \A t \in Int : InFlight(t)' \subseteq InFlight(t)
        /\ \A t \in Int, s \in Sources : InFlightFrom(t, s)' \subseteq InFlightFrom(t, s)
    BY <1>1, <2>1 DEF InFlight, InFlightFrom
  <2>3. QED
    BY <1>1, <2>2, NoNewRow
<1>3. CASE ~SourceFull(failures, gate[h].at, gate[h].src)
  <2>1. gate' = [gate EXCEPT ![h].stage = "checked"]
    BY <1>3 DEF GateCountSource
  <2>2. /\ gate'[h] = [gate[h] EXCEPT !.stage = "checked"]
        /\ gate'[h].at = now /\ gate'[h].src = src /\ gate'[h].stage = "checked"
        /\ gate'[h] # None
        /\ \A g \in Handlers : g # h => gate'[g] = gate[g]
    BY <1>1, <2>1, NoneIsNoAttempt DEF Attempt
  <2>3. ASSUME NEW t \in Int
        PROVE  /\ During(refusals, t)' = During(refusals, t)
               /\ InFlight(t)' = InFlight(t)
               /\ InFlight(t) \subseteq Handlers
               /\ \A s \in Sources :
                     /\ Of(During(refusals, t), s)' = Of(During(refusals, t), s)
                     /\ InFlightFrom(t, s) \subseteq Handlers
                     /\ InFlightFrom(t, s)' \subseteq Handlers
                     /\ s # src \/ now \notin (t - Window)..t =>
                          InFlightFrom(t, s)' \subseteq InFlightFrom(t, s)
    <3>1. InFlight(t)' = InFlight(t)
      BY <1>1, <2>2 DEF InFlight
    <3>2. ASSUME NEW s \in Sources
          PROVE  s # src \/ now \notin (t - Window)..t =>
                          InFlightFrom(t, s)' \subseteq InFlightFrom(t, s)
      BY <1>1, <2>2, <3>1 DEF InFlightFrom, InFlight
    <3>3. QED
      BY <1>1, <3>1, <3>2 DEF InFlightFrom, InFlight, During, Of
  <2>4. GlobalPotential'
    BY <2>3 DEF GlobalPotential
  <2>5. SourcePotential'
    <3> SUFFICES ASSUME NEW t \in Int, NEW s \in Sources
                 PROVE  Cardinality(Of(During(refusals, t), s)')
                          + Cardinality(InFlightFrom(t, s)')
                            <= SourceLimit + Cardinality(Handlers)
      BY DEF SourcePotential
    <3>1. /\ Cardinality(InFlightFrom(t, s)') \in Nat
          /\ Cardinality(InFlightFrom(t, s)) \in Nat
          /\ Cardinality(Handlers) \in Nat
          /\ Cardinality(InFlightFrom(t, s)') <= Cardinality(Handlers)
          /\ IsFiniteSet(InFlightFrom(t, s))
      BY <2>3, AttemptsAreFew
    <3>2. /\ Cardinality(Of(During(refusals, t), s)')
               = Cardinality(Of(During(refusals, t), s))
          /\ Cardinality(Of(During(refusals, t), s)) \in Nat
      BY <2>3, WindowsAreFinite
    <3>3. CASE s = src /\ now \in (t - Window)..t
      <4>1. Since(failures, now) = Since(refusals, now)
        BY <1>1, WindowIsCounted
      <4>2. Cardinality(Of(During(refusals, t), s)) + 1 <= SourceLimit
        BY <1>1, <1>3, <3>3, <4>1, RoomInWindow
      <4>3. QED
        BY <3>1, <3>2, <4>2, BudgetAssumption
    <3>4. CASE s # src \/ now \notin (t - Window)..t
      <4>1. Cardinality(InFlightFrom(t, s)') <= Cardinality(InFlightFrom(t, s))
        BY <2>3, <3>1, <3>4, SubsetSize
      <4>2. QED
        BY <3>1, <3>2, <4>1, BudgetAssumption DEF SourcePotential
    <3>5. QED
      BY <3>3, <3>4
  <2>6. QED
    BY <2>4, <2>5
<1>4. QED
  BY <1>2, <1>3

(***************************************************************************)
(* A punished attempt trades its place in flight for its row.               *)
(***************************************************************************)
LEMMA PunishmentKeepsPotential ==
    ASSUME BudgetInv, NEW h \in Handlers, GatePunish(h)
    PROVE  GlobalPotential' /\ SourcePotential'
<1> USE DEF BudgetInv
<1>0. PICK now \in Int, src \in Sources :
         /\ gate[h].at = now /\ gate[h].src = src
         /\ Charge(failures, now, src)
  BY DEF GatePunish, BudgetTypeOK, Attempt
<1>1. /\ gate[h] # None /\ gate[h].stage = "checked"
      /\ gate \in [Handlers -> Attempt \cup {None}]
      /\ gate' = [gate EXCEPT ![h] = None]
  BY DEF GatePunish, BudgetTypeOK
<1>2. ASSUME NEW t \in Int
      PROVE  /\ InFlight(t) \subseteq Handlers
             /\ InFlight(t)' = InFlight(t) \ {h}
             /\ now \in (t - Window)..t => h \in InFlight(t)
             /\ \A s \in Sources :
                   /\ InFlightFrom(t, s) \subseteq Handlers
                   /\ InFlightFrom(t, s)' = InFlightFrom(t, s) \ {h}
                   /\ s = src /\ now \in (t - Window)..t => h \in InFlightFrom(t, s)
  BY <1>0, <1>1 DEF InFlight, InFlightFrom
<1>3. GlobalPotential'
  <2> SUFFICES ASSUME NEW t \in Int
               PROVE  Cardinality(During(refusals, t)')
                        + Cardinality(InFlight(t)')
                          <= GlobalLimit + Cardinality(Handlers)
    BY DEF GlobalPotential
  <2>1. /\ IsFiniteSet(InFlight(t))
        /\ Cardinality(InFlight(t)) \in Nat /\ Cardinality(Handlers) \in Nat
    BY <1>2, AttemptsAreFew
  <2>2. Cardinality(InFlight(t) \ {h}) =
          IF h \in InFlight(t) THEN Cardinality(InFlight(t)) - 1
          ELSE Cardinality(InFlight(t))
    BY <2>1, FS_RemoveElement, Zenon
  <2>3. /\ IsFiniteSet(During(refusals, t))
        /\ During(refusals, t)'
             \subseteq During(refusals, t) \cup {NewFailure(now, src)}
    BY <1>0, ChargedWindow
  <2>4. /\ Cardinality(During(refusals, t)) \in Nat
        /\ Cardinality(During(refusals, t)') \in Nat
        /\ Cardinality(During(refusals, t)') <= Cardinality(During(refusals, t)) + 1
    BY <2>3, OneMore
  <2>5. now \notin (t - Window)..t => During(refusals, t)' = During(refusals, t)
    BY <1>0, ChargedWindow
  <2>6. /\ Cardinality(InFlight(t)') = Cardinality(InFlight(t) \ {h})
        /\ Cardinality(During(refusals, t)) + Cardinality(InFlight(t))
             <= GlobalLimit + Cardinality(Handlers)
    BY <1>2 DEF GlobalPotential
  <2>7. CASE now \in (t - Window)..t
    BY <1>2, <2>1, <2>2, <2>4, <2>6, <2>7, BudgetAssumption
  <2>8. CASE ~(now \in (t - Window)..t)
    <3>1. Cardinality(During(refusals, t)') = Cardinality(During(refusals, t))
      BY <2>5, <2>8
    <3>2. QED
      BY <2>1, <2>2, <2>4, <2>6, <3>1, BudgetAssumption
  <2>9. QED
    BY <2>7, <2>8
<1>4. SourcePotential'
  <2> SUFFICES ASSUME NEW t \in Int, NEW s \in Sources
               PROVE  Cardinality(Of(During(refusals, t), s)')
                        + Cardinality(InFlightFrom(t, s)')
                          <= SourceLimit + Cardinality(Handlers)
    BY DEF SourcePotential
  <2>1. /\ IsFiniteSet(InFlightFrom(t, s))
        /\ Cardinality(InFlightFrom(t, s)) \in Nat /\ Cardinality(Handlers) \in Nat
    BY <1>2, AttemptsAreFew
  <2>2. Cardinality(InFlightFrom(t, s) \ {h}) =
          IF h \in InFlightFrom(t, s) THEN Cardinality(InFlightFrom(t, s)) - 1
          ELSE Cardinality(InFlightFrom(t, s))
    BY <2>1, FS_RemoveElement, Zenon
  <2>3. /\ IsFiniteSet(Of(During(refusals, t), s))
        /\ Of(During(refusals, t), s)'
             \subseteq Of(During(refusals, t), s) \cup {NewFailure(now, src)}
    BY <1>0, ChargedWindow
  <2>4. /\ Cardinality(Of(During(refusals, t), s)) \in Nat
        /\ Cardinality(Of(During(refusals, t), s)') \in Nat
        /\ Cardinality(Of(During(refusals, t), s)')
             <= Cardinality(Of(During(refusals, t), s)) + 1
    BY <2>3, OneMore
  <2>5. s # src \/ now \notin (t - Window)..t =>
          Of(During(refusals, t), s)' = Of(During(refusals, t), s)
    BY <1>0, ChargedWindow
  <2>6. /\ Cardinality(InFlightFrom(t, s)') = Cardinality(InFlightFrom(t, s) \ {h})
        /\ Cardinality(Of(During(refusals, t), s)) + Cardinality(InFlightFrom(t, s))
             <= SourceLimit + Cardinality(Handlers)
    BY <1>2 DEF SourcePotential
  <2>7. CASE s = src /\ now \in (t - Window)..t
    BY <1>2, <2>1, <2>2, <2>4, <2>6, <2>7, BudgetAssumption
  <2>8. CASE ~(s = src /\ now \in (t - Window)..t)
    <3>1. Cardinality(Of(During(refusals, t), s)') = Cardinality(Of(During(refusals, t), s))
      BY <2>5, <2>8
    <3>2. QED
      BY <2>1, <2>2, <2>4, <2>6, <3>1, BudgetAssumption
  <2>9. QED
    BY <2>7, <2>8
<1>5. QED
  BY <1>3, <1>4

-----------------------------------------------------------------------------
(***************************************************************************)
(* Each action keeps the types, and prunes only what is old.                *)
(***************************************************************************)
LEMMA ChargeKeepsTypes ==
    ASSUME BudgetTypeOK, NEW now \in Int, NEW src \in Sources,
           NEW rows, rows \subseteq refusals, Charge(rows, now, src)
    PROVE  /\ refusals' \subseteq Failure /\ IsFiniteSet(refusals')
           /\ failures' \subseteq refusals'
           /\ refusals' \ failures' \subseteq refusals \ rows
<1>1. NewFailure(now, src) \in Failure
  BY NewFailureType DEF BudgetTypeOK
<1>2. IsFiniteSet(refusals \cup {NewFailure(now, src)})
  BY FS_AddElement DEF BudgetTypeOK
<1>3. QED
  BY <1>1, <1>2 DEF Charge, BudgetTypeOK

LEMMA StepKeepsTypes ==
    ASSUME BudgetTypeOK, PrunedAreOld, [BudgetNext]_budgetVars
    PROVE  BudgetTypeOK' /\ PrunedAreOld'
<1> USE BudgetAssumption
<1>0. ReadClock \subseteq Int
  BY DEF ReadClock, BudgetTypeOK
<1>1. CASE Tick
  BY <1>1 DEF Tick, BudgetTypeOK, PrunedAreOld, Failure
<1>2. ASSUME NEW now \in ReadClock, NEW src \in Sources,
             RedeemThrottled(now, src) \/ RedeemGranted(now, src)
      PROVE  BudgetTypeOK' /\ PrunedAreOld'
  BY <1>2, PruningIsSafe
     DEF RedeemThrottled, RedeemGranted, BudgetTypeOK, PrunedAreOld
<1>3. ASSUME NEW now \in ReadClock, NEW src \in Sources, RedeemRefused(now, src)
      PROVE  BudgetTypeOK' /\ PrunedAreOld'
  <2>1. /\ Unpruned(failures, now) \subseteq refusals
        /\ Charge(Unpruned(failures, now), now, src)
        /\ clock' = clock /\ gate' = gate
    BY <1>3 DEF RedeemRefused, Unpruned, BudgetTypeOK
  <2>2. /\ refusals' \subseteq Failure /\ IsFiniteSet(refusals')
        /\ failures' \subseteq refusals'
        /\ refusals' \ failures' \subseteq refusals \ Unpruned(failures, now)
    BY <1>0, <2>1, ChargeKeepsTypes
  <2>3. QED
    BY <2>1, <2>2, PruningIsSafe DEF BudgetTypeOK, PrunedAreOld
<1>4. ASSUME NEW h \in Handlers, NEW now \in ReadClock, NEW src \in Sources,
             GateCountGlobal(h, now, src)
      PROVE  BudgetTypeOK' /\ PrunedAreOld'
  BY <1>0, <1>4, PruningIsSafe
     DEF GateCountGlobal, BudgetTypeOK, PrunedAreOld, Attempt
<1>5. ASSUME NEW h \in Handlers, GateCountSource(h)
      PROVE  BudgetTypeOK' /\ PrunedAreOld'
  BY <1>5 DEF GateCountSource, BudgetTypeOK, PrunedAreOld, Attempt
<1>6. ASSUME NEW h \in Handlers, GatePunish(h)
      PROVE  BudgetTypeOK' /\ PrunedAreOld'
  <2>1. /\ gate[h].at \in Int /\ gate[h].src \in Sources
        /\ failures \subseteq refusals
        /\ Charge(failures, gate[h].at, gate[h].src)
        /\ clock' = clock /\ gate' = [gate EXCEPT ![h] = None]
    BY <1>6 DEF GatePunish, BudgetTypeOK, Attempt
  <2>2. /\ refusals' \subseteq Failure /\ IsFiniteSet(refusals')
        /\ failures' \subseteq refusals'
        /\ refusals' \ failures' \subseteq refusals \ failures
    BY <2>1, ChargeKeepsTypes
  <2>3. QED
    BY <2>1, <2>2 DEF BudgetTypeOK, PrunedAreOld
<1>7. ASSUME NEW h \in Handlers, GateLeave(h)
      PROVE  BudgetTypeOK' /\ PrunedAreOld'
  BY <1>7 DEF GateLeave, BudgetTypeOK, PrunedAreOld
<1>8. CASE UNCHANGED budgetVars
  BY <1>8 DEF budgetVars, BudgetTypeOK, PrunedAreOld
<1>9. QED
  BY <1>1, <1>2, <1>3, <1>4, <1>5, <1>6, <1>7, <1>8 DEF BudgetNext, GateStep

(***************************************************************************)
(* The invariant holds initially: no refusal, no attempt.                   *)
(***************************************************************************)
LEMMA BudgetInvInit == BudgetInit => BudgetInv
<1> SUFFICES ASSUME BudgetInit PROVE BudgetInv
  OBVIOUS
<1> USE BudgetAssumption DEF BudgetInit
<1>1. BudgetTypeOK /\ PrunedAreOld
  BY FS_EmptySet DEF BudgetTypeOK, PrunedAreOld
<1>2. ASSUME NEW t \in Int
      PROVE  /\ During(refusals, t) = {} /\ InFlight(t) = {}
             /\ \A src \in Sources :
                   /\ Of(During(refusals, t), src) = {}
                   /\ InFlightFrom(t, src) = {}
  BY DEF During, Of, InFlight, InFlightFrom
<1>3. Cardinality({}) = 0 /\ Cardinality(Handlers) \in Nat
  BY FS_EmptySet, FS_CardinalityType
<1>4. GlobalPotential
  BY <1>2, <1>3 DEF GlobalPotential
<1>5. SourcePotential
  <2> SUFFICES ASSUME NEW t \in Int, NEW src \in Sources
               PROVE  Cardinality(Of(During(refusals, t), src))
                        + Cardinality(InFlightFrom(t, src))
                          <= SourceLimit + Cardinality(Handlers)
    BY DEF SourcePotential
  <2>1. Of(During(refusals, t), src) = {} /\ InFlightFrom(t, src) = {}
    BY <1>2
  <2>2. QED
    BY <1>3, <2>1
<1>6. QED
  BY <1>1, <1>4, <1>5 DEF BudgetInv

(***************************************************************************)
(* Every step keeps it.                                                     *)
(***************************************************************************)
LEMMA BudgetInvStep == BudgetInv /\ [BudgetNext]_budgetVars => BudgetInv'
<1> SUFFICES ASSUME BudgetInv, [BudgetNext]_budgetVars PROVE BudgetInv'
  OBVIOUS
<1>1. BudgetTypeOK' /\ PrunedAreOld'
  BY StepKeepsTypes DEF BudgetInv
<1>2. GlobalPotential' /\ SourcePotential'
  <2>1. ASSUME refusals' = refusals, gate' = gate
        PROVE  GlobalPotential' /\ SourcePotential'
    BY <2>1, NoNewRow DEF InFlight, InFlightFrom
  <2>2. CASE Tick \/ UNCHANGED budgetVars
    BY <2>1, <2>2 DEF Tick, budgetVars
  <2>3. ASSUME NEW now \in ReadClock, NEW src \in Sources,
               RedeemThrottled(now, src) \/ RedeemGranted(now, src)
        PROVE  GlobalPotential' /\ SourcePotential'
    BY <2>1, <2>3 DEF RedeemThrottled, RedeemGranted
  <2>4. ASSUME NEW h \in Handlers, GateLeave(h)
        PROVE  GlobalPotential' /\ SourcePotential'
    <3>1. /\ refusals' = refusals
          /\ gate' = [gate EXCEPT ![h] = None]
          /\ gate \in [Handlers -> Attempt \cup {None}]
      BY <2>4 DEF GateLeave, BudgetInv, BudgetTypeOK
    <3>2. /\ \A t \in Int : InFlight(t)' \subseteq InFlight(t)
          /\ \A t \in Int, src \in Sources :
                InFlightFrom(t, src)' \subseteq InFlightFrom(t, src)
      BY <3>1 DEF InFlight, InFlightFrom
    <3>3. QED
      BY <3>1, <3>2, NoNewRow
  <2>5. QED
    BY <2>2, <2>3, <2>4, RefusalKeepsPotential, GlobalCountKeepsPotential,
       SourceCountKeepsPotential, PunishmentKeepsPotential
       DEF BudgetNext, GateStep
<1>3. QED
  BY <1>1, <1>2 DEF BudgetInv

-----------------------------------------------------------------------------
(***************************************************************************)
(* The types, and what the two potentials and PrunedAreOld add to them,     *)
(* hold throughout.                                                         *)
(***************************************************************************)
THEOREM BudgetInvariance == BudgetSpec => []BudgetInv
<1>1. BudgetInit => BudgetInv
  BY BudgetInvInit
<1>2. BudgetInv /\ [BudgetNext]_budgetVars => BudgetInv'
  BY BudgetInvStep
<1>3. QED
  BY <1>1, <1>2, PTL DEF BudgetSpec

(***************************************************************************)
(* In no window are more failures answered than the global limit plus one   *)
(* for each password attempt that can be in flight.                         *)
(***************************************************************************)
THEOREM GlobalWindowBound == BudgetSpec => []GlobalBound
<1>1. BudgetInv => GlobalBound
  <2> SUFFICES ASSUME BudgetInv, NEW t \in -MaxLag..MaxTime
               PROVE  Cardinality(During(refusals, t))
                        <= GlobalLimit + Cardinality(Handlers)
    BY DEF GlobalBound
  <2>1. t \in Int /\ InFlight(t) \subseteq Handlers
    BY BudgetAssumption DEF InFlight
  <2>2. /\ Cardinality(InFlight(t)) \in Nat /\ Cardinality(Handlers) \in Nat
        /\ Cardinality(During(refusals, t)) \in Nat
    BY <2>1, AttemptsAreFew, WindowsAreFinite DEF BudgetInv
  <2>3. QED
    BY <2>1, <2>2, BudgetAssumption DEF BudgetInv, GlobalPotential
<1>2. QED
  BY <1>1, BudgetInvariance, PTL

(***************************************************************************)
(* In no window has one source more failures answered than the source       *)
(* limit plus one for each password attempt that can be in flight.          *)
(***************************************************************************)
THEOREM SourceWindowBound == BudgetSpec => []SourceBound
<1>1. BudgetInv => SourceBound
  <2> SUFFICES ASSUME BudgetInv, NEW t \in -MaxLag..MaxTime, NEW src \in Sources
               PROVE  Cardinality(Of(During(refusals, t), src))
                        <= SourceLimit + Cardinality(Handlers)
    BY DEF SourceBound
  <2>1. t \in Int /\ InFlightFrom(t, src) \subseteq Handlers
    BY BudgetAssumption DEF InFlight, InFlightFrom
  <2>2. /\ Cardinality(InFlightFrom(t, src)) \in Nat
        /\ Cardinality(Handlers) \in Nat
        /\ Cardinality(Of(During(refusals, t), src)) \in Nat
    BY <2>1, AttemptsAreFew, WindowsAreFinite DEF BudgetInv
  <2>3. QED
    BY <2>1, <2>2, BudgetAssumption DEF BudgetInv, SourcePotential
<1>2. QED
  BY <1>1, BudgetInvariance, PTL

(***************************************************************************)
(* Both bounds hold together (db.rs:279-314, web.rs:360-398).               *)
(***************************************************************************)
THEOREM WindowsAreBounded == BudgetSpec => []WindowBound
BY GlobalWindowBound, SourceWindowBound, PTL DEF WindowBound

(***************************************************************************)
(* Pruning is invisible to every handler, however its clock lags.           *)
(***************************************************************************)
THEOREM PruningIsInvisible == BudgetSpec => []CountsAreExact
<1>1. BudgetInv => CountsAreExact
  BY WindowIsCounted DEF BudgetInv, CountsAreExact
<1>2. QED
  BY <1>1, BudgetInvariance, PTL

-----------------------------------------------------------------------------
(***************************************************************************)
(* The console.                                                             *)
(***************************************************************************)
\* Equal rows of the table of failures are told apart: a new one is new.
Numbered ==
    \A r \in refusals :
        r.nth < Cardinality({q \in refusals : q.at = r.at /\ q.src = r.src})

\* A row of admin_sessions was issued, lives no longer than a session may, and
\* is not one that was locked.
RowsInv ==
    /\ DOMAIN issued \subseteq AdminTokens
    /\ \A t \in DOMAIN issued : issued[t] \in Int
    /\ \A t \in DOMAIN admin : admin[t].expires <= issued[t] + AdminSessionTTL
    /\ locked \cap DOMAIN admin = {}

\* What a request was admitted by stays true of it.
RequestInv(h) ==
    req[h] # None =>
        /\ req[h].locked \subseteq locked
        /\ req[h].session =>
              /\ req[h].stage = "act"
              /\ req[h].token \in DOMAIN issued
              /\ req[h].token \notin req[h].locked
              /\ req[h].admitted < issued[req[h].token] + AdminSessionTTL + MaxLag

ConsoleInv ==
    /\ BudgetTypeOK
    /\ PrunedAreOld
    /\ ConsoleTypeOK
    /\ Numbered
    /\ WrongAnswersAreCharged
    /\ RowsInv
    /\ \A h \in Handlers : RequestInv(h)

-----------------------------------------------------------------------------
LEMMA ReadingsAreIntegers == ASSUME BudgetTypeOK PROVE ReadClock \subseteq Int
BY BudgetAssumption DEF BudgetTypeOK, ReadClock

LEMMA RequestFields ==
    ASSUME ConsoleTypeOK, NEW h \in Handlers, req[h] # None
    PROVE  /\ req[h] \in Request
           /\ req[h].src \in Sources /\ req[h].now \in Int
           /\ req[h].admitted \in Int
BY DEF ConsoleTypeOK, Request

\* The two ways in which a handler that serves a request leaves its stage.
LEMMA GotoMoves ==
    ASSUME ConsoleTypeOK, NEW h \in Handlers, req[h] # None,
           NEW stage \in {"authorize", "budget", "count", "password", "act"},
           Goto(h, stage)
    PROVE  /\ req' \in [Handlers -> Request \cup {None}]
           /\ req'[h] # None /\ req'[h].stage = stage
           /\ req'[h].token = req[h].token /\ req'[h].locked = req[h].locked
           /\ req'[h].session = req[h].session
           /\ req'[h].admitted = req[h].admitted
           /\ \A g \in Handlers : g # h => req'[g] = req[g]
<1> DEFINE moved == [req[h] EXCEPT !.stage = stage]
<1>1. moved \in Request /\ moved.stage = stage
      /\ moved.token = req[h].token /\ moved.locked = req[h].locked
      /\ moved.session = req[h].session /\ moved.admitted = req[h].admitted
  BY RequestFields DEF Request
<1>2. req' = [req EXCEPT ![h] = moved]
  BY DEF Goto
<1> HIDE DEF moved
<1>3. req \in [Handlers -> Request \cup {None}] /\ moved # None
  BY <1>1, NoneIsNoRequest DEF ConsoleTypeOK
<1>4. QED
  BY <1>1, <1>2, <1>3

LEMMA AnsweredEnds ==
    ASSUME ConsoleTypeOK, NEW h \in Handlers, Answered(h)
    PROVE  /\ req' \in [Handlers -> Request \cup {None}]
           /\ req'[h] = None
           /\ \A g \in Handlers : g # h => req'[g] = req[g]
BY DEF ConsoleTypeOK, Answered

\* What the actions of FailureBudget do to the attempt of one handler.
LEMMA GateMoves ==
    ASSUME BudgetTypeOK, NEW h \in Handlers,
           \/ \E now \in ReadClock, src \in Sources : GateCountGlobal(h, now, src)
           \/ GateCountSource(h) \/ GatePunish(h) \/ GateLeave(h)
    PROVE  \A g \in Handlers : g # h => gate'[g] = gate[g]
BY DEF GateCountGlobal, GateCountSource, GatePunish, GateLeave, BudgetTypeOK

LEMMA GateLeft ==
    ASSUME BudgetTypeOK, NEW h \in Handlers, GatePunish(h) \/ GateLeave(h)
    PROVE  gate[h] # None /\ gate'[h] = None
BY DEF GatePunish, GateLeave, BudgetTypeOK

(***************************************************************************)
(* Every step of the handlers is a step of FailureBudget: web.rs charges a  *)
(* failure, from whichever handler, only after over_failure_budget.         *)
(***************************************************************************)
LEMMA StepIsGateStep ==
    ASSUME ConsoleTypeOK, [ConsoleNext]_allVars
    PROVE  [BudgetNext]_budgetVars
<1>1. CASE TimePasses
  BY <1>1 DEF TimePasses, BudgetNext
<1>2. ASSUME NEW h \in Handlers, HandlerStep(h)
      PROVE  [BudgetNext]_budgetVars
  <2>1. CASE Budget(h)
    <3>1. req[h].src \in Sources
      BY <2>1, RequestFields DEF Budget, At
    <3>2. QED
      BY <2>1, <3>1 DEF Budget, BudgetNext, GateStep
  <2>2. CASE Count(h)
    BY <2>2 DEF Count, BudgetNext, GateStep
  <2>3. CASE RefuseOrigin(h) \/ PasswordRight(h) \/ PasswordWrongUnrecorded(h)
    BY <2>3 DEF RefuseOrigin, PasswordRight, PasswordWrongUnrecorded, BudgetNext, GateStep
  <2>4. CASE PasswordWrong(h)
    BY <2>4 DEF PasswordWrong, BudgetNext, GateStep
  <2>5. CASE Leave(h)
    BY <2>5 DEF Leave, BudgetNext, GateStep
  <2>6. CASE \/ \E op \in Ops, src \in Sources, token \in AdminTokens \cup {None} :
                  Arrive(h, op, src, token)
             \/ \E origin \in BOOLEAN : Authorize(h, origin)
             \/ \E token \in AdminTokens : Unlock(h, token)
             \/ Act(h)
    BY <2>6 DEF Arrive, Authorize, Unlock, Act
  <2>7. QED
    BY <1>2, <2>1, <2>2, <2>3, <2>4, <2>5, <2>6 DEF HandlerStep
<1>3. CASE \E token \in AdminTokens : Lock(token) \/ LockFailed(token)
  BY <1>3 DEF Lock, LockFailed
<1>4. ASSUME NEW now \in ReadClock, NEW src \in Sources, Redemption(now, src)
      PROVE  [BudgetNext]_budgetVars
  BY <1>4 DEF Redemption, BudgetNext
<1>5. CASE UNCHANGED allVars
  BY <1>5 DEF allVars
<1>6. QED
  BY <1>1, <1>2, <1>3, <1>4, <1>5 DEF ConsoleNext

-----------------------------------------------------------------------------
\* A new row is none of the rows there were, pruned or not.
LEMMA ChargeCountsOne ==
    ASSUME BudgetTypeOK, Numbered, NEW rows, NEW now \in Int, NEW src \in Sources,
           Charge(rows, now, src)
    PROVE  /\ Cardinality(refusals') = Cardinality(refusals) + 1
           /\ Numbered'
<1> DEFINE new == NewFailure(now, src)
           Same(S, r) == {q \in S : q.at = r.at /\ q.src = r.src}
<1>0. IsFiniteSet(refusals) /\ refusals \subseteq Failure
  BY DEF BudgetTypeOK
<1>1. new.at = now /\ new.src = src /\ new \in Failure
  BY <1>0, NewFailureType
<1>2. new.nth = Cardinality(Same(refusals, new))
  BY <1>1 DEF NewFailure
<1>3. \A r \in Failure : r.nth \in Nat
  BY DEF Failure
<1> HIDE DEF new
<1>4. new \notin refusals
  BY <1>1, <1>2, <1>3 DEF Numbered
<1>5. refusals' = refusals \cup {new}
  BY DEF Charge, new
<1>6. Cardinality(refusals') = Cardinality(refusals) + 1 /\ IsFiniteSet(refusals')
  BY <1>0, <1>4, <1>5, FS_AddElement
<1>7. ASSUME NEW r \in refusals'
      PROVE  r.nth < Cardinality(Same(refusals', r))
  <2>1. /\ IsFiniteSet(Same(refusals', r)) /\ IsFiniteSet(Same(refusals, r))
        /\ Cardinality(Same(refusals', r)) \in Nat
        /\ Cardinality(Same(refusals, r)) \in Nat
        /\ Cardinality(Same(refusals, r)) <= Cardinality(Same(refusals', r))
    <3>1. Same(refusals, r) \subseteq Same(refusals', r)
          /\ Same(refusals', r) \subseteq refusals'
      BY <1>5
    <3>2. IsFiniteSet(Same(refusals', r))
      BY <1>6, <3>1, FS_Subset
    <3>3. QED
      BY <3>1, <3>2, SubsetSize
  <2>2. CASE r \in refusals
    BY <1>0, <1>3, <2>1, <2>2 DEF Numbered
  <2>3. CASE r = new
    <3>1. Same(refusals', r) = Same(refusals, r) \cup {new} /\ new \notin Same(refusals, r)
      BY <1>4, <1>5, <2>3
    <3>2. Cardinality(Same(refusals', r)) = Cardinality(Same(refusals, r)) + 1
      BY <2>1, <3>1, FS_AddElement
    <3>3. QED
      BY <1>2, <2>1, <2>3, <3>2
  <2>4. QED
    BY <1>5, <2>2, <2>3
<1>8. QED
  BY <1>6, <1>7 DEF Numbered

\* Each wrong answer adds one row or is counted as lost; nothing else does.
LEMMA StepKeepsCharges ==
    ASSUME BudgetTypeOK, ConsoleTypeOK, Numbered, WrongAnswersAreCharged,
           [ConsoleNext]_allVars
    PROVE  Numbered' /\ WrongAnswersAreCharged'
<1>0. /\ Cardinality(refusals) \in Nat /\ wrong \in Nat /\ lost \in Int
      /\ ReadClock \subseteq Int
  BY FS_CardinalityType, ReadingsAreIntegers, ConsoleAssumption
     DEF BudgetTypeOK, ConsoleTypeOK
<1>1. ASSUME UNCHANGED refusals,
             \/ wrong' = wrong /\ lost' = lost
             \/ wrong' = wrong + 1 /\ lost' = lost + 1
      PROVE  Numbered' /\ WrongAnswersAreCharged'
  <2>1. Numbered'
    BY <1>1 DEF Numbered
  <2>2. WrongAnswersAreCharged'
    <3>1. Cardinality(refusals') = Cardinality(refusals)
      BY <1>1
    <3>2. Cardinality(refusals) + lost = wrong
      BY DEF WrongAnswersAreCharged
    <3>3. Cardinality(refusals) + lost' = wrong'
      BY <1>0, <1>1, <3>2
    <3>4. QED
      BY <3>1, <3>3 DEF WrongAnswersAreCharged
  <2>3. QED
    BY <2>1, <2>2
<1>2. ASSUME NEW rows, NEW now \in Int, NEW src \in Sources, Charge(rows, now, src),
             wrong' = wrong + 1, UNCHANGED lost
      PROVE  Numbered' /\ WrongAnswersAreCharged'
  BY <1>0, <1>2, ChargeCountsOne DEF WrongAnswersAreCharged
<1>3. CASE TimePasses \/ UNCHANGED allVars
  BY <1>0, <1>1, <1>3 DEF TimePasses, Tick, consoleVars, allVars, budgetVars
<1>4. ASSUME NEW h \in Handlers, HandlerStep(h)
      PROVE  Numbered' /\ WrongAnswersAreCharged'
  <2>1. CASE PasswordWrong(h)
    <3>1. gate[h] \in Attempt
      BY <2>1 DEF PasswordWrong, GatePunish, BudgetTypeOK
    <3>2. gate[h].at \in Int /\ gate[h].src \in Sources
      BY <3>1 DEF Attempt
    <3>3. QED
      BY <1>2, <2>1, <3>2 DEF PasswordWrong, GatePunish
  <2>2. CASE PasswordWrongUnrecorded(h)
    BY <1>0, <1>1, <2>2 DEF PasswordWrongUnrecorded, GateLeave
  <2>3. CASE \/ \E op \in Ops, src \in Sources, token \in AdminTokens \cup {None} :
                  Arrive(h, op, src, token)
             \/ \E origin \in BOOLEAN : Authorize(h, origin)
             \/ Budget(h) \/ Count(h) \/ RefuseOrigin(h) \/ PasswordRight(h)
             \/ \E token \in AdminTokens : Unlock(h, token)
             \/ Act(h) \/ Leave(h)
    <3>1. refusals' = refusals /\ wrong' = wrong /\ lost' = lost
      BY <2>3 DEF Arrive, Authorize, Budget, Count, RefuseOrigin, PasswordRight, Unlock,
                  Act, Leave, GateCountGlobal, GateCountSource, GateLeave, budgetVars
    <3>2. QED
      BY <1>0, <1>1, <3>1
  <2>4. QED
    BY <1>4, <2>1, <2>2, <2>3 DEF HandlerStep
<1>5. CASE \E token \in AdminTokens : Lock(token) \/ LockFailed(token)
  BY <1>0, <1>1, <1>5 DEF Lock, LockFailed, budgetVars
<1>6. ASSUME NEW now \in ReadClock, NEW src \in Sources, Redemption(now, src)
      PROVE  Numbered' /\ WrongAnswersAreCharged'
  <2>1. CASE RedeemRefused(now, src) /\ wrong' = wrong + 1
    BY <1>0, <1>2, <1>6, <2>1 DEF Redemption, RedeemRefused
  <2>2. CASE (RedeemThrottled(now, src) \/ RedeemGranted(now, src)) /\ UNCHANGED wrong
    BY <1>0, <1>1, <1>6, <2>2 DEF Redemption, RedeemThrottled, RedeemGranted
  <2>3. QED
    BY <1>6, <2>1, <2>2 DEF Redemption
<1>7. QED
  BY <1>3, <1>4, <1>5, <1>6 DEF ConsoleNext

-----------------------------------------------------------------------------
\* No token is issued twice and no lock is forgotten.
LEMMA HistoriesGrow ==
    ASSUME [ConsoleNext]_allVars
    PROVE  /\ locked \subseteq locked'
           /\ DOMAIN issued \subseteq DOMAIN issued'
           /\ \A t \in DOMAIN issued : issued'[t] = issued[t]
<1> DEFINE Goal == /\ locked \subseteq locked'
                   /\ DOMAIN issued \subseteq DOMAIN issued'
                   /\ \A t \in DOMAIN issued : issued'[t] = issued[t]
<1>1. CASE TimePasses \/ UNCHANGED allVars
  BY <1>1 DEF TimePasses, consoleVars, allVars
<1>2. ASSUME NEW h \in Handlers, HandlerStep(h)
      PROVE  Goal
  <2>1. ASSUME NEW token \in AdminTokens, Unlock(h, token)
        PROVE  Goal
    BY <2>1 DEF Unlock
  <2>2. CASE \/ \E op \in Ops, src \in Sources, token \in AdminTokens \cup {None} :
                  Arrive(h, op, src, token)
             \/ \E origin \in BOOLEAN : Authorize(h, origin)
             \/ Budget(h) \/ Count(h) \/ RefuseOrigin(h) \/ PasswordRight(h)
             \/ PasswordWrong(h) \/ PasswordWrongUnrecorded(h)
             \/ Act(h) \/ Leave(h)
    BY <2>2 DEF Arrive, Authorize, Budget, Count, RefuseOrigin, PasswordRight,
                PasswordWrong, PasswordWrongUnrecorded, Act, Leave
  <2>3. QED
    BY <1>2, <2>1, <2>2 DEF HandlerStep
<1>3. CASE \E token \in AdminTokens : Lock(token) \/ LockFailed(token)
  BY <1>3 DEF Lock, LockFailed
<1>4. ASSUME NEW now \in ReadClock, NEW src \in Sources, Redemption(now, src)
      PROVE  UNCHANGED <<locked, issued>>
  BY <1>4 DEF Redemption
<1>5. QED
  BY <1>1, <1>2, <1>3, <1>4 DEF ConsoleNext

\* create_admin_session and frankendrop_lock are all that writes the rows.
LEMMA StepKeepsRows ==
    ASSUME BudgetTypeOK, ConsoleTypeOK, RowsInv, [ConsoleNext]_allVars
    PROVE  /\ RowsInv'
           /\ \A t \in DOMAIN admin' : t \in AdminTokens /\ admin'[t].expires \in Int
           /\ DOMAIN admin' \subseteq DOMAIN issued'
           /\ locked' \subseteq DOMAIN issued'
<1> DEFINE Goal ==
             /\ RowsInv'
             /\ \A t \in DOMAIN admin' : t \in AdminTokens /\ admin'[t].expires \in Int
             /\ DOMAIN admin' \subseteq DOMAIN issued'
             /\ locked' \subseteq DOMAIN issued'
<1> USE DEF ConsoleTypeOK, RowsInv
<1>1. ASSUME UNCHANGED <<admin, issued, locked>>
      PROVE  Goal
  BY <1>1
<1>2. CASE TimePasses \/ UNCHANGED allVars
  BY <1>1, <1>2 DEF TimePasses, consoleVars, allVars
<1>3. ASSUME NEW h \in Handlers, HandlerStep(h)
      PROVE  Goal
  <2>1. ASSUME NEW token \in AdminTokens, Unlock(h, token)
        PROVE  Goal
    <3>1. req[h].now \in Int /\ req[h].now <= clock /\ clock \in Int
      BY <2>1, RequestFields DEF Unlock, At, ReadClock, BudgetTypeOK
    <3>2. /\ DOMAIN issued' = DOMAIN issued \cup {token}
          /\ issued'[token] = clock
          /\ \A t \in DOMAIN issued : issued'[t] = issued[t]
          /\ token \notin DOMAIN issued /\ locked' = locked
      BY <2>1 DEF Unlock
    <3>3. /\ DOMAIN admin' \subseteq DOMAIN admin \cup {token}
          /\ admin'[token].expires = req[h].now + AdminSessionTTL
          /\ \A t \in DOMAIN admin' : t # token => admin'[t] = admin[t]
      BY <2>1 DEF Unlock
    <3>4. ASSUME NEW t \in DOMAIN admin'
          PROVE  /\ t \in AdminTokens /\ admin'[t].expires \in Int
                 /\ t \in DOMAIN issued' /\ t \notin locked'
                 /\ admin'[t].expires <= issued'[t] + AdminSessionTTL
      BY <3>1, <3>2, <3>3, ConsoleAssumption
    <3>5. \A t \in DOMAIN issued' : issued'[t] \in Int
      BY <3>1, <3>2
    <3>6. locked' \subseteq DOMAIN issued' /\ DOMAIN issued' \subseteq AdminTokens
      BY <3>2
    <3>7. QED
      BY <3>4, <3>5, <3>6
  <2>2. CASE \/ \E op \in Ops, src \in Sources, token \in AdminTokens \cup {None} :
                  Arrive(h, op, src, token)
             \/ \E origin \in BOOLEAN : Authorize(h, origin)
             \/ Budget(h) \/ Count(h) \/ RefuseOrigin(h) \/ PasswordRight(h)
             \/ PasswordWrong(h) \/ PasswordWrongUnrecorded(h)
             \/ Act(h) \/ Leave(h)
    BY <1>1, <2>2
       DEF Arrive, Authorize, Budget, Count, RefuseOrigin, PasswordRight,
           PasswordWrong, PasswordWrongUnrecorded, Act, Leave
  <2>3. QED
    BY <1>3, <2>1, <2>2 DEF HandlerStep
<1>4. ASSUME NEW token \in AdminTokens, Lock(token)
      PROVE  Goal
  BY <1>4 DEF Lock, RowsWithout
<1>5. ASSUME NEW token \in AdminTokens, LockFailed(token)
      PROVE  Goal
  BY <1>1, <1>5 DEF LockFailed
<1>6. ASSUME NEW now \in ReadClock, NEW src \in Sources, Redemption(now, src)
      PROVE  Goal
  BY <1>1, <1>6 DEF Redemption
<1>7. QED
  BY <1>2, <1>3, <1>4, <1>5, <1>6 DEF ConsoleNext

-----------------------------------------------------------------------------
\* A handler has an attempt in the gate while it counts and verifies.
Paired(h) ==
    gate[h] # None <=> req[h] # None /\ req[h].stage \in {"count", "password"}

\* A handler's step concerns its own request and its own attempt.
LEMMA HandlerKeepsTypes ==
    ASSUME BudgetTypeOK, ConsoleTypeOK, RowsInv, NEW h \in Handlers, HandlerStep(h)
    PROVE  /\ req' \in [Handlers -> Request \cup {None}]
           /\ Paired(h)'
           /\ \A g \in Handlers : g # h => req'[g] = req[g] /\ gate'[g] = gate[g]
<1> DEFINE Goal ==
             /\ req' \in [Handlers -> Request \cup {None}]
             /\ Paired(h)'
             /\ \A g \in Handlers : g # h => req'[g] = req[g] /\ gate'[g] = gate[g]
<1>0. Paired(h)
  BY DEF ConsoleTypeOK, Paired
<1>1. ASSUME NEW op \in Ops, NEW src \in Sources, NEW token \in AdminTokens \cup {None},
             Arrive(h, op, src, token)
      PROVE  Goal
  <2> DEFINE stage == IF op = "unlock" THEN "budget" ELSE "authorize"
             new == [op |-> op, src |-> src, now |-> clock, token |-> token,
                     locked |-> locked, stage |-> stage,
                     session |-> FALSE, admitted |-> 0]
  <2>1. req' = [req EXCEPT ![h] = new] /\ gate' = gate /\ req[h] = None
    BY <1>1 DEF Arrive, budgetVars
  <2>2. locked \subseteq AdminTokens
    BY DEF ConsoleTypeOK, RowsInv
  <2>3. new \in Request /\ new.stage \in {"budget", "authorize"}
    BY <2>2 DEF Request, BudgetTypeOK
  <2> HIDE DEF new
  <2>4. req' \in [Handlers -> Request \cup {None}] /\ req'[h] = new
        /\ \A g \in Handlers : g # h => req'[g] = req[g]
    BY <2>1, <2>3 DEF ConsoleTypeOK
  <2>5. gate'[h] = None
    BY <1>0, <2>1 DEF Paired
  <2>6. Paired(h)'
    BY <2>3, <2>4, <2>5 DEF Paired
  <2>7. QED
    BY <2>1, <2>4, <2>6
<1>2. ASSUME NEW origin \in BOOLEAN, Authorize(h, origin)
      PROVE  Goal
  <2>1. req[h] # None /\ req[h].stage = "authorize" /\ gate' = gate
    BY <1>2 DEF Authorize, At, budgetVars
  <2>2. gate'[h] = None
    BY <1>0, <2>1 DEF Paired
  <2>3. CASE Answered(h)
    BY <2>1, <2>2, <2>3, AnsweredEnds DEF Paired
  <2>4. CASE Goto(h, "budget")
    <3>1. /\ req' \in [Handlers -> Request \cup {None}]
          /\ req'[h] # None /\ req'[h].stage = "budget"
          /\ \A g \in Handlers : g # h => req'[g] = req[g]
      BY <2>1, <2>4, GotoMoves
    <3>2. QED
      BY <2>1, <2>2, <3>1 DEF Paired
  <2>5. CASE req' = [req EXCEPT ![h].session = TRUE, ![h].stage = "act",
                                ![h].admitted = clock]
    <3> DEFINE let == [req[h] EXCEPT !.session = TRUE, !.stage = "act",
                                     !.admitted = clock]
    <3>1. req[h] \in Request /\ clock \in Int
      BY <2>1, RequestFields DEF BudgetTypeOK
    <3>2. let \in Request /\ let.stage = "act"
      BY <3>1 DEF Request
    <3>3. req' = [req EXCEPT ![h] = let]
      BY <2>5
    <3> HIDE DEF let
    <3>4. /\ req' \in [Handlers -> Request \cup {None}] /\ req'[h] = let
          /\ \A g \in Handlers : g # h => req'[g] = req[g]
      BY <3>2, <3>3 DEF ConsoleTypeOK
    <3>5. QED
      BY <2>1, <2>2, <3>2, <3>4 DEF Paired
  <2>6. QED
    BY <1>2, <2>3, <2>4, <2>5 DEF Authorize
<1>3. CASE Budget(h)
  <2>1. req[h] # None /\ req[h].now \in ReadClock /\ req[h].src \in Sources
        /\ GateCountGlobal(h, req[h].now, req[h].src)
    BY <1>3, RequestFields DEF Budget, At
  <2>2. \A g \in Handlers : g # h => gate'[g] = gate[g]
    BY <2>1, GateMoves
  <2>3. CASE gate'[h] = None /\ Answered(h)
    BY <2>2, <2>3, AnsweredEnds DEF Paired
  <2>4. CASE gate'[h] # None /\ Goto(h, "count")
    <3>1. /\ req' \in [Handlers -> Request \cup {None}]
          /\ req'[h] # None /\ req'[h].stage = "count"
          /\ \A g \in Handlers : g # h => req'[g] = req[g]
      BY <2>1, <2>4, GotoMoves
    <3>2. QED
      BY <2>2, <2>4, <3>1 DEF Paired
  <2>5. QED
    BY <1>3, <2>3, <2>4 DEF Budget
<1>4. CASE Count(h)
  <2>1. req[h] # None /\ GateCountSource(h)
    BY <1>4 DEF Count, At
  <2>2. \A g \in Handlers : g # h => gate'[g] = gate[g]
    BY <2>1, GateMoves
  <2>3. CASE gate'[h] = None /\ Answered(h)
    BY <2>2, <2>3, AnsweredEnds DEF Paired
  <2>4. CASE gate'[h] # None /\ Goto(h, "password")
    <3>1. /\ req' \in [Handlers -> Request \cup {None}]
          /\ req'[h] # None /\ req'[h].stage = "password"
          /\ \A g \in Handlers : g # h => req'[g] = req[g]
      BY <2>1, <2>4, GotoMoves
    <3>2. QED
      BY <2>2, <2>4, <3>1 DEF Paired
  <2>5. QED
    BY <1>4, <2>3, <2>4 DEF Count
<1>5. CASE RefuseOrigin(h) \/ PasswordWrong(h) \/ PasswordWrongUnrecorded(h)
  <2>1. (GatePunish(h) \/ GateLeave(h)) /\ Answered(h)
    BY <1>5 DEF RefuseOrigin, PasswordWrong, PasswordWrongUnrecorded
  <2>2. gate'[h] = None /\ \A g \in Handlers : g # h => gate'[g] = gate[g]
    BY <2>1, GateMoves, GateLeft
  <2>3. QED
    BY <2>1, <2>2, AnsweredEnds DEF Paired
<1>6. CASE PasswordRight(h)
  <2>1. req[h] # None /\ GateLeave(h) /\ Goto(h, "act")
    BY <1>6 DEF PasswordRight, At
  <2>2. gate'[h] = None /\ \A g \in Handlers : g # h => gate'[g] = gate[g]
    BY <2>1, GateMoves, GateLeft
  <2>3. /\ req' \in [Handlers -> Request \cup {None}]
        /\ req'[h] # None /\ req'[h].stage = "act"
        /\ \A g \in Handlers : g # h => req'[g] = req[g]
    BY <2>1, GotoMoves
  <2>4. QED
    BY <2>2, <2>3 DEF Paired
<1>7. CASE (\E token \in AdminTokens : Unlock(h, token)) \/ Act(h)
  <2>1. req[h].stage = "act" /\ gate' = gate /\ Answered(h)
    BY <1>7 DEF Unlock, Act, At, budgetVars
  <2>2. gate'[h] = None
    BY <1>0, <2>1 DEF Paired
  <2>3. QED
    BY <2>1, <2>2, AnsweredEnds DEF Paired
<1>8. CASE Leave(h)
  <2>1. Answered(h) /\ (gate[h] # None => GateLeave(h)) /\ (gate[h] = None => gate' = gate)
    BY <1>8 DEF Leave, budgetVars
  <2>2. gate'[h] = None /\ \A g \in Handlers : g # h => gate'[g] = gate[g]
    BY <2>1, GateMoves, GateLeft
  <2>3. QED
    BY <2>1, <2>2, AnsweredEnds DEF Paired
<1>9. QED
  BY <1>1, <1>2, <1>3, <1>4, <1>5, <1>6, <1>7, <1>8 DEF HandlerStep

LEMMA StepKeepsConsoleTypes ==
    ASSUME BudgetTypeOK, ConsoleTypeOK, RowsInv, [ConsoleNext]_allVars
    PROVE  ConsoleTypeOK'
<1>1. /\ req' \in [Handlers -> Request \cup {None}]
      /\ \A h \in Handlers : Paired(h)'
  <2> DEFINE Goal == /\ req' \in [Handlers -> Request \cup {None}]
                     /\ \A h \in Handlers : Paired(h)'
  <2>1. \A h \in Handlers : Paired(h)
    BY DEF ConsoleTypeOK, Paired
  <2>2. ASSUME UNCHANGED <<req, gate>>
        PROVE  Goal
    BY <2>1, <2>2 DEF Paired, ConsoleTypeOK
  <2>3. ASSUME NEW h \in Handlers, HandlerStep(h)
        PROVE  Goal
    BY <2>1, <2>3, HandlerKeepsTypes DEF Paired
  <2>4. UNCHANGED <<req, gate>> \/ \E h \in Handlers : HandlerStep(h)
    BY DEF ConsoleNext, TimePasses, Tick, Lock, LockFailed, Redemption, RedeemThrottled,
           RedeemGranted, RedeemRefused, allVars, consoleVars, budgetVars
  <2>5. QED
    BY <2>2, <2>3, <2>4
<1>2. /\ \A t \in DOMAIN admin' : t \in AdminTokens /\ admin'[t].expires \in Int
      /\ DOMAIN admin' \subseteq DOMAIN issued'
      /\ locked' \subseteq DOMAIN issued'
  BY StepKeepsRows
<1>3. wrong' \in Nat /\ lost' \in 0..MaxLost
  <2>1. /\ wrong' = wrong \/ wrong' = wrong + 1
        /\ lost' = lost \/ (lost < MaxLost /\ lost' = lost + 1)
    BY DEF ConsoleNext, HandlerStep, TimePasses, Lock, LockFailed, Redemption, Arrive,
           Authorize, Budget, Count, RefuseOrigin, PasswordRight, PasswordWrong,
           PasswordWrongUnrecorded, Unlock, Act, Leave, allVars, consoleVars
  <2>2. QED
    BY <2>1, ConsoleAssumption DEF ConsoleTypeOK
<1>4. arrived' \in 0..MaxRequests
  <2>1. arrived' = arrived \/ (arrived < MaxRequests /\ arrived' = arrived + 1)
    BY DEF ConsoleNext, HandlerStep, TimePasses, Lock, LockFailed, Redemption, Arrive,
           Authorize, Budget, Count, RefuseOrigin, PasswordRight, PasswordWrong,
           PasswordWrongUnrecorded, Unlock, Act, Leave, allVars, consoleVars
  <2>2. QED
    BY <2>1, ConsoleAssumption DEF ConsoleTypeOK
<1>5. QED
  BY <1>1, <1>2, <1>3, <1>4 DEF ConsoleTypeOK, Paired

-----------------------------------------------------------------------------
\* What a request was admitted by cannot be taken back from it: a handler
\* that waits keeps its facts while others lock, unlock and prune.
LEMMA WaitingKeepsRequest ==
    ASSUME [ConsoleNext]_allVars, NEW h \in Handlers, RequestInv(h), req'[h] = req[h]
    PROVE  RequestInv(h)'
BY HistoriesGrow DEF RequestInv

LEMMA HandlerKeepsRequest ==
    ASSUME BudgetTypeOK, ConsoleTypeOK, RowsInv, NEW h \in Handlers, RequestInv(h),
           HandlerStep(h)
    PROVE  RequestInv(h)'
<1>0. [ConsoleNext]_allVars
  BY DEF ConsoleNext
<1>1. ASSUME req'[h] = None
      PROVE  RequestInv(h)'
  BY <1>1 DEF RequestInv
<1>2. ASSUME req[h] # None, ~req[h].session,
             NEW stage \in {"budget", "count", "password", "act"}, Goto(h, stage)
      PROVE  RequestInv(h)'
  <2>1. req'[h].locked = req[h].locked /\ req'[h].session = req[h].session
    BY <1>2, GotoMoves
  <2>2. QED
    BY <1>0, <1>2, <2>1, HistoriesGrow DEF RequestInv
<1>3. ASSUME req[h] # None, req[h].stage # "act"
      PROVE  ~req[h].session
  BY <1>3 DEF RequestInv
<1>4. ASSUME NEW op \in Ops, NEW src \in Sources, NEW token \in AdminTokens \cup {None},
             Arrive(h, op, src, token)
      PROVE  RequestInv(h)'
  <2>1. req'[h].locked = locked /\ req'[h].session = FALSE /\ locked' = locked
    BY <1>4 DEF Arrive, ConsoleTypeOK
  <2>2. QED
    BY <2>1 DEF RequestInv
<1>5. ASSUME NEW origin \in BOOLEAN, Authorize(h, origin)
      PROVE  RequestInv(h)'
  <2>0. req[h] # None /\ req[h].stage = "authorize" /\ req[h].now \in ReadClock
    BY <1>5 DEF Authorize, At
  <2>1. CASE Answered(h)
    BY <1>1, <2>1, AnsweredEnds
  <2>2. CASE Goto(h, "budget")
    BY <1>2, <1>3, <2>0, <2>2
  <2>3. CASE /\ Valid(req[h].token, req[h].now)
             /\ req' = [req EXCEPT ![h].session = TRUE, ![h].stage = "act",
                                   ![h].admitted = clock]
    <3> DEFINE token == req[h].token
    <3>1. req[h] \in Request /\ req \in [Handlers -> Request \cup {None}]
      BY <2>0, RequestFields DEF ConsoleTypeOK
    <3>2. /\ req'[h].token = token /\ req'[h].locked = req[h].locked
          /\ req'[h].session = TRUE /\ req'[h].stage = "act" /\ req'[h].admitted = clock
      BY <2>3, <3>1 DEF Request
    <3>3. /\ token \in DOMAIN admin /\ token \in DOMAIN issued
          /\ req[h].now < admin[token].expires
          /\ admin[token].expires <= issued[token] + AdminSessionTTL
          /\ admin[token].expires \in Int /\ issued[token] \in Int
      BY <2>0, <2>3 DEF Valid, ConsoleTypeOK, RowsInv, RequestInv
    <3>4. token \notin req[h].locked /\ req[h].locked \subseteq locked
      BY <2>0, <3>3 DEF RowsInv, RequestInv
    <3>5. /\ clock \in Int /\ req[h].now \in Int /\ clock - MaxLag <= req[h].now
          /\ MaxLag \in Int /\ AdminSessionTTL \in Int
      BY <2>0, BudgetAssumption, ConsoleAssumption DEF ReadClock, BudgetTypeOK
    <3>6. clock < issued[token] + AdminSessionTTL + MaxLag
      BY <3>3, <3>5
    <3>7. locked' = locked /\ issued' = issued
      BY <1>5 DEF Authorize
    <3>8. QED
      BY <3>2, <3>3, <3>4, <3>6, <3>7 DEF RequestInv
  <2>4. QED
    BY <1>5, <2>1, <2>2, <2>3 DEF Authorize
<1>6. CASE Budget(h)
  BY <1>1, <1>2, <1>3, <1>6, AnsweredEnds DEF Budget, At
<1>7. CASE Count(h)
  BY <1>1, <1>2, <1>3, <1>7, AnsweredEnds DEF Count, At
<1>8. CASE PasswordRight(h)
  BY <1>2, <1>3, <1>8 DEF PasswordRight, At
<1>9. CASE \/ RefuseOrigin(h) \/ PasswordWrong(h) \/ PasswordWrongUnrecorded(h)
           \/ (\E token \in AdminTokens : Unlock(h, token)) \/ Act(h) \/ Leave(h)
  <2>1. Answered(h)
    BY <1>9 DEF RefuseOrigin, PasswordWrong, PasswordWrongUnrecorded, Unlock, Act, Leave
  <2>2. QED
    BY <1>1, <2>1, AnsweredEnds
<1>10. QED
  BY <1>4, <1>5, <1>6, <1>7, <1>8, <1>9 DEF HandlerStep

LEMMA ConsoleInvInit == ConsoleInit => ConsoleInv
<1> SUFFICES ASSUME ConsoleInit PROVE ConsoleInv
  OBVIOUS
<1>1. BudgetTypeOK /\ PrunedAreOld
  BY BudgetInvInit DEF ConsoleInit, BudgetInv
<1>2. DOMAIN admin = {} /\ DOMAIN issued = {} /\ locked = {}
  BY DEF ConsoleInit
<1>3. ConsoleTypeOK
  BY <1>2, ConsoleAssumption DEF ConsoleInit, BudgetInit, ConsoleTypeOK
<1>4. Numbered /\ WrongAnswersAreCharged
  <2>1. refusals = {} /\ wrong = 0 /\ lost = 0
    BY DEF ConsoleInit, BudgetInit
  <2>2. Cardinality(refusals) = 0
    BY <2>1, FS_EmptySet
  <2>3. QED
    BY <2>1, <2>2 DEF Numbered, WrongAnswersAreCharged
<1>5. RowsInv /\ \A h \in Handlers : RequestInv(h)
  BY <1>2 DEF ConsoleInit, RowsInv, RequestInv
<1>6. QED
  BY <1>1, <1>3, <1>4, <1>5 DEF ConsoleInv

LEMMA ConsoleInvStep == ConsoleInv /\ [ConsoleNext]_allVars => ConsoleInv'
<1> SUFFICES ASSUME ConsoleInv, [ConsoleNext]_allVars PROVE ConsoleInv'
  OBVIOUS
<1> USE DEF ConsoleInv
<1>1. BudgetTypeOK' /\ PrunedAreOld'
  BY StepIsGateStep, StepKeepsTypes
<1>2. ConsoleTypeOK'
  BY StepKeepsConsoleTypes
<1>3. Numbered' /\ WrongAnswersAreCharged'
  BY StepKeepsCharges
<1>4. RowsInv'
  BY StepKeepsRows
<1>5. ASSUME NEW h \in Handlers
      PROVE  RequestInv(h)'
  <2>1. CASE HandlerStep(h)
    BY <2>1, HandlerKeepsRequest
  <2>2. ASSUME NEW g \in Handlers, g # h, HandlerStep(g)
        PROVE  req'[h] = req[h]
    BY <2>2, HandlerKeepsTypes
  <2>3. (\E g \in Handlers : HandlerStep(g)) \/ req' = req
    BY DEF ConsoleNext, TimePasses, Lock, LockFailed, Redemption, allVars, consoleVars
  <2>4. QED
    BY <2>1, <2>2, <2>3, WaitingKeepsRequest
<1>6. QED
  BY <1>1, <1>2, <1>3, <1>4, <1>5

(***************************************************************************)
(* Requests, sessions and the budget of the console's database agree in    *)
(* every state, whatever the handlers do between their checks.             *)
(***************************************************************************)
THEOREM ConsoleInvariance == ConsoleSpec => []ConsoleInv
<1>1. ConsoleInit => ConsoleInv
  BY ConsoleInvInit
<1>2. ConsoleInv /\ [ConsoleNext]_allVars => ConsoleInv'
  BY ConsoleInvStep
<1>3. QED
  BY <1>1, <1>2, PTL DEF ConsoleSpec

(***************************************************************************)
(* However many handlers and redemptions overlap, the failures recorded     *)
(* and those the database did not take are the wrong answers given: no row  *)
(* is ever taken for another, and none is added for anything else.          *)
(***************************************************************************)
THEOREM EachWrongAnswerIsChargedOnce == ConsoleSpec => []WrongAnswersAreCharged
BY ConsoleInvariance, PTL DEF ConsoleInv

(***************************************************************************)
(* A token is never issued again and its row never comes back once it was   *)
(* locked (web.rs, frankendrop_lock), so no request made after the lock is  *)
(* admitted by it.                                                          *)
(***************************************************************************)
THEOREM LockedStaysLocked == ConsoleSpec => []LockedSessionsStayOut
<1>1. ConsoleInv => LockedSessionsStayOut
  BY DEF ConsoleInv, RequestInv, LockedSessionsStayOut, At
<1>2. QED
  BY <1>1, ConsoleInvariance, PTL

(***************************************************************************)
(* validate_admin_session admits a token for at most its lifetime and the   *)
(* lag of one reading of the clock after it was issued.                     *)
(***************************************************************************)
THEOREM SessionsComeToAnEnd == ConsoleSpec => []SessionsEnd
<1>1. ConsoleInv => SessionsEnd
  BY DEF ConsoleInv, RequestInv, SessionsEnd, At
<1>2. QED
  BY <1>1, ConsoleInvariance, PTL

(***************************************************************************)
(* The handlers of the console are clients of the failure budget like any   *)
(* other: whatever else they check and in whatever order.                   *)
(***************************************************************************)
THEOREM ConsoleImplementsGate == ConsoleSpec => ImplementsGate
<1>1. ConsoleInv /\ [ConsoleNext]_allVars => [BudgetNext]_budgetVars
  BY StepIsGateStep DEF ConsoleInv
<1>2. QED
  BY <1>1, ConsoleInvariance, PTL DEF ConsoleSpec, ImplementsGate

(***************************************************************************)
(* So the bounds of the failure budget hold of the console's database.      *)
(***************************************************************************)
THEOREM ConsoleKeepsTheBudget == ConsoleSpec => []WindowBound
<1>1. ConsoleInit => BudgetInit
  BY DEF ConsoleInit
<1>2. ConsoleSpec => BudgetSpec
  BY <1>1, ConsoleImplementsGate, PTL DEF ConsoleSpec, ImplementsGate, BudgetSpec
<1>3. QED
  BY <1>2, WindowsAreBounded, PTL

-----------------------------------------------------------------------------
(***************************************************************************)
(* The registry of drops.                                                   *)
(***************************************************************************)
\* What the histories have to do with the tables.
Recorded ==
    /\ Stored \subseteq published
    /\ \A t \in Tokens : holder[t] # None => holder[t] \in published

\* Each safety invariant needs the others: a session ends with its drop
\* because the cascade keeps its drop in the table, a count is exact because
\* no identifier is published twice.
RegistryInv ==
    /\ TypeOK
    /\ PrunedAreOld
    /\ Recorded
    /\ CodesUnique
    /\ SessionScoped
    /\ RevokedDropHasNoLiveSession
    /\ RedemptionsBounded

-----------------------------------------------------------------------------
(***************************************************************************)
(* Every transaction of the registry is a step of the failure budget.       *)
(***************************************************************************)
LEMMA StepIsBudgetStep == [Next]_vars => [BudgetNext]_budgetVars
<1> SUFFICES ASSUME [Next]_vars PROVE [BudgetNext]_budgetVars
  OBVIOUS
<1> USE DEF BudgetNext
<1>1. CASE Tick /\ UNCHANGED registryVars
  BY <1>1
<1>2. CASE GateStep /\ UNCHANGED registryVars
  BY <1>2
<1>3. CASE PublicationStep
  BY <1>3 DEF PublicationStep, AllocateCode, Abandon, Publish, Reissue
<1>4. ASSUME NEW now \in ReadClock, NEW src \in Sources,
             NEW code \in Codes \cup {None}, RedeemRejected(now, src, code)
      PROVE  BudgetNext
  BY <1>4 DEF RedeemRejected
<1>5. ASSUME NEW now \in ReadClock, NEW src \in Sources,
             NEW code \in Codes \cup {None}, NEW d \in Drops, NEW t \in Tokens,
             RedeemAccepted(now, src, code, d, t)
      PROVE  BudgetNext
  BY <1>5 DEF RedeemAccepted
<1>6. CASE \E d \in Drops, now \in ReadClock : Revoke(d, now)
  BY <1>6 DEF Revoke
<1>7. CASE RetentionStep
  BY <1>7 DEF RetentionStep, ApplyRetention
<1>8. CASE UNCHANGED vars
  BY <1>8 DEF vars
<1>9. QED
  BY <1>1, <1>2, <1>3, <1>4, <1>5, <1>6, <1>7, <1>8 DEF Next, RedemptionStep

(***************************************************************************)
(* So the registry implements the budget, and inherits its bounds.          *)
(***************************************************************************)
THEOREM RegistryImplementsBudget == Spec => ImplementsBudget
<1>1. Init => BudgetInit
  BY DEF Init
<1>2. [Next]_vars => [BudgetNext]_budgetVars
  BY StepIsBudgetStep
<1>3. QED
  BY <1>1, <1>2, PTL DEF Spec, BudgetSpec, ImplementsBudget

-----------------------------------------------------------------------------
(***************************************************************************)
(* The reading of a clock is a number, and absent is none.                  *)
(***************************************************************************)
LEMMA ReadingType ==
    ASSUME TypeOK
    PROVE  ReadClock \subseteq Int /\ None \notin ReadClock
BY BudgetAssumption, NoneAssumption DEF ReadClock, TypeOK, BudgetTypeOK

(***************************************************************************)
(* A stored row is a row, and so is an issued one.                          *)
(***************************************************************************)
LEMMA RowTypes ==
    ASSUME TypeOK
    PROVE  /\ \A d \in Stored : drops[d] \in DropRow
           /\ \A t \in Issued : sessions[t] \in SessionRow
BY DEF TypeOK, Stored, Issued

(***************************************************************************)
(* The tokens issued for a drop are finitely many.                          *)
(***************************************************************************)
LEMMA HoldersAreFinite ==
    ASSUME NEW d
    PROVE  IsFiniteSet(HeldBy(d)) /\ Cardinality(HeldBy(d)) \in Nat
BY SubsetSize, RegistryAssumption DEF HeldBy

LEMMA RegistryInvInit == Init => RegistryInv
<1> SUFFICES ASSUME Init PROVE RegistryInv
  OBVIOUS
<1>1. BudgetTypeOK /\ PrunedAreOld
  BY BudgetInvInit DEF Init, BudgetInv
<1>2. TypeOK
  BY <1>1 DEF Init, TypeOK
<1>3. Stored = {} /\ Issued = {}
  BY DEF Init, Stored, Issued
<1>4. QED
  BY <1>1, <1>2, <1>3
     DEF RegistryInv, Recorded, CodesUnique, SessionScoped,
         RevokedDropHasNoLiveSession, RedemptionsBounded, Init

(***************************************************************************)
(* The invariants other than the types speak of drops, sessions and         *)
(* histories only: a step that leaves these alone keeps them.               *)
(***************************************************************************)
LEMMA TablesUntouched ==
    ASSUME RegistryInv,
           UNCHANGED <<drops, sessions, published, holder>>
    PROVE  /\ Recorded' /\ CodesUnique' /\ SessionScoped'
           /\ RevokedDropHasNoLiveSession' /\ RedemptionsBounded'
BY DEF RegistryInv, Recorded, CodesUnique, SessionScoped,
       RevokedDropHasNoLiveSession, RedemptionsBounded, Stored, Issued, HeldBy

LEMMA PublishKeepsInv ==
    ASSUME RegistryInv, BudgetTypeOK', PrunedAreOld',
           NEW a \in Allocators, NEW d \in Drops, NEW now \in ReadClock,
           NEW codeTTL \in CodeTTLs, NEW dropTTL \in DropTTLs, NEW max \in Limits,
           Publish(a, d, now, codeTTL, dropTTL, max)
    PROVE  RegistryInv'
<1> USE RegistryAssumption, NoneAssumption DEF RegistryInv
<1> DEFINE row == NewDrop(alloc[a], now, codeTTL, dropTTL, max)
<1>1. row \in DropRow
  BY ReadingType DEF Publish, NewDrop, DropRow, TypeOK
<1>2. /\ drops' = [drops EXCEPT ![d] = row]
      /\ alloc' = [alloc EXCEPT ![a] = None]
      /\ published' = published \cup {d}
      /\ sessions' = sessions /\ holder' = holder
      /\ d \notin published /\ d \notin Stored /\ ~CodeInUse(alloc[a])
  BY DEF Publish, Recorded
<1>3. TypeOK'
  BY <1>1, <1>2 DEF TypeOK
<1>4. /\ Stored' = Stored \cup {d}
      /\ Issued' = Issued
      /\ drops'[d] = row
      /\ row.code = alloc[a] /\ row.count = 0 /\ row.max = max
      /\ \A e \in Stored : e # d /\ drops'[e] = drops[e]
  BY <1>1, <1>2 DEF Stored, Issued, TypeOK, NewDrop
<1>5. Recorded'
  BY <1>2, <1>4 DEF Recorded
<1>6. CodesUnique'
  BY <1>2, <1>4 DEF CodesUnique, CodeInUse
<1>7. SessionScoped' /\ RevokedDropHasNoLiveSession'
  BY <1>2, <1>4 DEF SessionScoped, RevokedDropHasNoLiveSession
<1>8. RedemptionsBounded'
  <2> SUFFICES ASSUME NEW e \in Stored'
               PROVE  /\ drops'[e].count = Cardinality(HeldBy(e)')
                      /\ drops'[e].max # None => drops'[e].count <= drops'[e].max
    BY DEF RedemptionsBounded
  <2>1. HeldBy(e)' = HeldBy(e)
    BY <1>2 DEF HeldBy
  <2>2. CASE e = d
    <3>1. HeldBy(e) = {}
      BY <1>2, <2>2, NoneAssumption DEF HeldBy, Recorded, TypeOK
    <3>2. Cardinality({}) = 0
      BY FS_EmptySet
    <3>3. QED
      BY <1>4, <2>1, <2>2, <3>1, <3>2
  <2>3. CASE e # d
    BY <1>4, <2>1, <2>3 DEF RedemptionsBounded
  <2>4. QED
    BY <2>2, <2>3
<1>9. QED
  BY <1>3, <1>5, <1>6, <1>7, <1>8

LEMMA ReissueKeepsInv ==
    ASSUME RegistryInv, BudgetTypeOK', PrunedAreOld',
           NEW a \in Allocators, NEW d \in Drops, NEW now \in ReadClock,
           NEW ttl \in CodeTTLs, Reissue(a, d, now, ttl)
    PROVE  RegistryInv'
<1> USE RegistryAssumption, NoneAssumption DEF RegistryInv
<1>1. /\ d \in Stored /\ drops[d] \in DropRow
      /\ ReissuedExpiry(d, now, ttl) \in Int
      /\ alloc[a] \in Codes
  BY ReadingType, RowTypes DEF Reissue, Active, ReissuedExpiry, Least, DropRow, TypeOK
<1> DEFINE row == [drops[d] EXCEPT !.code = alloc[a],
                                   !.codeExpires = ReissuedExpiry(d, now, ttl)]
<1>2. /\ drops' = [drops EXCEPT ![d] = row]
      /\ alloc' = [alloc EXCEPT ![a] = None]
      /\ UNCHANGED <<sessions, published, holder>>
      /\ \A e \in Stored \ {d} : drops[e].code # alloc[a]
  BY DEF Reissue
<1>3. /\ row \in DropRow
      /\ row.code = alloc[a] /\ row.count = drops[d].count
      /\ row.max = drops[d].max /\ row.expires = drops[d].expires
      /\ row.revoked = drops[d].revoked
  BY <1>1 DEF DropRow
<1> HIDE DEF row
<1>4. TypeOK'
  BY <1>2, <1>3 DEF TypeOK
<1>5. /\ Stored' = Stored
      /\ Issued' = Issued
      /\ drops'[d] = row
      /\ \A e \in Drops : e # d => drops'[e] = drops[e]
  BY <1>1, <1>2, <1>3 DEF Stored, Issued, TypeOK
<1>6. Recorded'
  BY <1>2, <1>5 DEF Recorded
<1>7. CodesUnique'
  BY <1>2, <1>3, <1>5 DEF CodesUnique, Stored
<1>8. SessionScoped'
  BY <1>2, <1>3, <1>5 DEF SessionScoped, Stored
<1>9. RevokedDropHasNoLiveSession'
  BY <1>2, <1>3, <1>5 DEF SessionScoped, RevokedDropHasNoLiveSession, Stored
<1>10. RedemptionsBounded'
  <2>1. \A e \in Drops : HeldBy(e)' = HeldBy(e)
    BY <1>2 DEF HeldBy
  <2>2. \A e \in Stored : /\ drops'[e].count = drops[e].count
                          /\ drops'[e].max = drops[e].max
    BY <1>3, <1>5 DEF Stored
  <2>3. QED
    BY <1>5, <2>1, <2>2 DEF RedemptionsBounded, Stored
<1>11. QED
  BY <1>4, <1>6, <1>7, <1>8, <1>9, <1>10

(***************************************************************************)
(* Pruning only removes session rows.                                       *)
(***************************************************************************)
LEMMA PruningSessions ==
    ASSUME TypeOK, NEW cutoff \in Int
    PROVE  /\ SessionsSince(cutoff) \in [Tokens -> SessionRow \cup {None}]
           /\ \A t \in Tokens : SessionsSince(cutoff)[t] # None =>
                 t \in Issued /\ SessionsSince(cutoff)[t] = sessions[t]
BY DEF TypeOK, SessionsSince, Issued

LEMMA RejectionKeepsInv ==
    ASSUME RegistryInv, BudgetTypeOK', PrunedAreOld',
           NEW now \in ReadClock, NEW src \in Sources,
           NEW code \in Codes \cup {None}, RedeemRejected(now, src, code)
    PROVE  RegistryInv'
<1> USE RegistryAssumption DEF RegistryInv
<1>1. /\ sessions' = SessionsSince(now - SessionGrace)
      /\ UNCHANGED <<drops, alloc, published, holder>>
  BY DEF RedeemRejected
<1>2. now - SessionGrace \in Int
  BY ReadingType
<1>3. /\ sessions' \in [Tokens -> SessionRow \cup {None}]
      /\ \A t \in Tokens : sessions'[t] # None =>
            t \in Issued /\ sessions'[t] = sessions[t]
  BY <1>1, <1>2, PruningSessions
<1>4. TypeOK'
  BY <1>1, <1>3 DEF TypeOK
<1>5. Stored' = Stored /\ \A d : HeldBy(d)' = HeldBy(d)
  BY <1>1 DEF Stored, HeldBy
<1>6. Recorded' /\ CodesUnique' /\ RedemptionsBounded'
  BY <1>1, <1>5 DEF Recorded, CodesUnique, RedemptionsBounded
<1>7. SessionScoped' /\ RevokedDropHasNoLiveSession'
  BY <1>1, <1>3, <1>5 DEF SessionScoped, RevokedDropHasNoLiveSession, Issued
<1>8. QED
  BY <1>4, <1>6, <1>7

LEMMA AcceptanceKeepsInv ==
    ASSUME RegistryInv, BudgetTypeOK', PrunedAreOld',
           NEW now \in ReadClock, NEW src \in Sources,
           NEW code \in Codes \cup {None}, NEW d \in Drops, NEW t \in Tokens,
           RedeemAccepted(now, src, code, d, t)
    PROVE  RegistryInv'
<1> USE RegistryAssumption, NoneAssumption DEF RegistryInv
<1> DEFINE session == [drop |-> d, created |-> now,
                       expires |-> SessionExpiry(d, now), revoked |-> None]
           row == [drops[d] EXCEPT !.count = @ + 1]
           kept == SessionsSince(now - SessionGrace)
<1>1. /\ sessions' = [kept EXCEPT ![t] = session]
      /\ drops' = [drops EXCEPT ![d] = row]
      /\ holder' = [holder EXCEPT ![t] = d]
      /\ UNCHANGED <<alloc, published>>
      /\ holder[t] = None
      /\ Active(d, now)
      /\ drops[d].max # None => drops[d].count < drops[d].max
  BY DEF RedeemAccepted, Redeemable
<1>2. /\ d \in Stored /\ drops[d] \in DropRow /\ drops[d].revoked = None
      /\ SessionExpiry(d, now) \in Int
      /\ SessionExpiry(d, now) <= drops[d].expires
      /\ now - SessionGrace \in Int
  BY <1>1, ReadingType, RowTypes DEF Active, SessionExpiry, Least, DropRow
<1>3. /\ row \in DropRow
      /\ row.code = drops[d].code /\ row.count = drops[d].count + 1
      /\ row.max = drops[d].max /\ row.expires = drops[d].expires
      /\ row.revoked = None
  BY <1>2 DEF DropRow
<1>4. /\ session \in SessionRow
      /\ session.drop = d /\ session.revoked = None
      /\ session.expires <= drops[d].expires
  BY <1>2, ReadingType DEF SessionRow
<1>5. /\ kept \in [Tokens -> SessionRow \cup {None}]
      /\ \A u \in Tokens : kept[u] # None => u \in Issued /\ kept[u] = sessions[u]
  BY <1>2, PruningSessions
<1> HIDE DEF session, row, kept
<1>6. TypeOK'
  BY <1>1, <1>3, <1>4, <1>5 DEF TypeOK
<1>7. /\ Stored' = Stored
      /\ drops'[d] = row
      /\ \A e \in Drops : e # d => drops'[e] = drops[e]
      /\ sessions'[t] = session /\ t \in Issued'
      /\ \A u \in Issued' : u # t => u \in Issued /\ sessions'[u] = sessions[u]
  BY <1>1, <1>2, <1>3, <1>4, <1>5 DEF Stored, Issued, TypeOK
<1>8. Recorded'
  BY <1>1, <1>2, <1>7 DEF Recorded, TypeOK
<1>9. CodesUnique'
  BY <1>3, <1>7 DEF CodesUnique, Stored
<1>10. SessionScoped'
  <2>1. \A u \in Tokens : holder'[u] = IF u = t THEN d ELSE holder[u]
    BY <1>1 DEF TypeOK
  <2>2. \A e \in Stored : drops'[e].expires = drops[e].expires
    BY <1>3, <1>7 DEF Stored
  <2>3. QED
    BY <1>2, <1>4, <1>7, <2>1, <2>2 DEF SessionScoped, Issued
<1>11. RevokedDropHasNoLiveSession'
  <2>1. \A e \in Stored : drops'[e].revoked = drops[e].revoked
    BY <1>2, <1>3, <1>7 DEF Stored
  <2>2. QED
    BY <1>2, <1>4, <1>7, <2>1 DEF RevokedDropHasNoLiveSession, SessionScoped
<1>12. RedemptionsBounded'
  <2> SUFFICES ASSUME NEW e \in Stored'
               PROVE  /\ drops'[e].count = Cardinality(HeldBy(e)')
                      /\ drops'[e].max # None => drops'[e].count <= drops'[e].max
    BY DEF RedemptionsBounded
  <2>1. CASE e = d
    <3>1. HeldBy(d)' = HeldBy(d) \cup {t} /\ t \notin HeldBy(d)
      BY <1>1 DEF HeldBy, TypeOK
    <3>2. Cardinality(HeldBy(d) \cup {t}) = Cardinality(HeldBy(d)) + 1
      BY <3>1, HoldersAreFinite, FS_AddElement
    <3>3. drops[d].count = Cardinality(HeldBy(d))
      BY <1>2 DEF RedemptionsBounded
    <3>4. drops[d].count \in Nat /\ drops[d].max \in Nat \cup {None}
      BY <1>2 DEF DropRow
    <3>5. QED
      BY <1>1, <1>3, <1>7, <2>1, <3>1, <3>2, <3>3, <3>4
  <2>2. CASE e # d
    <3>1. e \in Drops /\ e # None
      BY DEF Stored
    <3>2. HeldBy(e)' = HeldBy(e)
      BY <1>1, <2>2, <3>1 DEF HeldBy, TypeOK
    <3>3. QED
      BY <1>7, <2>2, <3>2 DEF RedemptionsBounded, Stored
  <2>3. QED
    BY <2>1, <2>2
<1>13. QED
  BY <1>6, <1>8, <1>9, <1>10, <1>11, <1>12

LEMMA RevocationKeepsInv ==
    ASSUME RegistryInv, BudgetTypeOK', PrunedAreOld',
           NEW d \in Drops, NEW now \in ReadClock, Revoke(d, now)
    PROVE  RegistryInv'
<1> USE NoneAssumption DEF RegistryInv
<1> DEFINE row == [drops[d] EXCEPT !.revoked = now]
<1>0. now \in Int /\ now # None
  BY ReadingType
<1>1. /\ d \in Stored /\ drops[d] \in DropRow
      /\ drops' = [drops EXCEPT ![d] = row]
      /\ sessions' = RevokeSessions(d, now)
      /\ UNCHANGED <<alloc, published, holder>>
  BY RowTypes DEF Revoke
<1>2. /\ row \in DropRow
      /\ row.code = drops[d].code /\ row.count = drops[d].count
      /\ row.max = drops[d].max /\ row.expires = drops[d].expires
  BY <1>0, <1>1 DEF DropRow
<1> HIDE DEF row
<1>3. \A t \in Issued :
         /\ [sessions[t] EXCEPT !.revoked = now] \in SessionRow
         /\ [sessions[t] EXCEPT !.revoked = now].drop = sessions[t].drop
         /\ [sessions[t] EXCEPT !.revoked = now].expires = sessions[t].expires
         /\ [sessions[t] EXCEPT !.revoked = now].revoked = now
  BY <1>0, RowTypes DEF SessionRow
<1>4. /\ sessions' \in [Tokens -> SessionRow \cup {None}]
      /\ Issued' = Issued
      /\ \A t \in Issued :
            /\ sessions'[t].drop = sessions[t].drop
            /\ sessions'[t].expires = sessions[t].expires
            /\ sessions[t].drop = d => sessions'[t].revoked # None
            /\ sessions[t].drop # d => sessions'[t] = sessions[t]
  BY <1>0, <1>1, <1>3 DEF RevokeSessions, Issued, TypeOK
<1>5. TypeOK'
  BY <1>1, <1>2, <1>4 DEF TypeOK
<1>6. /\ Stored' = Stored
      /\ drops'[d] = row
      /\ \A e \in Drops : e # d => drops'[e] = drops[e]
      /\ \A e : HeldBy(e)' = HeldBy(e)
  BY <1>1, <1>2 DEF Stored, TypeOK, HeldBy
<1>7. Recorded'
  BY <1>1, <1>6 DEF Recorded
<1>8. CodesUnique'
  BY <1>2, <1>6 DEF CodesUnique, Stored
<1>9. SessionScoped'
  BY <1>1, <1>2, <1>4, <1>6 DEF SessionScoped, Stored
<1>10. RevokedDropHasNoLiveSession'
  BY <1>4, <1>6 DEF RevokedDropHasNoLiveSession, SessionScoped, Stored
<1>11. RedemptionsBounded'
  BY <1>2, <1>6 DEF RedemptionsBounded, Stored
<1>12. QED
  BY <1>5, <1>7, <1>8, <1>9, <1>10, <1>11

LEMMA RetentionKeepsInv ==
    ASSUME RegistryInv, BudgetTypeOK', PrunedAreOld',
           NEW now \in ReadClock, NEW retention \in Retentions,
           ApplyRetention(now, retention)
    PROVE  RegistryInv'
<1> USE RegistryAssumption DEF RegistryInv
<1> DEFINE gone(d) == Purgeable(d, now - retention)
<1>1. /\ drops' = [d \in Drops |-> IF gone(d) THEN None ELSE drops[d]]
      /\ sessions' = [t \in Tokens |->
                         IF t \in Issued /\ gone(sessions[t].drop)
                         THEN None ELSE SessionsSince(now)[t]]
      /\ UNCHANGED <<alloc, published, holder>>
  BY DEF ApplyRetention
<1>2. /\ SessionsSince(now) \in [Tokens -> SessionRow \cup {None}]
      /\ \A t \in Tokens : SessionsSince(now)[t] # None =>
            t \in Issued /\ SessionsSince(now)[t] = sessions[t]
  BY ReadingType, PruningSessions
<1> HIDE DEF gone
<1>3. TypeOK'
  BY <1>1, <1>2 DEF TypeOK
<1>4. \A d \in Stored' : d \in Stored /\ drops'[d] = drops[d]
  BY <1>1 DEF Stored
<1>5. \A d \in Stored : d \in Stored' \/ gone(d)
  BY <1>1 DEF Stored
<1>6. \A t \in Issued' :
         t \in Issued /\ sessions'[t] = sessions[t] /\ ~gone(sessions[t].drop)
  BY <1>1, <1>2 DEF Issued
<1>7. Recorded' /\ CodesUnique'
  BY <1>1, <1>4 DEF Recorded, CodesUnique
<1>8. SessionScoped'
  BY <1>1, <1>4, <1>5, <1>6 DEF SessionScoped
<1>9. RevokedDropHasNoLiveSession'
  BY <1>4, <1>5, <1>6 DEF RevokedDropHasNoLiveSession, SessionScoped
<1>10. RedemptionsBounded'
  BY <1>1, <1>4 DEF RedemptionsBounded, HeldBy
<1>11. QED
  BY <1>3, <1>7, <1>8, <1>9, <1>10

-----------------------------------------------------------------------------
(***************************************************************************)
(* Every step keeps the invariant.                                          *)
(***************************************************************************)
LEMMA RegistryInvStep == RegistryInv /\ [Next]_vars => RegistryInv'
<1> SUFFICES ASSUME RegistryInv, [Next]_vars PROVE RegistryInv'
  OBVIOUS
<1>1. BudgetTypeOK' /\ PrunedAreOld'
  BY StepIsBudgetStep, StepKeepsTypes DEF RegistryInv, TypeOK
<1>2. ASSUME UNCHANGED registryVars
      PROVE  RegistryInv'
  BY <1>1, <1>2, TablesUntouched DEF registryVars, RegistryInv, TypeOK
<1>3. ASSUME NEW a \in Allocators, NEW code \in Codes, AllocateCode(a, code)
      PROVE  RegistryInv'
  BY <1>1, <1>3, TablesUntouched DEF AllocateCode, RegistryInv, TypeOK
<1>4. ASSUME NEW a \in Allocators, Abandon(a)
      PROVE  RegistryInv'
  BY <1>1, <1>4, TablesUntouched DEF Abandon, RegistryInv, TypeOK
<1>5. CASE PublicationStep
  BY <1>1, <1>3, <1>4, <1>5, PublishKeepsInv, ReissueKeepsInv DEF PublicationStep
<1>6. CASE RedemptionStep
  BY <1>1, <1>6, RejectionKeepsInv, AcceptanceKeepsInv DEF RedemptionStep
<1>7. CASE \E d \in Drops, now \in ReadClock : Revoke(d, now)
  BY <1>1, <1>7, RevocationKeepsInv
<1>8. CASE RetentionStep
  BY <1>1, <1>8, RetentionKeepsInv DEF RetentionStep
<1>9. QED
  BY <1>2, <1>5, <1>6, <1>7, <1>8 DEF Next, vars

(***************************************************************************)
(* The tables of the registry agree with each other and with what was      *)
(* published and issued, after every transaction.                          *)
(***************************************************************************)
THEOREM RegistryInvariance == Spec => []RegistryInv
<1>1. Init => RegistryInv
  BY RegistryInvInit
<1>2. RegistryInv /\ [Next]_vars => RegistryInv'
  BY RegistryInvStep
<1>3. QED
  BY <1>1, <1>2, PTL DEF Spec

(***************************************************************************)
(* The tables always hold rows of their types.                              *)
(***************************************************************************)
THEOREM TypeCorrect == Spec => []TypeOK
<1>1. RegistryInv => TypeOK
  BY DEF RegistryInv
<1>2. QED
  BY <1>1, RegistryInvariance, PTL

(***************************************************************************)
(* A code opens at most one drop, however publications and reissues race.   *)
(***************************************************************************)
THEOREM CodesAreUnique == Spec => []CodesUnique
<1>1. RegistryInv => CodesUnique
  BY DEF RegistryInv
<1>2. QED
  BY <1>1, RegistryInvariance, PTL

(***************************************************************************)
(* No session row outlives its drop.                                        *)
(***************************************************************************)
THEOREM SessionsAreScoped == Spec => []SessionScoped
<1>1. RegistryInv => SessionScoped
  BY DEF RegistryInv
<1>2. QED
  BY <1>1, RegistryInvariance, PTL

(***************************************************************************)
(* Revoking a drop leaves no session of it usable.                          *)
(***************************************************************************)
THEOREM RevocationIsComplete == Spec => []RevokedDropHasNoLiveSession
<1>1. RegistryInv => RevokedDropHasNoLiveSession
  BY DEF RegistryInv
<1>2. QED
  BY <1>1, RegistryInvariance, PTL

(***************************************************************************)
(* A drop is never redeemed more often than max_redemptions allows.         *)
(***************************************************************************)
THEOREM RedemptionsAreBounded == Spec => []RedemptionsBounded
<1>1. RegistryInv => RedemptionsBounded
  BY DEF RegistryInv
<1>2. QED
  BY <1>1, RegistryInvariance, PTL

-----------------------------------------------------------------------------
(***************************************************************************)
(* What a transaction may do to a row that is there before and after it,    *)
(* and which rows it may add.  Revocations, expiries and owners are for     *)
(* good, and no identifier or token is used twice.                          *)
(***************************************************************************)
RowsGoOn ==
    /\ clock <= clock'
    /\ published \subseteq published'
    /\ \A d \in Stored' \cap Stored :
          /\ drops'[d].created = drops[d].created
          /\ drops'[d].expires = drops[d].expires
          /\ drops[d].revoked # None => drops'[d].revoked # None
    /\ \A t \in Issued' \cap Issued :
          /\ sessions'[t].drop = sessions[t].drop
          /\ sessions'[t].expires = sessions[t].expires
          /\ sessions[t].revoked # None => sessions'[t].revoked # None
    /\ \A d \in Stored' \ Stored : d \in published' \ published
    /\ \A t \in Issued' \ Issued : holder'[t] # holder[t]

LEMMA ClockGoesOn ==
    ASSUME TypeOK, [Next]_vars
    PROVE  clock \in Int /\ clock' \in Int /\ clock <= clock'
<1>1. clock \in Int
  BY DEF TypeOK, BudgetTypeOK
<1>2. clock' = clock \/ clock' = clock + 1
  <2>1. CASE Tick
    BY <2>1 DEF Tick
  <2>2. CASE GateStep
    BY <2>2 DEF GateStep, GateCountGlobal, GateCountSource, GatePunish, GateLeave
  <2>3. CASE PublicationStep
    BY <2>3 DEF PublicationStep, AllocateCode, Abandon, Publish, Reissue, budgetVars
  <2>4. CASE RedemptionStep
    BY <2>4 DEF RedemptionStep, RedeemRejected, RedeemAccepted, RedeemThrottled,
                RedeemRefused, RedeemGranted
  <2>5. CASE \E d \in Drops, now \in ReadClock : Revoke(d, now)
    BY <2>5 DEF Revoke, budgetVars
  <2>6. CASE RetentionStep
    BY <2>6 DEF RetentionStep, ApplyRetention, budgetVars
  <2>7. CASE UNCHANGED vars
    BY <2>7 DEF vars, budgetVars
  <2> QED BY <2>1, <2>2, <2>3, <2>4, <2>5, <2>6, <2>7 DEF Next
<1>3. QED
  BY <1>1, <1>2

LEMMA EveryStepLetsRowsGoOn ==
    ASSUME RegistryInv, [Next]_vars
    PROVE  RowsGoOn
<1> USE RegistryAssumption, NoneAssumption DEF RegistryInv
<1>0. clock \in Int /\ clock' \in Int /\ clock <= clock'
  BY ClockGoesOn
<1>1. ASSUME UNCHANGED <<drops, sessions, published>> PROVE RowsGoOn
  BY <1>0, <1>1 DEF RowsGoOn, Stored, Issued
<1>2. CASE \/ Tick /\ UNCHANGED registryVars
           \/ GateStep /\ UNCHANGED registryVars
           \/ UNCHANGED vars
  BY <1>1, <1>2 DEF vars, registryVars
<1>3. ASSUME NEW a \in Allocators,
             (\E code \in Codes : AllocateCode(a, code)) \/ Abandon(a)
      PROVE  RowsGoOn
  BY <1>1, <1>3 DEF AllocateCode, Abandon
<1>4. ASSUME NEW a \in Allocators, NEW d \in Drops, NEW now \in ReadClock,
             NEW codeTTL \in CodeTTLs, NEW dropTTL \in DropTTLs, NEW max \in Limits,
             Publish(a, d, now, codeTTL, dropTTL, max)
      PROVE  RowsGoOn
  <2>1. /\ sessions' = sessions /\ published' = published \cup {d}
        /\ d \notin published /\ d \notin Stored
        /\ \A e \in Drops : e # d => drops'[e] = drops[e]
    BY <1>4 DEF Publish, Recorded, TypeOK
  <2>2. QED
    BY <1>0, <2>1 DEF RowsGoOn, Stored, Issued
<1>5. ASSUME NEW a \in Allocators, NEW d \in Drops, NEW now \in ReadClock,
             NEW ttl \in CodeTTLs, Reissue(a, d, now, ttl)
      PROVE  RowsGoOn
  <2>1. d \in Stored /\ drops[d] \in DropRow
    BY <1>5, RowTypes DEF Reissue, Active
  <2>2. /\ UNCHANGED <<sessions, published>>
        /\ drops'[d].created = drops[d].created /\ drops'[d].expires = drops[d].expires
        /\ drops'[d].revoked = drops[d].revoked
        /\ \A e \in Drops : e # d => drops'[e] = drops[e]
    BY <1>5, <2>1 DEF Reissue, DropRow, TypeOK
  <2>3. QED
    BY <1>0, <2>1, <2>2 DEF RowsGoOn, Stored, Issued
<1>6. ASSUME NEW now \in ReadClock, NEW src \in Sources,
             NEW code \in Codes \cup {None}, RedeemRejected(now, src, code)
      PROVE  RowsGoOn
  <2>1. now - SessionGrace \in Int
    BY ReadingType
  <2>2. /\ UNCHANGED <<drops, published>>
        /\ \A t \in Tokens : sessions'[t] # None =>
              t \in Issued /\ sessions'[t] = sessions[t]
    BY <1>6, <2>1, PruningSessions DEF RedeemRejected
  <2>3. QED
    BY <1>0, <2>2 DEF RowsGoOn, Stored, Issued
<1>7. ASSUME NEW now \in ReadClock, NEW src \in Sources,
             NEW code \in Codes \cup {None}, NEW d \in Drops, NEW t \in Tokens,
             RedeemAccepted(now, src, code, d, t)
      PROVE  RowsGoOn
  <2>1. now - SessionGrace \in Int
    BY ReadingType
  <2>2. d \in Stored /\ drops[d] \in DropRow
    BY <1>7, RowTypes DEF RedeemAccepted, Redeemable, Active
  <2>3. /\ published' = published
        /\ drops'[d].created = drops[d].created /\ drops'[d].expires = drops[d].expires
        /\ drops'[d].revoked = drops[d].revoked
        /\ \A e \in Drops : e # d => drops'[e] = drops[e]
    BY <1>7, <2>2 DEF RedeemAccepted, DropRow, TypeOK
  <2>4. t \notin Issued /\ holder[t] = None /\ holder'[t] = d
    BY <1>7 DEF RedeemAccepted, SessionScoped, Stored, TypeOK
  <2>5. \A u \in Tokens : u # t /\ sessions'[u] # None =>
           u \in Issued /\ sessions'[u] = sessions[u]
    BY <1>7, <2>1, PruningSessions DEF RedeemAccepted
  <2>6. QED
    BY <1>0, <2>2, <2>3, <2>4, <2>5 DEF RowsGoOn, Stored, Issued
<1>8. ASSUME NEW d \in Drops, NEW now \in ReadClock, Revoke(d, now)
      PROVE  RowsGoOn
  <2>1. d \in Stored /\ drops[d] \in DropRow /\ now # None
    BY <1>8, RowTypes, ReadingType DEF Revoke
  <2>2. /\ published' = published
        /\ drops'[d].created = drops[d].created /\ drops'[d].expires = drops[d].expires
        /\ drops'[d].revoked = now
        /\ \A e \in Drops : e # d => drops'[e] = drops[e]
    BY <1>8, <2>1 DEF Revoke, DropRow, TypeOK
  <2>3. \A t \in Issued : /\ sessions'[t].drop = sessions[t].drop
                          /\ sessions'[t].expires = sessions[t].expires
                          /\ sessions[t].revoked # None => sessions'[t].revoked # None
    BY <1>8, RowTypes DEF Revoke, RevokeSessions, Issued, SessionRow
  <2>4. Issued' \subseteq Issued
    BY <1>8 DEF Revoke, RevokeSessions, Issued
  <2>5. QED
    BY <1>0, <2>1, <2>2, <2>3, <2>4 DEF RowsGoOn, Stored
<1>9. ASSUME NEW now \in ReadClock, NEW retention \in Retentions,
             ApplyRetention(now, retention)
      PROVE  RowsGoOn
  <2>1. /\ published' = published
        /\ \A d \in Stored' : d \in Stored /\ drops'[d] = drops[d]
    BY <1>9 DEF ApplyRetention, Stored
  <2>2. \A t \in Issued' : t \in Issued /\ sessions'[t] = sessions[t]
    BY <1>9, ReadingType, PruningSessions DEF ApplyRetention, Issued
  <2>3. QED
    BY <1>0, <2>1, <2>2 DEF RowsGoOn
<1>10. QED
  BY <1>2, <1>3, <1>4, <1>5, <1>6, <1>7, <1>8, <1>9
     DEF Next, PublicationStep, RedemptionStep, RetentionStep

-----------------------------------------------------------------------------
\* A drop was created in the past, by a clock that may have lagged, for longer
\* than the clock can have lagged.
RowsAreDated ==
    \A d \in Stored :
        drops[d].created <= clock /\ drops[d].created < drops[d].expires

LEMMA RowsStayDated ==
    ASSUME RegistryInv, RowsAreDated, [Next]_vars
    PROVE  RowsAreDated'
<1> USE RegistryAssumption, BudgetAssumption
<1>1. clock \in Int /\ clock' \in Int /\ clock <= clock' /\ ReadClock \subseteq Int
  BY ClockGoesOn, ReadingType DEF RegistryInv
<1>2. ASSUME NEW d \in Stored', d \in Stored
      PROVE  drops'[d].created <= clock' /\ drops'[d].created < drops'[d].expires
  <2>1. drops[d].created \in Int /\ drops[d].expires \in Int
    BY <1>2, RowTypes DEF RegistryInv, DropRow
  <2>2. drops'[d].created = drops[d].created /\ drops'[d].expires = drops[d].expires
    BY <1>2, EveryStepLetsRowsGoOn DEF RowsGoOn
  <2>3. QED
    BY <1>1, <1>2, <2>1, <2>2 DEF RowsAreDated
<1>3. ASSUME NEW d \in Stored', d \notin Stored
      PROVE  drops'[d].created <= clock' /\ drops'[d].created < drops'[d].expires
  <2>1. d \in published' \ published
    BY <1>3, EveryStepLetsRowsGoOn DEF RowsGoOn
  <2>2. PICK a \in Allocators, e \in Drops, now \in ReadClock, codeTTL \in CodeTTLs,
             dropTTL \in DropTTLs, max \in Limits :
             Publish(a, e, now, codeTTL, dropTTL, max)
    BY <2>1
       DEF Next, vars, registryVars, PublicationStep, AllocateCode, Abandon, Reissue,
           RedemptionStep, RedeemRejected, RedeemAccepted, Revoke, RetentionStep,
           ApplyRetention
  <2>3. /\ d = e /\ clock' = clock
        /\ drops'[d] = NewDrop(alloc[a], now, codeTTL, dropTTL, max)
    BY <2>1, <2>2 DEF Publish, budgetVars, RegistryInv, TypeOK
  <2>4. drops'[d].created = now /\ drops'[d].expires = now + dropTTL
    BY <2>3 DEF NewDrop
  <2>5. now \in Int /\ now <= clock /\ dropTTL \in Int /\ dropTTL > 0
    BY <1>1 DEF ReadClock
  <2>6. QED
    BY <1>1, <2>3, <2>4, <2>5
<1>4. QED
  BY <1>2, <1>3 DEF RowsAreDated

(***************************************************************************)
(* A stored drop was created at a time that some clock had shown, and      *)
(* expires later (insert_drop of src/src/db.rs).                           *)
(***************************************************************************)
THEOREM RowsAreAlwaysDated == Spec => [](RegistryInv /\ RowsAreDated)
<1>1. Init => RowsAreDated
  BY DEF Init, RowsAreDated, Stored
<1>2. RegistryInv /\ RowsAreDated /\ [Next]_vars => RowsAreDated'
  BY RowsStayDated
<1>3. QED
  BY <1>1, <1>2, RegistryInvariance, PTL DEF Spec

(***************************************************************************)
(* The constraint code_expires_at > created_at never turns down the reissue *)
(* of an active drop: a code lives longer than clocks lag (storage.rs:151). *)
(***************************************************************************)
THEOREM ReissuesAreAdmitted == Spec => []ReissueAdmitted
<1>1. RegistryInv /\ RowsAreDated => ReissueAdmitted
  <2> SUFFICES ASSUME RegistryInv, RowsAreDated, NEW d \in Drops,
                      NEW now \in ReadClock, NEW ttl \in CodeTTLs, Active(d, now)
               PROVE  ReissuedExpiry(d, now, ttl) > drops[d].created
    BY DEF ReissueAdmitted
  <2>1. /\ drops[d].created \in Int /\ drops[d].expires \in Int
        /\ drops[d].created <= clock /\ drops[d].created < drops[d].expires
    BY RowTypes DEF Active, RegistryInv, RowsAreDated, DropRow
  <2>2. clock \in Int /\ ttl \in Int /\ now \in Int /\ clock - MaxLag <= now /\ ttl > MaxLag
    BY RegistryAssumption, BudgetAssumption
       DEF ReadClock, RegistryInv, TypeOK, BudgetTypeOK
  <2>3. QED
    BY <2>1, <2>2, BudgetAssumption DEF ReissuedExpiry, Least
<1>2. QED
  BY <1>1, RowsAreAlwaysDated, PTL

-----------------------------------------------------------------------------
\* A session that opens its drop goes on to do so for as long as neither the
\* session nor the drop expires and nobody revokes the drop.  The row of the
\* session ends no later than that of its drop, so one expiry is enough.
LEMMA OpenSessionsStayOpen ==
    ASSUME RegistryInv, [Next]_vars, NEW t \in Tokens, NEW d \in Drops,
           Opens(t, clock), sessions[t].drop = d,
           clock' < sessions[t].expires, ~Revoked(d)'
    PROVE  Opens(t, clock)'
<1> USE RegistryAssumption, NoneAssumption
<1>1. /\ t \in Issued /\ d \in Stored
      /\ sessions[t].revoked = None /\ drops[d].revoked = None
      /\ sessions[t].expires > clock /\ drops[d].expires > clock
      /\ sessions[t].expires <= drops[d].expires
      /\ sessions[t].expires \in Int /\ drops[d].expires \in Int
      /\ holder[t] = d
      /\ sessions[t] \in SessionRow /\ drops[d] \in DropRow
  BY RowTypes DEF Opens, Active, RegistryInv, SessionScoped, SessionRow, DropRow
<1>2. /\ clock \in Int /\ clock' \in Int
      /\ \A now \in ReadClock : now \in Int /\ now <= clock
  BY ClockGoesOn, ReadingType DEF RegistryInv, ReadClock
<1>3. SUFFICES /\ t \in Issued' /\ d \in Stored'
               /\ sessions'[t].drop = d /\ sessions'[t].revoked = None
               /\ sessions'[t].expires = sessions[t].expires
               /\ drops'[d].expires = drops[d].expires
  BY <1>1, <1>2 DEF Opens, Active, Revoked
<1>4. ASSUME d \in Stored', sessions'[t] = sessions[t] PROVE <1>3!1
  <2>1. drops'[d].expires = drops[d].expires
    BY <1>1, <1>4, EveryStepLetsRowsGoOn DEF RowsGoOn
  <2>2. QED
    BY <1>1, <1>4, <2>1 DEF Issued
<1>5. \A cutoff \in Int : cutoff <= clock => SessionsSince(cutoff)[t] = sessions[t]
  BY <1>1, <1>2 DEF SessionsSince
<1>6. CASE \/ Tick /\ UNCHANGED registryVars
           \/ GateStep /\ UNCHANGED registryVars
           \/ UNCHANGED vars
  BY <1>1, <1>4, <1>6 DEF vars, registryVars, Stored
<1>7. CASE PublicationStep
  <2>1. sessions' = sessions
    BY <1>7 DEF PublicationStep, AllocateCode, Abandon, Publish, Reissue
  <2>2. ASSUME drops' = drops PROVE <1>3!1
    BY <1>1, <1>4, <2>1, <2>2 DEF Stored
  <2>3. ASSUME NEW a \in Allocators, NEW e \in Drops, NEW now \in ReadClock,
               NEW codeTTL \in CodeTTLs, NEW dropTTL \in DropTTLs, NEW max \in Limits,
               Publish(a, e, now, codeTTL, dropTTL, max)
        PROVE  <1>3!1
    <3>1. e # d /\ drops'[d] = drops[d]
      BY <1>1, <2>3 DEF Publish, RegistryInv, Recorded, TypeOK
    <3>2. QED
      BY <1>1, <1>4, <2>1, <3>1 DEF Stored
  <2>4. ASSUME NEW a \in Allocators, NEW e \in Drops, NEW now \in ReadClock,
               NEW ttl \in CodeTTLs, Reissue(a, e, now, ttl)
        PROVE  <1>3!1
    <3>1. e \in Stored /\ drops' = [drops EXCEPT ![e].code = alloc[a],
                                   ![e].codeExpires = ReissuedExpiry(e, now, ttl)]
      BY <2>4 DEF Reissue, Active
    <3>2. d \in Stored'
      <4>1. RegistryInv'
        BY RegistryInvStep
      <4>2. SessionScoped' /\ t \in Issued' /\ sessions'[t].drop = d
        BY <1>1, <2>1, <4>1 DEF RegistryInv, Issued
      <4>3. QED
        BY <4>2 DEF SessionScoped
    <3>3. QED
      BY <1>4, <2>1, <3>2
  <2>5. QED
    BY <1>7, <2>2, <2>3, <2>4 DEF PublicationStep, AllocateCode, Abandon
<1>8. ASSUME NEW now \in ReadClock, NEW src \in Sources,
             NEW code \in Codes \cup {None}, RedeemRejected(now, src, code)
      PROVE  <1>3!1
  <2>1. sessions' = SessionsSince(now - SessionGrace) /\ drops' = drops
    BY <1>8 DEF RedeemRejected
  <2>2. now - SessionGrace \in Int /\ now - SessionGrace <= clock
    BY <1>2
  <2>3. QED
    BY <1>1, <1>4, <1>5, <2>1, <2>2 DEF Stored
<1>9. ASSUME NEW now \in ReadClock, NEW src \in Sources,
             NEW code \in Codes \cup {None}, NEW e \in Drops, NEW u \in Tokens,
             RedeemAccepted(now, src, code, e, u)
      PROVE  <1>3!1
  <2>1. now - SessionGrace \in Int /\ now - SessionGrace <= clock
    BY <1>2
  <2>2. u # t
    BY <1>1, <1>9 DEF RedeemAccepted
  <2>3. sessions'[t] = SessionsSince(now - SessionGrace)[t]
    BY <1>9, <2>2 DEF RedeemAccepted, SessionsSince
  <2>4. t \in Issued' /\ sessions'[t].drop = d
    BY <1>1, <1>5, <2>1, <2>3 DEF Issued
  <2>5. d \in Stored'
    BY <2>4, RegistryInvStep DEF RegistryInv, SessionScoped
  <2>6. QED
    BY <1>4, <1>5, <2>1, <2>3, <2>5
<1>10. ASSUME NEW e \in Drops, NEW now \in ReadClock, Revoke(e, now)
       PROVE  <1>3!1
  <2>1. d \in Stored'
    <3> DEFINE ended == [sessions[t] EXCEPT !.revoked = now]
    <3>1. sessions'[t] = sessions[t] \/ sessions'[t] = ended
      BY <1>1, <1>10 DEF Revoke, RevokeSessions
    <3>2. sessions[t] \in SessionRow
      BY <1>1 DEF RegistryInv, TypeOK, Issued
    <3>3. ended \in SessionRow /\ ended.drop = d
      BY <1>1, <1>2, <3>2 DEF SessionRow
    <3> HIDE DEF ended
    <3>4. sessions'[t] # None /\ sessions'[t].drop = d
      BY <1>1, <3>1, <3>3, NoneAssumption DEF Issued
    <3>5. t \in Issued' /\ sessions'[t].drop = d
      BY <1>1, <3>4 DEF Issued
    <3>6. QED
      BY <3>5, RegistryInvStep DEF RegistryInv, SessionScoped
  <2>2. drops'[d].revoked = None
    BY <2>1 DEF Revoked
  <2>3. e # d
    <3>1. CASE e = d
      <4>1. drops'[d].revoked = now
        BY <1>1, <1>10, <3>1 DEF Revoke, RegistryInv, TypeOK, DropRow
      <4>2. QED
        BY <2>2, <4>1, ReadingType DEF RegistryInv
    <3>2. QED
      BY <3>1
  <2>4. QED
    BY <1>1, <1>4, <1>10, <2>1, <2>3 DEF Revoke, RevokeSessions
<1>11. ASSUME NEW now \in ReadClock, NEW retention \in Retentions,
              ApplyRetention(now, retention)
       PROVE  <1>3!1
  <2>1. ~Purgeable(d, now - retention)
    BY <1>1, <1>2 DEF Purgeable
  <2>2. sessions'[t] = sessions[t] /\ d \in Stored'
    BY <1>1, <1>2, <1>5, <1>11, <2>1 DEF ApplyRetention, Stored
  <2>3. QED
    BY <1>4, <2>2
<1>12. QED
  BY <1>6, <1>7, <1>8, <1>9, <1>10, <1>11 DEF Next, RedemptionStep, RetentionStep

(***************************************************************************)
(* A session loses its access only to its expiry or to a revocation: no     *)
(* reissue, no redemption and no run of gc takes it away (db.rs, redeem,    *)
(* rotate_code and apply_retention).                                        *)
(***************************************************************************)
THEOREM AccessIsKept == Spec => AccessKept
<1>1. RegistryInv /\ [Next]_vars =>
        [\A t \in Tokens, d \in Drops :
            Opens(t, clock) /\ ~Opens(t, clock)' /\ sessions[t].drop = d
                => clock' >= sessions[t].expires \/ Revoked(d)']_vars
  <2> SUFFICES ASSUME RegistryInv, [Next]_vars, NEW t \in Tokens, NEW d \in Drops,
                      Opens(t, clock), ~Opens(t, clock)', sessions[t].drop = d,
                      ~Revoked(d)'
               PROVE  clock' >= sessions[t].expires
    BY Zenon
  <2>1. clock' \in Int /\ sessions[t].expires \in Int
    BY ClockGoesOn, RowTypes DEF RegistryInv, Opens, SessionRow
  <2>2. ~(clock' < sessions[t].expires)
    BY OpenSessionsStayOpen
  <2>3. QED
    BY <2>1, <2>2
<1>2. QED
  BY <1>1, RegistryInvariance, PTL DEF Spec, AccessKept

-----------------------------------------------------------------------------
\* The tokens that open their drop now.
Access == {t \in Tokens : Opens(t, clock)}

LEMMA PhaseOf ==
    /\ AbstractPhase \in [Drops -> {"unpublished", "live", "ended"}]
    /\ \A d \in Drops :
          /\ d \notin published => AbstractPhase[d] = "unpublished"
          /\ d \in published /\ Live(d) => AbstractPhase[d] = "live"
          /\ d \in published /\ ~Live(d) => AbstractPhase[d] = "ended"
<1>1. \A d \in Drops :
        /\ d \notin published => AbstractPhase[d] = "unpublished"
        /\ d \in published /\ Live(d) => AbstractPhase[d] = "live"
        /\ d \in published /\ ~Live(d) => AbstractPhase[d] = "ended"
  BY DEF AbstractPhase
<1>2. AbstractPhase = [d \in Drops |-> AbstractPhase[d]]
  BY DEF AbstractPhase
<1>3. QED
  BY <1>1, <1>2

LEMMA AccessHolds ==
    ASSUME RegistryInv, NEW t \in Tokens, Opens(t, clock)
    PROVE  /\ holder[t] \in Drops /\ Live(holder[t]) /\ holder[t] \in published
           /\ t \in Issued /\ sessions[t].drop = holder[t]
BY DEF Opens, Active, Live, RegistryInv, SessionScoped, Stored, Recorded

\* A transaction that publishes nothing and issues nothing can only end drops
\* and take access away.
LEMMA NothingNewIsAnEnd ==
    ASSUME RegistryInv, RegistryInv', RowsGoOn, UNCHANGED <<published, holder>>
    PROVE  Abstract!Next
<1> DEFINE D == {d \in Drops : d \in published /\ Live(d) /\ ~Live(d)'}
           T == Access \ Access'
<1>0. clock \in Int /\ clock' \in Int /\ clock <= clock'
  BY DEF RegistryInv, TypeOK, BudgetTypeOK, RowsGoOn
<1>1. \A d \in Drops : Live(d)' => Live(d)
  <2> SUFFICES ASSUME NEW d \in Drops, Live(d)' PROVE Live(d)
    OBVIOUS
  <2>1. d \in Stored' /\ d \in Stored
    BY DEF Live, RowsGoOn
  <2>2. drops[d].expires \in Int
    BY <2>1, RowTypes DEF RegistryInv, DropRow
  <2>3. QED
    BY <1>0, <2>1, <2>2 DEF Live, RowsGoOn
<1>2. Access' \subseteq Access
  <2> SUFFICES ASSUME NEW t \in Access' PROVE t \in Access
    OBVIOUS
  <2>1. t \in Tokens /\ t \in Issued' /\ t \in Issued
    BY DEF Access, Opens, RowsGoOn, Issued
  <2>2. sessions[t].expires \in Int
    BY <2>1, RowTypes DEF RegistryInv, SessionRow
  <2>3. /\ sessions[t].revoked = None /\ sessions[t].expires > clock
        /\ sessions'[t].drop = sessions[t].drop
    BY <1>0, <2>1, <2>2 DEF Access, Opens, RowsGoOn
  <2>4. sessions[t].drop \in Drops /\ Live(sessions[t].drop)'
    BY <2>1, <2>3, RowTypes
       DEF Access, Opens, Active, Live, RegistryInv, SessionRow, Stored
  <2>5. QED
    BY <1>1, <2>1, <2>3, <2>4 DEF Access, Opens, Active, Live
<1>3. \A t \in Access : holder[t] \in D => t \in T
  <2> SUFFICES ASSUME NEW t \in Access, holder[t] \in D, t \in Access'
               PROVE  FALSE
    OBVIOUS
  <2>1. sessions'[t].drop = holder'[t] /\ Live(sessions[t].drop)'
    BY DEF Access, Opens, Active, Live, RegistryInv, SessionScoped
  <2>2. holder[t] = sessions'[t].drop
    BY <2>1
  <2>3. Live(holder[t])'
    BY <2>1, <2>2 DEF Live
  <2>4. holder'[t] = holder[t] /\ ~Live(holder[t])'
    BY <2>2 DEF Live
  <2>5. QED
    BY <2>3, <2>4
<1>4. AbstractPhase' = [d \in Drops |-> IF d \in D THEN "ended" ELSE AbstractPhase[d]]
  <2>1. ASSUME NEW d \in Drops
        PROVE  AbstractPhase'[d] = IF d \in D THEN "ended" ELSE AbstractPhase[d]
    BY <1>1 DEF AbstractPhase
  <2>2. AbstractPhase' = [d \in Drops |-> AbstractPhase'[d]]
    BY DEF AbstractPhase
  <2>3. QED
    BY <2>1, <2>2
<1>5. \A d \in D : AbstractPhase[d] = "live"
  BY PhaseOf
<1>6. D \in SUBSET Drops /\ T \in SUBSET Tokens
  BY DEF Access
<1>7. Access' = Access \ T
  BY <1>2
<1>8. Abstract!End(D, T)
  BY <1>3, <1>4, <1>5, <1>7 DEF Abstract!End, Access
<1>9. QED
  BY <1>6, <1>8 DEF Abstract!Next

LEMMA PublishIsAbstract ==
    ASSUME RegistryInv, RegistryInv',
           NEW a \in Allocators, NEW d \in Drops, NEW now \in ReadClock,
           NEW codeTTL \in CodeTTLs, NEW dropTTL \in DropTTLs, NEW max \in Limits,
           Publish(a, d, now, codeTTL, dropTTL, max)
    PROVE  Abstract!Next
<1>1. /\ sessions' = sessions /\ holder' = holder /\ clock' = clock
      /\ published' = published \cup {d} /\ d \notin published /\ d \notin Stored
      /\ \A e \in Drops : e # d => drops'[e] = drops[e]
  BY DEF Publish, budgetVars, RegistryInv, TypeOK, Recorded
<1>2. Live(d)'
  <2>1. drops'[d] = NewDrop(alloc[a], now, codeTTL, dropTTL, max)
    BY DEF Publish, RegistryInv, TypeOK
  <2>2. /\ clock \in Int /\ now \in Int /\ clock - MaxLag <= now
        /\ dropTTL \in Int /\ dropTTL > MaxLag /\ MaxLag \in Int
    BY RegistryAssumption, BudgetAssumption
       DEF ReadClock, RegistryInv, TypeOK, BudgetTypeOK
  <2>3. drops'[d].revoked = None /\ drops'[d].expires > clock'
    BY <1>1, <2>1, <2>2 DEF NewDrop
  <2>4. d \in Stored'
    <3>1. drops'[d] \in DropRow \cup {None} /\ drops'[d].code = alloc[a]
      BY <2>1 DEF NewDrop, RegistryInv, TypeOK
    <3>2. d \in Drops /\ d \in published'
      BY <1>1
    <3> DEFINE row == NewDrop(alloc[a], now, codeTTL, dropTTL, max)
    <3>3. row \in DropRow
      <4>1. alloc[a] \in Codes
        BY DEF Publish, RegistryInv, TypeOK
      <4>2. max \in Nat \cup {None} /\ codeTTL \in Int
        BY RegistryAssumption
      <4>3. QED
        BY <2>2, <4>1, <4>2 DEF NewDrop, DropRow
    <3> HIDE DEF row
    <3>4. drops'[d] = row /\ row # None
      BY <2>1, <3>3, NoneAssumption DEF row
    <3>5. QED
      BY <3>4 DEF Stored
  <2>5. QED
    BY <2>3, <2>4 DEF Live
<1>3. \A e \in Drops : e # d => (Live(e)' <=> Live(e))
  BY <1>1 DEF Live, Stored
<1>4. \A t \in Issued : sessions[t].drop \in Drops /\ sessions[t].drop # d
  BY <1>1 DEF RegistryInv, SessionScoped, Stored
<1>5. Access' = Access
  <2>1. \A t \in Tokens : Opens(t, clock)' <=> Opens(t, clock)
    BY <1>1, <1>4 DEF Opens, Active, Issued, Stored
  <2>2. QED
    BY <2>1 DEF Access
<1>6. AbstractPhase' = [AbstractPhase EXCEPT ![d] = "live"]
  <2>1. ASSUME NEW e \in Drops
        PROVE  AbstractPhase'[e] = IF e = d THEN "live" ELSE AbstractPhase[e]
    BY <1>1, <1>2, <1>3 DEF AbstractPhase
  <2>2. AbstractPhase' = [e \in Drops |-> AbstractPhase'[e]]
    BY DEF AbstractPhase
  <2>3. AbstractPhase \in [Drops -> {"unpublished", "live", "ended"}]
    BY PhaseOf
  <2>4. QED
    BY <2>1, <2>2, <2>3
<1>7. AbstractPhase[d] = "unpublished"
  BY <1>1, PhaseOf
<1>8. Abstract!Publish(d)
  BY <1>1, <1>5, <1>6, <1>7 DEF Abstract!Publish, Access
<1>9. QED
  BY <1>8 DEF Abstract!Next

LEMMA RedemptionIsAbstract ==
    ASSUME RegistryInv, RegistryInv',
           NEW now \in ReadClock, NEW src \in Sources,
           NEW code \in Codes \cup {None}, NEW d \in Drops, NEW t \in Tokens,
           RedeemAccepted(now, src, code, d, t)
    PROVE  Abstract!Next
<1>1. d \in Stored /\ drops[d] \in DropRow
  BY RowTypes DEF RedeemAccepted, Redeemable, Active, RegistryInv
<1>2. /\ published' = published /\ clock' = clock
      /\ holder[t] = None /\ holder' = [holder EXCEPT ![t] = d]
      /\ drops' = [drops EXCEPT ![d].count = @ + 1]
  BY DEF RedeemAccepted, RedeemGranted
<1>3. /\ Stored' = Stored
      /\ \A e \in Stored : /\ drops'[e].expires = drops[e].expires
                           /\ drops'[e].revoked = drops[e].revoked
  <2>1. /\ drops'[d].expires = drops[d].expires /\ drops'[d].revoked = drops[d].revoked
        /\ \A e \in Drops : e # d => drops'[e] = drops[e]
    BY <1>1, <1>2 DEF DropRow, RegistryInv, TypeOK
  <2>2. d \in Stored'
    <3> DEFINE row == [drops[d] EXCEPT !.count = @ + 1]
    <3>1. row \in DropRow
      BY <1>1 DEF DropRow
    <3>2. drops'[d] = row
      BY <1>1, <1>2 DEF RegistryInv, TypeOK, Stored
    <3> HIDE DEF row
    <3>3. QED
      BY <1>1, <3>1, <3>2, NoneAssumption DEF Stored
  <2>3. QED
    BY <1>1, <2>1, <2>2 DEF Stored
<1>4. \A e \in Drops : Live(e)' <=> Live(e)
  BY <1>2, <1>3 DEF Live
<1>5. AbstractPhase' = AbstractPhase
  BY <1>2, <1>4 DEF AbstractPhase
<1>6. ~Opens(t, clock)
  BY <1>2, NoneAssumption DEF Opens, RegistryInv, SessionScoped, Stored
<1>7. \A u \in Tokens : u # t => (Opens(u, clock)' <=> Opens(u, clock))
  <2> SUFFICES ASSUME NEW u \in Tokens, u # t
               PROVE  Opens(u, clock)' <=> Opens(u, clock)
    OBVIOUS
  <2>1. sessions'[u] = SessionsSince(now - SessionGrace)[u]
    BY DEF RedeemAccepted, SessionsSince
  <2>2. /\ now - SessionGrace \in Int /\ now - SessionGrace <= clock /\ clock \in Int
    BY RegistryAssumption, BudgetAssumption
       DEF ReadClock, RegistryInv, TypeOK, BudgetTypeOK
  <2>3. Opens(u, clock)' => Opens(u, clock)
    <3>1. ASSUME Opens(u, clock)'
          PROVE  u \in Issued /\ sessions'[u] = sessions[u]
      BY <2>1, <2>2, <3>1, PruningSessions DEF Opens, Issued, RegistryInv
    <3>2. QED
      BY <1>2, <1>3, <3>1 DEF Opens, Active
  <2>4. Opens(u, clock) => Opens(u, clock)'
    <3> SUFFICES ASSUME Opens(u, clock) PROVE Opens(u, clock)'
      OBVIOUS
    <3>1. sessions[u].expires \in Int /\ sessions[u].expires > clock
      BY RowTypes DEF Opens, SessionRow, RegistryInv
    <3>2. sessions'[u] = sessions[u]
      BY <2>1, <2>2, <3>1 DEF SessionsSince
    <3>3. QED
      BY <1>2, <1>3, <3>2 DEF Opens, Active, Issued
  <2>5. QED
    BY <2>3, <2>4
<1>8. CASE Opens(t, clock)'
  <2>1. Access' = Access \cup {t}
    BY <1>6, <1>7, <1>8 DEF Access
  <2>2. Live(d)
    <3>1. sessions'[t].drop = holder'[t] /\ holder'[t] = d
      BY <1>2, <1>8 DEF Opens, RegistryInv, SessionScoped, TypeOK
    <3>2. Live(d)'
      BY <1>8, <3>1 DEF Opens, Active, Live
    <3>3. QED
      BY <1>4, <3>2
  <2>3. AbstractPhase[d] = "live"
    BY <1>1, <2>2, PhaseOf DEF RegistryInv, Recorded
  <2>4. Abstract!Grant(t, d)
    BY <1>2, <1>5, <2>1, <2>3 DEF Abstract!Grant, Access
  <2>5. QED
    BY <2>4 DEF Abstract!Next
<1>9. CASE ~Opens(t, clock)'
  <2>1. Access' = Access
    BY <1>6, <1>7, <1>9 DEF Access
  <2>2. AbstractPhase[d] # "unpublished"
    BY <1>1, PhaseOf DEF RegistryInv, Recorded
  <2>3. Abstract!GrantLate(t, d)
    BY <1>2, <1>5, <2>1, <2>2 DEF Abstract!GrantLate, Access
  <2>4. QED
    BY <2>3 DEF Abstract!Next
<1>10. QED
  BY <1>8, <1>9

(***************************************************************************)
(* The tables of db.rs implement DropAccess: whatever the order of the      *)
(* transactions and the lag of the clocks they read, a drop is published    *)
(* once and ends once, a token is issued once, for a drop that was there,   *)
(* and no token opens a drop that has ended.                                *)
(***************************************************************************)
THEOREM RegistryImplementsDropAccess == Spec => ImplementsDropAccess
<1>1. Init => Abstract!Init
  BY DEF Init, Abstract!Init, AbstractPhase, Opens, Issued
<1>2. RegistryInv /\ RegistryInv' /\ [Next]_vars => [Abstract!Next]_(Abstract!vars)
  <2> SUFFICES ASSUME RegistryInv, RegistryInv', [Next]_vars
               PROVE  Abstract!Next
    OBVIOUS
  <2>1. RowsGoOn
    BY EveryStepLetsRowsGoOn
  <2>2. CASE UNCHANGED <<published, holder>>
    BY <2>1, <2>2, NothingNewIsAnEnd
  <2>3. ASSUME NEW a \in Allocators, NEW d \in Drops, NEW now \in ReadClock,
               NEW codeTTL \in CodeTTLs, NEW dropTTL \in DropTTLs, NEW max \in Limits,
               Publish(a, d, now, codeTTL, dropTTL, max)
        PROVE  Abstract!Next
    BY <2>3, PublishIsAbstract
  <2>4. ASSUME NEW now \in ReadClock, NEW src \in Sources,
               NEW code \in Codes \cup {None}, NEW d \in Drops, NEW t \in Tokens,
               RedeemAccepted(now, src, code, d, t)
        PROVE  Abstract!Next
    BY <2>4, RedemptionIsAbstract
  <2>5. QED
    BY <2>2, <2>3, <2>4
       DEF Next, vars, registryVars, PublicationStep, AllocateCode, Abandon, Reissue,
           RedemptionStep, RedeemRejected, Revoke, RetentionStep, ApplyRetention
<1>3. QED
  BY <1>1, <1>2, RegistryInvariance, PTL DEF Spec, ImplementsDropAccess, Abstract!Spec

(***************************************************************************)
(* So every token that opens something was issued for a drop that is live.  *)
(***************************************************************************)
THEOREM NothingOpensAnEndedDrop == Spec => []Abstract!AccessOnlyToLive
<1>1. RegistryInv => Abstract!AccessOnlyToLive
  <2> SUFFICES ASSUME RegistryInv, NEW t \in Tokens, Opens(t, clock)
               PROVE  holder[t] # None /\ AbstractPhase[holder[t]] = "live"
    BY DEF Abstract!AccessOnlyToLive
  <2>1. t \in Issued /\ Live(holder[t]) /\ holder[t] = sessions[t].drop
    BY DEF Opens, Active, Live, RegistryInv, SessionScoped
  <2>2. holder[t] \in Drops /\ holder[t] # None /\ holder[t] \in published
    BY <2>1, NoneAssumption DEF Live, Stored, RegistryInv, Recorded
  <2> QED BY <2>1, <2>2, PhaseOf
<1> QED BY <1>1, RegistryInvariance, PTL

=============================================================================
