------------------------- MODULE FixedWindowProofs --------------------------
(***************************************************************************)
(* FixedWindow for every number of tasks, limit, window and clock.         *)
(***************************************************************************)
EXTENDS FixedWindow, FiniteSetTheorems, TLAPS

(* Arithmetic of the window boundary. *)

LEMMA BoundaryAhead ==
    ASSUME NEW n \in Nat
    PROVE  /\ Boundary(n) \in Nat
           /\ n < Boundary(n)
           /\ Boundary(n) <= n + Window
  BY QuotaAssumption, Z3 DEF Boundary

LEMMA NextMultiple ==
    ASSUME NEW a \in Int, NEW b \in Int, NEW c \in Nat \ {0}, a < b
    PROVE  a * c + c <= b * c
  BY Z3

\* Two seconds not separated by a boundary lie in the same window.
LEMMA SameWindow ==
    ASSUME NEW m \in Nat, NEW n \in Nat, m <= n, n < Boundary(m)
    PROVE  Boundary(n) = Boundary(m)
<1> DEFINE p == m \div Window
           q == n \div Window
<1>1. /\ p \in Int /\ q \in Int /\ Window \in Nat \ {0}
      /\ p * Window <= m /\ m < p * Window + Window
      /\ q * Window <= n /\ n < q * Window + Window
  BY QuotaAssumption, Z3
<1>2. n < p * Window + Window
  BY DEF Boundary
<1>3. ~(p < q)
  <2> HIDE DEF p, q
  <2>1. SUFFICES ASSUME p < q PROVE FALSE
    OBVIOUS
  <2>2. p * Window + Window <= q * Window
    BY <1>1, <2>1, NextMultiple
  <2> QED BY <1>1, <1>2, <2>2
<1>4. ~(q < p)
  <2> HIDE DEF p, q
  <2>1. SUFFICES ASSUME q < p PROVE FALSE
    OBVIOUS
  <2>2. q * Window + Window <= p * Window
    BY <1>1, <2>1, NextMultiple
  <2> QED BY <1>1, <1>2, <2>2
<1>5. p = q
  BY <1>1, <1>3, <1>4
<1> QED BY <1>5 DEF Boundary

-----------------------------------------------------------------------------
(* The inductive invariant. *)

\* Requests in flight whose window is over.
Stale == {t \in InFlight : Boundary(stamp[t].sec) <= sec}

\* TIME answers are not ahead of the clock.
StampsInPast == \A t \in InFlight : stamp[t].sec <= sec

\* A positive counter counts the current window; the counter covers every fresh
\* admission that is not owed to a lost increment, and nothing that was blocked.
KeyCountsWindow ==
    /\ Stored > 0 => deadline = Boundary(sec)
    /\ Stored <= fresh + late
    /\ fresh <= Stored + debt

\* Each admission that is not in the counter used up one of the requests that
\* were stale; a counter of -1 carried into the window is settled by a request
\* that either was stale or is not.
LateWithinTasks ==
    /\ \/ fresh + late - Stored + Cardinality(Stale) <= Cardinality(Tasks)
       \/ Stored = -1 /\ fresh = 0 /\ late = 0
    /\ closed + Cardinality(Stale) <= MaxLimit + Cardinality(Tasks)

Inv == TypeOK /\ StampsInPast /\ KeyCountsWindow

IInv == Inv /\ LateWithinTasks

LEMMA StaleFinite == IsFiniteSet(Stale) /\ Cardinality(Stale) \in Nat
                     /\ Cardinality(Stale) <= Cardinality(Tasks)
                     /\ Cardinality(Tasks) \in Nat
  BY QuotaAssumption, FS_Subset, FS_CardinalityType DEF Stale, InFlight

LEMMA InitInv == Init => IInv
<1> SUFFICES ASSUME Init PROVE IInv
  OBVIOUS
<1>1. Inv
  BY ClockAssumption, QuotaAssumption
  DEF Init, ClockInit, Inv, TypeOK, ClockTypeOK, StampsInPast, InFlight, KeyCountsWindow, Stored
<1>2. Stale = {}
  BY DEF Init, ClockInit, Stale, InFlight
<1>3. LateWithinTasks
  BY <1>2, FS_EmptySet, QuotaAssumption, FS_CardinalityType DEF Init, LateWithinTasks, Stored
<1> QED BY <1>1, <1>3 DEF IInv

\* A request's own time, when its script runs.
LEMMA StampType ==
    ASSUME Inv, NEW t \in Tasks, stamp[t] # NoTime
    PROVE  /\ stamp[t].sec \in Nat
           /\ stamp[t].sec <= sec
           /\ sec \in Nat
           /\ sec < Boundary(stamp[t].sec) =>
                  Boundary(stamp[t].sec) = Boundary(sec)
<1>1. stamp[t] \in Time
  BY DEF Inv, TypeOK, ClockTypeOK
<1>2. stamp[t].sec \in Nat /\ stamp[t].sec <= sec /\ sec \in Nat
  BY <1>1 DEF Inv, TypeOK, ClockTypeOK, StampsInPast, InFlight, Time
<1> QED BY <1>2, SameWindow

LEMMA AskTimeInv ==
    ASSUME IInv, NEW t \in Tasks, AskTime(t)
    PROVE  IInv'
<1> USE DEF AskTime, ReadTime, keyVars, history
<1>1. ClockTypeOK'
  BY DEF IInv, Inv, TypeOK, ClockTypeOK, Now, Time
<1>2. TypeOK'
  BY <1>1 DEF IInv, Inv, TypeOK
<1>3. StampsInPast'
  BY DEF IInv, Inv, TypeOK, ClockTypeOK, StampsInPast, InFlight, Now
<1>4. KeyCountsWindow'
  BY DEF IInv, Inv, KeyCountsWindow, Boundary, Stored
<1>5. Stale' = Stale
  <2>1. sec \in Nat /\ stamp \in [Tasks -> Time \cup {NoTime}]
    BY DEF IInv, Inv, TypeOK, ClockTypeOK
  <2>2. ~(Boundary(sec) <= sec)
    BY <2>1, BoundaryAhead
  <2>3. t \notin Stale /\ t \notin Stale'
    BY <2>1, <2>2 DEF Stale, InFlight, Now, Boundary
  <2>4. \A s \in Tasks \ {t} : s \in Stale <=> s \in Stale'
    BY <2>1 DEF Stale, InFlight, Boundary
  <2> QED BY <2>3, <2>4 DEF Stale, InFlight
<1>6. LateWithinTasks'
  BY <1>5 DEF IInv, LateWithinTasks, Stored
<1> QED BY <1>2, <1>3, <1>4, <1>6 DEF IInv, Inv

\* A request that is not stale leaves one task fewer that may be.
LEMMA FreshTask ==
    ASSUME NEW t \in Tasks, t \notin Stale
    PROVE  Cardinality(Stale) <= Cardinality(Tasks) - 1
<1>1. Stale \subseteq Tasks \ {t} /\ IsFiniteSet(Tasks \ {t})
  BY QuotaAssumption, FS_RemoveElement DEF Stale, InFlight
<1>2. Cardinality(Tasks \ {t}) = Cardinality(Tasks) - 1
  BY QuotaAssumption, FS_RemoveElement
<1> QED BY <1>1, <1>2, FS_Subset

\* When a request ends it is no longer in flight, and nobody else's stamp moves.
LEMMA ReleaseStale ==
    ASSUME IInv, NEW t \in Tasks, Release(t)
    PROVE  /\ ClockTypeOK' /\ StampsInPast'
           /\ Cardinality(Stale') =
                  Cardinality(Stale) - IF t \in Stale THEN 1 ELSE 0
<1>1. stamp \in [Tasks -> Time \cup {NoTime}]
  BY DEF IInv, Inv, TypeOK, ClockTypeOK
<1>2. ClockTypeOK' /\ StampsInPast'
  BY <1>1 DEF Release, IInv, Inv, TypeOK, ClockTypeOK, StampsInPast, InFlight
<1>3. Stale' = Stale \ {t}
  BY <1>1 DEF Release, Stale, InFlight, Boundary
<1>4. Cardinality(Stale') = Cardinality(Stale) - IF t \in Stale THEN 1 ELSE 0
  <2>1. CASE t \in Stale
    BY <1>3, <2>1, StaleFinite, FS_RemoveElement
  <2>2. CASE t \notin Stale
    <3>1. Stale' = Stale
      BY <1>3, <2>2
    <3> QED BY <2>2, <3>1, StaleFinite
  <2> QED BY <2>1, <2>2
<1> QED BY <1>2, <1>4

LEMMA FailInv ==
    ASSUME IInv, NEW t \in Tasks, Fail(t)
    PROVE  IInv'
<1> USE DEF Fail, keyVars, history
<1>1. ClockTypeOK' /\ StampsInPast' /\ Cardinality(Stale') <= Cardinality(Stale)
  BY ReleaseStale, StaleFinite
<1>2. TypeOK'
  BY <1>1 DEF IInv, Inv, TypeOK
<1>3. KeyCountsWindow'
  BY DEF IInv, Inv, KeyCountsWindow, Boundary, Release, Stored
<1>4. Cardinality(Stale) \in Nat /\ Cardinality(Stale') \in Nat
      /\ Cardinality(Tasks) \in Nat
  <2>1. IsFiniteSet(Stale')
    BY QuotaAssumption, FS_Subset DEF Stale, InFlight
  <2> QED BY <2>1, StaleFinite, FS_CardinalityType
<1>5. LateWithinTasks'
  <2>1. Stored' = Stored /\ Stored \in Int
    BY QuotaAssumption DEF Release, Stored, IInv, Inv, TypeOK
  <2> QED BY <1>1, <1>4, <2>1, QuotaAssumption DEF IInv, Inv, TypeOK, LateWithinTasks
<1> QED BY <1>1, <1>2, <1>3, <1>5 DEF IInv, Inv

\* The script: the key, and the history of the admission.
LEMMA CheckInv ==
    ASSUME IInv, NEW t \in Tasks, NEW l \in Limits, Check(t, l)
    PROVE  IInv'
<1> DEFINE now == stamp[t].sec
           n == Stored + 1
<1>1. /\ Release(t)
      /\ deadline' = Deadline(n, now)
      /\ count' = IF Deletes(n, now) THEN Settle(n, l) - 1 ELSE Settle(n, l)
      /\ IF Admits(n, l)
         THEN Record(Boundary(now))
         ELSE /\ debt' = IF Deletes(n, now) THEN debt + 1 ELSE debt
              /\ UNCHANGED <<fresh, late, closed>>
      /\ stamp[t] # NoTime /\ sec' = sec
  BY DEF Check, Release
<1>2. /\ now \in Nat /\ now <= sec /\ sec \in Nat
      /\ Boundary(now) \in Nat /\ now < Boundary(now)
      /\ Boundary(sec) \in Nat /\ sec < Boundary(sec)
      /\ sec < Boundary(now) => Boundary(now) = Boundary(sec)
  BY <1>1, StampType, BoundaryAhead DEF IInv
<1>3. /\ count \in -1 .. MaxLimit /\ deadline \in Nat
      /\ fresh \in Nat /\ late \in Nat /\ debt \in Nat /\ closed \in Int
      /\ MaxLimit \in Nat \ {0} /\ l \in 0 .. MaxLimit
  BY QuotaAssumption DEF IInv, Inv, TypeOK, Limits
<1>4. ClockTypeOK' /\ StampsInPast'
  BY <1>1, ReleaseStale
<1>5. Boundary(sec)' = Boundary(sec)
  BY <1>1 DEF Boundary
<1> HIDE DEF now
<1>6. n \in 0 .. MaxLimit + 1 /\ Stored \in -1 .. MaxLimit /\ Stored = n - 1
  BY <1>2, <1>3 DEF Stored
<1>7. deadline' \in Nat
  BY <1>1, <1>2, <1>3 DEF Deadline
<1>8. count' \in -1 .. MaxLimit
  BY <1>1, <1>2, <1>3, <1>6 DEF Settle, Admits, Deletes
<1>9. count' > 0 => sec < deadline' /\ deadline' = Boundary(sec)
  <2>1. CASE n = 1
    BY <1>1, <1>2, <2>1 DEF Deadline, Deletes, Settle
  <2>2. CASE n > 1
    BY <1>1, <1>2, <1>6, <2>2 DEF Deadline, IInv, Inv, KeyCountsWindow
  <2>3. CASE n = 0
    BY <1>1, <1>3, <2>3 DEF Deletes, Settle, Admits
  <2> QED BY <1>6, <2>1, <2>2, <2>3
<1>10. Stored' = count'
  BY <1>1, <1>2, <1>7, <1>8, <1>9 DEF Stored
\* What becomes of the counter and its history, in each of the four outcomes.
<1>11. \/ /\ Stored' = Stored + 1 /\ debt' = debt
          /\ \/ fresh' = fresh + 1 /\ late' = late /\ closed' = closed
             \/ fresh' = fresh /\ late' = late + 1 /\ closed' \in {closed, closed + 1}
                /\ Boundary(now) <= sec
       \/ /\ Stored = 0 /\ Stored' = 0 /\ debt' = debt
          /\ fresh' = fresh /\ late' = late + 1 /\ closed' \in {closed, closed + 1}
          /\ Boundary(now) <= sec
       \/ /\ Stored' = Stored /\ debt' = debt
          /\ fresh' = fresh /\ late' = late /\ closed' = closed
       \/ /\ Stored = 0 /\ Stored' = -1 /\ debt' = debt + 1
          /\ fresh' = fresh /\ late' = late /\ closed' = closed
          /\ Boundary(now) <= sec
  <2>1. CASE Admits(n, l) /\ ~Deletes(n, now)
    BY <1>1, <1>2, <1>6, <1>10, <2>1 DEF Settle, Record
  <2>2. CASE Admits(n, l) /\ Deletes(n, now)
    BY <1>1, <1>2, <1>6, <1>10, <2>2 DEF Settle, Record, Deletes
  <2>3. CASE ~Admits(n, l) /\ ~Deletes(n, now)
    BY <1>1, <1>2, <1>6, <1>10, <2>3 DEF Settle
  <2>4. CASE ~Admits(n, l) /\ Deletes(n, now)
    BY <1>1, <1>2, <1>6, <1>10, <2>4 DEF Settle, Deletes
  <2> QED BY <2>1, <2>2, <2>3, <2>4
<1> HIDE DEF n
<1>12. TypeOK'
  BY <1>3, <1>4, <1>7, <1>8, <1>11 DEF TypeOK
<1>13. KeyCountsWindow'
  <2>1. Stored' > 0 => (deadline = Boundary(sec))'
    BY <1>1, <1>5, <1>9, <1>10
  <2>2. Stored <= fresh + late /\ fresh <= Stored + debt
    BY DEF IInv, Inv, KeyCountsWindow
  <2>3. Stored' <= fresh' + late' /\ fresh' <= Stored' + debt'
    BY <1>3, <1>6, <1>11, <2>2
  <2> QED BY <2>1, <2>3 DEF KeyCountsWindow
<1>14. LateWithinTasks'
  <2> DEFINE W == Cardinality(Stale)
             W2 == Cardinality(Stale')
  <2>1. /\ Cardinality(Stale) \in Nat /\ Cardinality(Tasks) \in Nat
        /\ closed + Cardinality(Stale) <= MaxLimit + Cardinality(Tasks)
        /\ \/ fresh + late - Stored + Cardinality(Stale) <= Cardinality(Tasks)
           \/ Stored = -1 /\ fresh = 0 /\ late = 0
    BY StaleFinite DEF IInv, LateWithinTasks
  <2>2. Cardinality(Stale') = Cardinality(Stale) - IF t \in Stale THEN 1 ELSE 0
    BY <1>1, ReleaseStale
  <2>3. t \in Stale <=> Boundary(now) <= sec
    BY <1>1 DEF Stale, InFlight, now
  <2>4. t \notin Stale => Cardinality(Stale) <= Cardinality(Tasks) - 1
    BY FreshTask
  <2> HIDE DEF W, W2
  <2>5. W \in Nat /\ W2 \in Int /\ (W2 = W \/ W2 = W - 1) /\ (Boundary(now) <= sec => W2 = W - 1)
        /\ (W2 = W => W <= Cardinality(Tasks) - 1)
    BY <2>1, <2>2, <2>3, <2>4 DEF W, W2
  <2>6. closed' + W2 <= MaxLimit + Cardinality(Tasks)
    BY <1>3, <1>11, <2>1, <2>5 DEF W
  <2>7. \/ fresh' + late' - Stored' + W2 <= Cardinality(Tasks)
        \/ Stored' = -1 /\ fresh' = 0 /\ late' = 0
    <3>1. CASE fresh + late - Stored + W <= Cardinality(Tasks)
      BY <1>3, <1>6, <1>11, <2>1, <2>5, <3>1
    <3>2. CASE Stored = -1 /\ fresh = 0 /\ late = 0 /\ W <= Cardinality(Tasks)
      BY <1>3, <1>11, <2>1, <2>5, <3>2
    <3> QED BY <2>1, <3>1, <3>2, StaleFinite DEF W
  <2> QED BY <2>6, <2>7 DEF LateWithinTasks, W2
<1> QED BY <1>4, <1>12, <1>13, <1>14 DEF IInv, Inv

\* An administrator's reset starts the window over.
LEMMA ResetInv ==
    ASSUME IInv, Reset
    PROVE  IInv'
<1>1. Stored' = 0 /\ Stale' = Stale /\ sec' = sec
  BY DEF Reset, Stored, Stale, InFlight, Boundary, clockVars
<1>2. TypeOK' /\ StampsInPast'
  BY QuotaAssumption DEF Reset, clockVars, IInv, Inv, TypeOK, ClockTypeOK, StampsInPast,
                         InFlight
<1>3. KeyCountsWindow'
  BY <1>1 DEF Reset, KeyCountsWindow
<1>4. LateWithinTasks'
  <2>1. fresh' = 0 /\ late' = 0 /\ closed' = closed
    BY DEF Reset
  <2> QED BY <1>1, <2>1, StaleFinite DEF IInv, LateWithinTasks
<1> QED BY <1>2, <1>3, <1>4 DEF IInv, Inv

\* A second that does not end the window keeps the set of stale requests; one
\* that does starts the history over, and drops the key.
LEMMA PassInv ==
    ASSUME IInv, Pass
    PROVE  IInv'
<1>1. /\ sec \in Nat /\ sec' \in Nat /\ sec <= sec' /\ sec' <= sec + 1
      /\ usec' \in 0 .. USec - 1 /\ stamp' = stamp
      /\ count' = count /\ deadline' = deadline
  BY ClockAssumption DEF Pass, Tick, keyVars, IInv, Inv, TypeOK, ClockTypeOK
<1>2. /\ count \in -1 .. MaxLimit /\ deadline \in Nat
      /\ fresh \in Nat /\ late \in Nat /\ debt \in Nat /\ closed \in Int
      /\ MaxLimit \in Nat \ {0}
      /\ stamp \in [Tasks -> Time \cup {NoTime}]
  BY QuotaAssumption DEF IInv, Inv, TypeOK, ClockTypeOK
<1>3. Boundary(sec) \in Nat /\ sec < Boundary(sec)
  BY <1>1, BoundaryAhead
<1>4. ClockTypeOK'
  BY <1>1 DEF IInv, Inv, TypeOK, ClockTypeOK
<1>5. TypeOK'
  BY <1>1, <1>2, <1>4 DEF TypeOK, Pass, history
<1>6. \A t \in InFlight : stamp[t].sec \in Nat /\ stamp[t].sec <= sec
  BY StampType DEF IInv, InFlight
<1>7. StampsInPast'
  BY <1>1, <1>6 DEF StampsInPast, InFlight
<1>8. CASE sec' < Boundary(sec)
  <2>1. UNCHANGED history
    BY <1>8 DEF Pass
  <2>2. Boundary(sec') = Boundary(sec)
    BY <1>1, <1>8, SameWindow
  <2>9. Stored' = Stored
    BY <1>1, <1>2, <1>3, <1>8 DEF IInv, Inv, KeyCountsWindow, Stored
  <2>3. KeyCountsWindow'
    <3>1. (Boundary(sec))' = Boundary(sec)
      BY <2>2 DEF Boundary
    <3> QED BY <1>1, <1>2, <2>1, <2>9, <3>1 DEF IInv, Inv, KeyCountsWindow, history
  <2>4. \A t \in InFlight : Boundary(stamp[t].sec) <= sec' => Boundary(stamp[t].sec) <= sec
    <3> SUFFICES ASSUME NEW t \in InFlight, ~(Boundary(stamp[t].sec) <= sec)
                 PROVE  ~(Boundary(stamp[t].sec) <= sec')
      OBVIOUS
    <3>1. Boundary(stamp[t].sec) \in Nat
      BY <1>6, BoundaryAhead
    <3>2. Boundary(sec) = Boundary(stamp[t].sec)
      BY <1>1, <1>6, <3>1, SameWindow
    <3> QED BY <1>1, <1>3, <1>8, <3>2
  <2>5. \A t \in InFlight : Boundary(stamp[t].sec) <= sec => Boundary(stamp[t].sec) <= sec'
    BY <1>1, <1>6, BoundaryAhead
  <2>6. Stale' = Stale
    BY <1>1, <2>4, <2>5 DEF Stale, InFlight, Boundary
  <2>7. LateWithinTasks'
    BY <2>1, <2>6, <2>9 DEF IInv, LateWithinTasks, history
  <2> QED BY <1>5, <1>7, <2>3, <2>7 DEF IInv, Inv
<1>9. CASE ~(sec' < Boundary(sec))
  <2>1. fresh' = 0 /\ late' = 0 /\ closed' = fresh - debt
        /\ debt' = IF count < 0 THEN 1 ELSE 0
    BY <1>9 DEF Pass
  <2>2. Stored' = IF count < 0 THEN -1 ELSE 0
    BY <1>1, <1>2, <1>3, <1>9 DEF IInv, Inv, KeyCountsWindow, Stored
  <2>3. KeyCountsWindow'
    BY <2>1, <2>2 DEF KeyCountsWindow
  <2>4. fresh - debt <= MaxLimit
    <3>1. Stored \in -1 .. MaxLimit
      BY <1>2 DEF Stored
    <3> QED BY <1>2, <3>1 DEF IInv, Inv, KeyCountsWindow
  <2>6. Cardinality(Stale') \in Nat /\ Cardinality(Tasks) \in Nat
        /\ Cardinality(Stale') <= Cardinality(Tasks)
    BY QuotaAssumption, FS_Subset, FS_CardinalityType DEF Stale, InFlight
  <2>5. LateWithinTasks'
    BY <1>2, <2>1, <2>2, <2>4, <2>6 DEF LateWithinTasks
  <2> QED BY <1>5, <1>7, <2>3, <2>5 DEF IInv, Inv
<1> QED BY <1>8, <1>9

LEMMA NextInv == IInv /\ [Next]_vars => IInv'
<1> SUFFICES ASSUME IInv, [Next]_vars PROVE IInv'
  OBVIOUS
<1>1. ASSUME NEW t \in Tasks, AskTime(t) PROVE IInv'
  BY <1>1, AskTimeInv
<1>2. ASSUME NEW t \in Tasks, NEW l \in Limits, Check(t, l) PROVE IInv'
  BY <1>2, CheckInv
<1>3. ASSUME NEW t \in Tasks, Fail(t) PROVE IInv'
  BY <1>3, FailInv
<1>4. CASE Pass
  BY <1>4, PassInv
<1>5. CASE Reset
  BY <1>5, ResetInv
<1>6. CASE UNCHANGED vars
  BY <1>6 DEF vars, IInv, Inv, TypeOK, ClockTypeOK, StampsInPast, InFlight,
              KeyCountsWindow, LateWithinTasks, Stale, Boundary, Stored
<1> QED BY <1>1, <1>2, <1>3, <1>4, <1>5, <1>6 DEF Next

LEMMA SpecInv == Spec => []IInv
  BY InitInv, NextInv, PTL DEF Spec

-----------------------------------------------------------------------------
(* The properties. *)

\* Every variable keeps its type; the counter under the key stays within -1 and
\* the largest limit that counts on it.
THEOREM TypeCorrect == Spec => []TypeOK
<1>1. IInv => TypeOK
  BY DEF IInv, Inv
<1> QED BY <1>1, SpecInv, PTL

\* A request that carries a time of the current window is admitted under its
\* own limit, for any number of concurrent requests under any other limits.
THEOREM FreshAdmissionsBounded == Spec => FreshWithinLimit
<1>1. IInv /\ [Next]_vars =>
          [\A t \in Tasks, l \in Limits :
               Check(t, l) /\ fresh' > fresh => fresh' <= l + debt]_vars
  <2> SUFFICES ASSUME IInv, NEW t \in Tasks, NEW l \in Limits, Check(t, l), fresh' > fresh
               PROVE  fresh' <= l + debt
    OBVIOUS
  <2>1. /\ fresh \in Nat /\ debt \in Nat /\ l \in Nat /\ Stored \in Int
        /\ fresh <= Stored + debt
    BY QuotaAssumption DEF IInv, Inv, TypeOK, KeyCountsWindow, Limits, Stored
  <2>2. Admits(Stored + 1, l) /\ fresh' = fresh + 1
    BY <2>1 DEF Check, Record
  <2> QED BY <2>1, <2>2 DEF Admits
<1> QED BY <1>1, SpecInv, PTL DEF Spec, FreshWithinLimit

\* No window admits more than one request per task beyond its largest limit.
THEOREM OvershootIsBounded == Spec => []OvershootBounded
<1>1. IInv => OvershootBounded
  <2> SUFFICES ASSUME IInv PROVE OvershootBounded
    OBVIOUS
  <2>1. /\ fresh \in Nat /\ late \in Nat /\ closed \in Int /\ MaxLimit \in Nat
        /\ Stored \in Int /\ Stored <= MaxLimit
    BY QuotaAssumption DEF IInv, Inv, TypeOK, ClockTypeOK, Stored
  <2>2. Cardinality(Stale) \in Nat /\ Cardinality(Tasks) \in Nat
    BY StaleFinite
  <2> QED BY <2>1, <2>2 DEF IInv, LateWithinTasks, OvershootBounded
<1> QED BY <1>1, SpecInv, PTL

\* The counter under a key is dropped at the end of the window it counts, and
\* counts no blocked request.
THEOREM CounterIsOfWindow == Spec => []CounterCountsWindow
<1>1. IInv => CounterCountsWindow
  BY DEF IInv, Inv, KeyCountsWindow, CounterCountsWindow
<1> QED BY <1>1, SpecInv, PTL

\* reset_at of a blocked request is the moment its counter disappears.
THEOREM ResetIsExact == Spec => ResetIsDeadline
<1>1. IInv /\ [Next]_vars =>
          [\A t \in Tasks, l \in Limits :
               LET now == stamp[t].sec
               IN  Check(t, l) /\ ~Admits(Stored + 1, l) /\ sec < Boundary(now)
                       => deadline' = Boundary(now)]_vars
  <2> SUFFICES ASSUME IInv, NEW t \in Tasks, NEW l \in Limits, Check(t, l),
                      ~Admits(Stored + 1, l), sec < Boundary(stamp[t].sec)
               PROVE  deadline' = Boundary(stamp[t].sec)
    OBVIOUS
  <2>1. Boundary(stamp[t].sec) = Boundary(sec)
    BY StampType DEF IInv, Check, Release
  <2>2. Stored \in Int /\ l \in Nat /\ deadline' = Deadline(Stored + 1, stamp[t].sec)
    BY QuotaAssumption DEF IInv, Inv, TypeOK, Limits, Stored, Check
  <2>3. CASE Stored = 0
    BY <2>2, <2>3 DEF Deadline
  <2>4. CASE Stored # 0
    <3>1. Stored > 0
      BY <2>2, <2>4 DEF Admits
    <3>2. deadline = Boundary(sec)
      BY <3>1 DEF IInv, Inv, KeyCountsWindow
    <3> QED BY <2>1, <2>2, <2>4, <3>2 DEF Deadline
  <2> QED BY <2>3, <2>4
<1> QED BY <1>1, SpecInv, PTL DEF Spec, ResetIsDeadline

=============================================================================
