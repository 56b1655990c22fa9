------------------------ MODULE SlidingWindowProofs -------------------------
(***************************************************************************)
(* SlidingWindow for every number of tasks, limit, window and clock, and   *)
(* that it implements WindowQuota.                                         *)
(***************************************************************************)
EXTENDS SlidingWindow, FiniteSetTheorems, WellFoundedInduction, TLAPS

(* The order of times. *)

LEMMA TimeFields ==
    ASSUME NEW a \in Time \cup Admission
    PROVE  a.sec \in Nat /\ a.usec \in Nat
  BY DEF Time, Admission

LEMMA NotBefore ==
    ASSUME NEW a \in Time \cup Admission, NEW b \in Time \cup Admission
    PROVE  ~Before(a, b) <=> b.sec < a.sec \/ (b.sec = a.sec /\ b.usec <= a.usec)
<1>1. a.sec \in Nat /\ a.usec \in Nat /\ b.sec \in Nat /\ b.usec \in Nat
  BY TimeFields
<1> QED BY <1>1 DEF Before

-----------------------------------------------------------------------------
(* The inductive invariant. *)

\* Every admission of the last Window seconds is in the set.
RecentKept == Quota!Recent \subseteq DOMAIN zset

LogInPast == \A i \in DOMAIN log : ~Before(Now, log[i])

\* The key outlives each of its admissions by Window + 1 seconds.
KeyOutlivesLog == \A i \in DOMAIN log : ~Before(expireAt, Expiry(i))

\* The set holds the last admissions, without a gap that would have dropped
\* the key between two of them.
UnbrokenRun ==
    /\ \E first \in 1 .. Len(log) + 1 :
           /\ DOMAIN zset = first .. Len(log)
           /\ \A i \in first .. Len(log) - 1 : Before(log[i + 1], Expiry(i))
    /\ Len(log) > 0 => expireAt = Expiry(Len(log))

IInv == TypeOK /\ RecentKept /\ LogInPast /\ KeyOutlivesLog /\ UnbrokenRun

LEMMA Types ==
    ASSUME IInv
    PROVE  /\ sec \in Nat /\ usec \in Nat /\ usec < USec /\ USec \in Nat /\ USec >= 1
           /\ MaxLimit \in Nat /\ MaxLimit >= 1 /\ Window \in Nat /\ Window >= 1
           /\ expireAt \in Time /\ log \in Seq(Admission) /\ Len(log) \in Nat
           /\ DOMAIN log = 1 .. Len(log)
           /\ \A i \in DOMAIN log : log[i] \in Admission
           /\ IsFiniteSet(DOMAIN zset) /\ Cardinality(DOMAIN zset) \in Nat
<1>1. log \in Seq(Admission) /\ Len(log) \in Nat /\ DOMAIN log = 1 .. Len(log)
      /\ \A i \in DOMAIN log : log[i] \in Admission
  BY DEF IInv, TypeOK
<1>2. IsFiniteSet(DOMAIN log)
  BY <1>1, FS_Interval
<1>3. IsFiniteSet(DOMAIN zset) /\ Cardinality(DOMAIN zset) \in Nat
  BY <1>2, FS_Subset, FS_CardinalityType DEF IInv, TypeOK
<1> QED BY <1>1, <1>3, ClockAssumption, QuotaAssumption DEF IInv, TypeOK, ClockTypeOK

LEMMA TimeTypes ==
    ASSUME IInv
    PROVE  /\ Now \in Time
           /\ Gone <=> ~Before(Now, expireAt)
           /\ \A i \in DOMAIN log : /\ Expiry(i) \in Time
                                   /\ Expiry(i).sec = log[i].sec + Window + 1
                                   /\ Expiry(i).usec = log[i].usec
<1> USE Types
<1>1. Now \in Time /\ Now.sec = sec /\ Now.usec = usec
  BY DEF Now, Time
<1>2. Gone <=> ~Before(Now, expireAt)
  BY <1>1, NotBefore DEF Gone, Passed
<1>3. ASSUME NEW i \in DOMAIN log
      PROVE  /\ Expiry(i) \in Time
             /\ Expiry(i).sec = log[i].sec + Window + 1
             /\ Expiry(i).usec = log[i].usec
  <2>1. log[i].sec \in Nat /\ log[i].usec \in 0 .. USec - 1
    BY DEF Admission
  <2> QED BY <2>1 DEF Expiry, Time
<1> QED BY <1>1, <1>2, <1>3

\* The cutoff lies below every score: the script never removes an entry.
LEMMA NothingRemoved ==
    ASSUME IInv, NEW now \in Time
    PROVE  Kept(now) = IF Gone THEN {} ELSE DOMAIN zset
<1> USE Types
<1>1. USec <= Window * USec /\ Window * USec \in Int
  BY Z3
<1>2. now.usec \in Nat /\ now.usec < USec
  BY DEF Time
<1>3. Cutoff(now) < 0 /\ Cutoff(now) \in Int
  BY <1>1, <1>2 DEF Cutoff
<1>4. \A m \in DOMAIN zset : zset[m] > Cutoff(now)
  BY <1>3 DEF IInv, TypeOK
<1> QED BY <1>4 DEF Kept

LEMMA KeptFinite ==
    ASSUME IInv, NEW now \in Time
    PROVE  IsFiniteSet(Kept(now)) /\ Cardinality(Kept(now)) \in Nat
           /\ Kept(now) \subseteq DOMAIN log
<1>1. Kept(now) \subseteq DOMAIN zset
  BY NothingRemoved
<1> QED BY <1>1, Types, FS_Subset, FS_CardinalityType DEF IInv, TypeOK

\* When the key is gone no admission is recent.
LEMMA GoneForgetsNothing ==
    ASSUME IInv, Gone
    PROVE  Quota!Recent = {}
<1> USE Types
<1> SUFFICES ASSUME NEW i \in DOMAIN log, i \in Quota!Recent PROVE FALSE
  BY DEF Quota!Recent
<1>1. /\ log[i].sec \in Nat /\ log[i].usec \in Nat
      /\ expireAt.sec \in Nat /\ expireAt.usec \in Nat
      /\ Expiry(i).sec = log[i].sec + Window + 1
  BY TimeTypes, TimeFields
<1>2. \/ Expiry(i).sec < expireAt.sec
      \/ Expiry(i).sec = expireAt.sec /\ Expiry(i).usec <= expireAt.usec
  BY TimeTypes, NotBefore DEF IInv, KeyOutlivesLog
<1>3. expireAt.sec <= sec
  BY <1>1 DEF Gone, Passed
<1>4. sec <= log[i].sec + Window
  BY <1>1 DEF Quota!Recent
<1> QED BY <1>1, <1>2, <1>3, <1>4

\* What the script counts covers what is recent.
LEMMA RecentCounted ==
    ASSUME IInv, NEW now \in Time
    PROVE  /\ Quota!Recent \subseteq Kept(now)
           /\ Cardinality(Quota!Recent) <= Cardinality(Kept(now))
<1>1. Quota!Recent \subseteq Kept(now)
  BY NothingRemoved, GoneForgetsNothing DEF IInv, RecentKept
<1> QED BY <1>1, KeptFinite, FS_Subset

LEMMA InitInv == Init => IInv
<1> SUFFICES ASSUME Init PROVE IInv
  OBVIOUS
<1>1. log = <<>> /\ Len(log) = 0 /\ DOMAIN log = {} /\ DOMAIN zset = {}
  BY DEF Init
<1>2. TypeOK
  <2>1. Cardinality(DOMAIN zset) = 0
    BY <1>1, FS_EmptySet
  <2> QED BY <1>1, <2>1, ClockAssumption, QuotaAssumption
          DEF Init, ClockInit, TypeOK, ClockTypeOK, Time
<1>3. RecentKept /\ LogInPast /\ KeyOutlivesLog
  BY <1>1 DEF RecentKept, LogInPast, KeyOutlivesLog, Quota!Recent
<1>4. UnbrokenRun
  BY <1>1 DEF UnbrokenRun
<1> QED BY <1>2, <1>3, <1>4 DEF IInv

LEMMA ReleaseClock ==
    ASSUME IInv, NEW t \in Tasks, Release(t)
    PROVE  ClockTypeOK' /\ sec' = sec /\ usec' = usec /\ stamp[t] \in Time
  BY DEF Release, IInv, TypeOK, ClockTypeOK

\* Steps that leave the key, the log and the clock alone.
LEMMA SameKeyInv ==
    ASSUME IInv, ClockTypeOK', UNCHANGED <<sec, usec, zset, expireAt, log>>
    PROVE  IInv'
  BY DEF IInv, TypeOK, RecentKept, LogInPast, Now, KeyOutlivesLog, UnbrokenRun, Quota!Recent,
         Expiry, Before, Time, Admission, Limits

LEMMA AskTimeInv ==
    ASSUME IInv, NEW t \in Tasks, AskTime(t)
    PROVE  IInv'
<1>1. ClockTypeOK'
  BY DEF AskTime, ReadTime, IInv, TypeOK, ClockTypeOK, Now, Time
<1> QED BY <1>1, SameKeyInv DEF AskTime, ReadTime, keyVars

LEMMA FailInv ==
    ASSUME IInv, NEW t \in Tasks, Fail(t)
    PROVE  IInv'
  BY ReleaseClock, SameKeyInv DEF Fail, keyVars

LEMMA BlockInv ==
    ASSUME IInv, NEW t \in Tasks, NEW l \in Limits, Block(t, l)
    PROVE  IInv'
<1> DEFINE kept == Kept(stamp[t])
<1>1. /\ Release(t) /\ UNCHANGED <<expireAt, log>>
      /\ zset' = [m \in kept |-> zset[m]]
  BY DEF Block
<1>2. ClockTypeOK' /\ sec' = sec /\ usec' = usec /\ stamp[t] \in Time
  BY <1>1, ReleaseClock
<1>3. /\ kept = (IF Gone THEN {} ELSE DOMAIN zset) /\ kept \subseteq DOMAIN log
      /\ Quota!Recent \subseteq kept
  BY <1>2, NothingRemoved, KeptFinite, RecentCounted
<1>4. DOMAIN zset' = kept /\ \A m \in kept : zset'[m] = zset[m]
  BY <1>1
<1> HIDE DEF kept
<1>5. Cardinality(kept) <= MaxLimit
  BY <1>3, FS_EmptySet, Types DEF IInv, TypeOK
<1>6. TypeOK'
  BY <1>1, <1>2, <1>3, <1>4, <1>5 DEF IInv, TypeOK, Admission, Time, Limits
<1>7. RecentKept' /\ LogInPast' /\ KeyOutlivesLog'
  BY <1>1, <1>2, <1>3, <1>4 DEF IInv, RecentKept, LogInPast, Now, KeyOutlivesLog,
                                Quota!Recent, Expiry, Before
<1>8. UnbrokenRun'
  <2>1. CASE ~Gone
    BY <1>1, <1>3, <1>4, <2>1 DEF IInv, UnbrokenRun, Expiry, Before
  <2>2. CASE Gone
    <3>1. PICK first \in 1 .. Len(log) + 1 : first = Len(log) + 1
      BY Types
    <3>2. first .. Len(log) = {} /\ first .. Len(log) - 1 = {}
      BY <3>1, Types
    <3>3. DOMAIN zset' = first .. Len(log')
          /\ \A i \in first .. Len(log') - 1 : Before(log[i + 1], Expiry(i))
      BY <1>1, <1>3, <1>4, <2>2, <3>2
    <3> QED BY <1>1, <3>3 DEF IInv, UnbrokenRun, Expiry, Before
  <2> QED BY <2>1, <2>2
<1> QED BY <1>6, <1>7, <1>8 DEF IInv

LEMMA AdmitInv ==
    ASSUME IInv, NEW t \in Tasks, NEW l \in Limits, Admit(t, l)
    PROVE  IInv'
<1> USE Types
<1> DEFINE now == stamp[t]
           kept == Kept(now)
<1>0. PICK member \in Nat : member = Len(log) + 1
  OBVIOUS
<1> DEFINE entry == [sec |-> sec, usec |-> usec, limit |-> l]
<1>1. /\ Release(t) /\ Cardinality(kept) < l
      /\ zset' = [m \in kept \cup {member} |->
                     IF m = member THEN now.usec ELSE zset[m]]
      /\ expireAt' = After(Lifetime)
      /\ log' = Append(log, entry)
  BY <1>0 DEF Admit, Admits
<1>2. ClockTypeOK' /\ sec' = sec /\ usec' = usec /\ now \in Time
  BY <1>1, ReleaseClock
<1>3. /\ Now \in Time /\ entry \in Admission /\ l \in Nat /\ l <= MaxLimit
      /\ entry.sec = Now.sec /\ entry.usec = Now.usec
  BY TimeTypes DEF IInv, TypeOK, ClockTypeOK, Admission, Limits, Now
<1>4. /\ log' \in Seq(Admission) /\ Len(log') = member /\ DOMAIN log' = 1 .. member
      /\ \A i \in DOMAIN log : log'[i] = log[i]
      /\ log'[member] = entry
  BY <1>0, <1>1, <1>3
<1>5. /\ kept = (IF Gone THEN {} ELSE DOMAIN zset)
      /\ IsFiniteSet(kept) /\ Cardinality(kept) \in Nat /\ kept \subseteq DOMAIN log
  BY <1>2, NothingRemoved, KeptFinite
<1>6. DOMAIN zset' = kept \cup {member}
  BY <1>1
<1>7. expireAt' \in Time /\ expireAt' = [sec |-> sec + Window + 1, usec |-> usec]
  BY <1>1 DEF After, Lifetime, Time
<1>8. (\A i \in DOMAIN log : Expiry(i)' = Expiry(i)) /\ Expiry(member)' = expireAt'
  BY <1>3, <1>4, <1>7 DEF Expiry, Now
<1> HIDE DEF kept, now, entry
<1>9. TypeOK'
  <2>1. Cardinality(kept \cup {member}) <= MaxLimit
    <3>1. member \notin kept
      BY <1>0, <1>5
    <3>2. Cardinality(kept \cup {member}) = Cardinality(kept) + 1
      BY <1>5, <3>1, FS_AddElement
    <3> QED BY <1>1, <1>3, <1>5, <3>2
  <2>2. kept \cup {member} \subseteq DOMAIN log'
    BY <1>0, <1>4, <1>5
  <2>3. \A m \in kept \cup {member} : zset'[m] \in 0 .. USec - 1
    <3>1. now.usec \in 0 .. USec - 1
      BY <1>2 DEF Time
    <3>2. \A m \in kept : zset[m] \in 0 .. USec - 1
      BY <1>5 DEF IInv, TypeOK
    <3> QED BY <1>1, <3>1, <3>2
  <2> QED BY <1>2, <1>4, <1>6, <1>7, <2>1, <2>2, <2>3 DEF TypeOK
<1>10. RecentKept'
  <2> SUFFICES ASSUME NEW i \in DOMAIN log', i \in Quota!Recent'
               PROVE  i \in kept \cup {member}
    BY <1>6 DEF RecentKept, Quota!Recent
  <2>1. CASE i \in DOMAIN log
    <3>1. i \in Quota!Recent
      BY <1>2, <1>4, <2>1 DEF Quota!Recent
    <3> QED BY <1>2, <3>1, RecentCounted DEF kept
  <2>2. CASE i \notin DOMAIN log
    BY <1>0, <1>4, <2>2
  <2> QED BY <2>1, <2>2
<1>11. KeyOutlivesLog'
  <2> SUFFICES ASSUME NEW i \in DOMAIN log' PROVE ~Before(expireAt', Expiry(i)')
    BY DEF KeyOutlivesLog, Before
  <2>1. CASE i = member
    <3>1. ~Before(expireAt', expireAt')
      BY <1>7, NotBefore
    <3> QED BY <1>8, <2>1, <3>1
  <2>2. CASE i # member
    <3>1. i \in DOMAIN log /\ Expiry(i)' = Expiry(i)
      BY <1>0, <1>4, <1>8, <2>2
    <3>2. /\ log[i].sec \in Nat /\ log[i].usec \in Nat
          /\ Expiry(i) \in Time
          /\ Expiry(i).sec = log[i].sec + Window + 1 /\ Expiry(i).usec = log[i].usec
      BY <3>1, TimeTypes, TimeFields
    <3>3. log[i].sec < Now.sec \/ (log[i].sec = Now.sec /\ log[i].usec <= Now.usec)
      BY <1>3, <3>1, NotBefore DEF IInv, LogInPast
    <3>4. \/ Expiry(i).sec < expireAt'.sec
          \/ Expiry(i).sec = expireAt'.sec /\ Expiry(i).usec <= expireAt'.usec
      BY <1>7, <3>2, <3>3 DEF Now
    <3> QED BY <1>7, <3>1, <3>2, <3>4, NotBefore
  <2> QED BY <2>1, <2>2
<1>12. LogInPast'
  <2>1. \A i \in DOMAIN log : ~Before(Now, log[i])
    BY DEF IInv, LogInPast
  <2>2. ~Before(Now, entry) /\ Now' = Now
    BY <1>2, <1>3, NotBefore DEF Now
  <2> QED BY <1>0, <1>4, <2>1, <2>2 DEF LogInPast, Before
<1>13. UnbrokenRun'
  <2>2. expireAt' = Expiry(Len(log))'
    BY <1>4, <1>8 DEF Expiry
  <2>3. CASE Gone
    <3>1. DOMAIN zset' = member .. Len(log')
      BY <1>0, <1>4, <1>5, <1>6, <2>3
    <3>2. \A i \in member .. Len(log') - 1 : Before(log'[i + 1], Expiry(i)')
      <4>1. member .. member - 1 = {}
        OBVIOUS
      <4> QED BY <1>4, <4>1
    <3>3. member \in 1 .. Len(log') + 1
      BY <1>0, <1>4
    <3>4. \E first \in 1 .. Len(log') + 1 :
              /\ DOMAIN zset' = first .. Len(log')
              /\ \A i \in first .. Len(log') - 1 : Before(log'[i + 1], Expiry(i)')
      BY <3>1, <3>2, <3>3
    <3> QED BY <2>2, <3>4 DEF UnbrokenRun, Before
  <2>4. CASE ~Gone
    <3>1. PICK first \in 1 .. Len(log) + 1 :
              /\ DOMAIN zset = first .. Len(log)
              /\ \A i \in first .. Len(log) - 1 : Before(log[i + 1], Expiry(i))
      BY DEF IInv, UnbrokenRun
    <3>2. DOMAIN zset' = first .. Len(log')
      BY <1>0, <1>4, <1>5, <1>6, <2>4, <3>1
    <3>3. ASSUME NEW i \in first .. Len(log') - 1
          PROVE  Before(log'[i + 1], Expiry(i)')
      <4>1. i \in DOMAIN log
        BY <1>0, <1>4, <3>1
      <4>2. CASE i = Len(log)
        <5>1. expireAt = Expiry(i) /\ Expiry(i)' = Expiry(i) /\ log'[i + 1] = entry
          BY <1>0, <1>4, <1>8, <4>1, <4>2 DEF IInv, UnbrokenRun
        <5>3. Before(entry, expireAt)
          BY <1>3, <2>4, TimeTypes DEF Before
        <5> QED BY <5>1, <5>3
      <4>3. CASE i # Len(log)
        <5>1. i + 1 \in DOMAIN log /\ i \in first .. Len(log) - 1
          BY <3>1, <4>1, <4>3
        <5> QED BY <1>0, <1>4, <1>8, <3>1, <4>1, <5>1
      <4> QED BY <4>2, <4>3
    <3>4. first \in 1 .. Len(log') + 1
      BY <1>0, <1>4
    <3>5. \E f \in 1 .. Len(log') + 1 :
              /\ DOMAIN zset' = f .. Len(log')
              /\ \A i \in f .. Len(log') - 1 : Before(log'[i + 1], Expiry(i)')
      BY <3>2, <3>3, <3>4
    <3> QED BY <2>2, <3>5 DEF UnbrokenRun, Before
  <2> QED BY <2>3, <2>4
<1> QED BY <1>9, <1>10, <1>11, <1>12, <1>13 DEF IInv

\* An administrator's reset forgets everything.
LEMMA ResetInv ==
    ASSUME IInv, Reset
    PROVE  IInv'
<1>1. /\ zset' = <<>> /\ log' = <<>> /\ expireAt' = Now /\ UNCHANGED clockVars
      /\ DOMAIN zset' = {} /\ DOMAIN log' = {} /\ Len(log') = 0
  BY DEF Reset
<1>2. TypeOK'
  <2>1. Cardinality(DOMAIN zset') = 0
    BY <1>1, FS_EmptySet
  <2>2. Now \in Time
    BY TimeTypes
  <2> QED BY <1>1, <2>1, <2>2, QuotaAssumption DEF IInv, TypeOK, ClockTypeOK, clockVars, Time
<1>3. RecentKept' /\ LogInPast' /\ KeyOutlivesLog'
  BY <1>1 DEF RecentKept, LogInPast, KeyOutlivesLog, Quota!Recent
<1>4. UnbrokenRun'
  BY <1>1 DEF UnbrokenRun
<1> QED BY <1>2, <1>3, <1>4 DEF IInv

LEMMA PassInv ==
    ASSUME IInv, Pass
    PROVE  IInv'
<1> USE Types
<1>1. /\ UNCHANGED <<stamp, zset, expireAt, log>>
      /\ sec' \in Nat /\ usec' \in 0 .. USec - 1
      /\ \/ sec' = sec /\ usec' = usec + 1
         \/ sec' = sec + 1 /\ usec' = 0
  BY DEF Pass, Tick, keyVars, IInv, TypeOK, ClockTypeOK
<1>2. TypeOK'
  BY <1>1 DEF IInv, TypeOK, ClockTypeOK, Time
<1>3. \A i \in DOMAIN log : log[i].sec \in Nat /\ log[i].usec \in Nat
  BY DEF Admission
<1>4. RecentKept'
  <2>1. ASSUME NEW i \in DOMAIN log, i \in Quota!Recent'
        PROVE  i \in Quota!Recent
    <3>1. \/ sec' < log[i].sec + Window
          \/ sec' = log[i].sec + Window /\ usec' < log[i].usec
      BY <1>1, <2>1 DEF Quota!Recent
    <3>2. \/ sec < log[i].sec + Window
          \/ sec = log[i].sec + Window /\ usec < log[i].usec
      BY <1>1, <1>3, <3>1
    <3> QED BY <3>2 DEF Quota!Recent
  <2>2. Quota!Recent' \subseteq DOMAIN log
    BY <1>1 DEF Quota!Recent
  <2> QED BY <1>1, <2>1, <2>2 DEF IInv, RecentKept
<1>5. LogInPast'
  <2>1. ASSUME NEW i \in DOMAIN log
        PROVE  ~Before(Now', log[i])
    <3>1. Now \in Time /\ Now' \in Time /\ log[i] \in Admission
      BY <1>1, TimeTypes DEF Now, Time
    <3>2. log[i].sec < Now.sec \/ (log[i].sec = Now.sec /\ log[i].usec <= Now.usec)
      BY <3>1, NotBefore DEF IInv, LogInPast
    <3>3. log[i].sec < Now'.sec \/ (log[i].sec = Now'.sec /\ log[i].usec <= Now'.usec)
      BY <1>1, <1>3, <3>2 DEF Now
    <3> QED BY <3>1, <3>3, NotBefore
  <2> QED BY <1>1, <2>1 DEF LogInPast, Before
<1>6. KeyOutlivesLog' /\ UnbrokenRun'
  BY <1>1 DEF IInv, KeyOutlivesLog, UnbrokenRun, Before, Expiry
<1> QED BY <1>2, <1>4, <1>5, <1>6 DEF IInv

LEMMA NextInv == IInv /\ [Next]_vars => IInv'
<1> SUFFICES ASSUME IInv, [Next]_vars PROVE IInv'
  OBVIOUS
<1>1. ASSUME NEW t \in Tasks, AskTime(t) PROVE IInv'
  BY <1>1, AskTimeInv
<1>2. ASSUME NEW t \in Tasks, NEW l \in Limits, Admit(t, l) PROVE IInv'
  BY <1>2, AdmitInv
<1>3. ASSUME NEW t \in Tasks, NEW l \in Limits, Block(t, l) PROVE IInv'
  BY <1>3, BlockInv
<1>4. ASSUME NEW t \in Tasks, Fail(t) PROVE IInv'
  BY <1>4, FailInv
<1>5. CASE Pass
  BY <1>5, PassInv
<1>6. CASE UNCHANGED vars
  <2>1. ClockTypeOK'
    BY <1>6 DEF vars, IInv, TypeOK, ClockTypeOK
  <2> QED BY <1>6, <2>1, SameKeyInv DEF vars
<1>7. CASE Reset
  BY <1>7, ResetInv
<1> QED BY <1>1, <1>2, <1>3, <1>4, <1>5, <1>6, <1>7 DEF Next

LEMMA SpecInv == Spec => []IInv
  BY InitInv, NextInv, PTL DEF Spec

-----------------------------------------------------------------------------
(* The properties. *)

\* Every variable keeps its type; the set never holds more entries than the
\* largest limit.
THEOREM TypeCorrect == Spec => []TypeOK
<1>1. IInv => TypeOK
  BY DEF IInv
<1> QED BY <1>1, SpecInv, PTL

\* No Window seconds hold more admissions than the largest limit.
THEOREM AdmissionsBounded == Spec => []WindowBound
<1>1. IInv => WindowBound
  <2> SUFFICES ASSUME IInv PROVE Cardinality(Quota!Recent) <= MaxLimit
    BY DEF WindowBound
  <2>1. Cardinality(Quota!Recent) <= Cardinality(DOMAIN zset)
        /\ Cardinality(Quota!Recent) \in Nat
    <3>1. Quota!Recent \subseteq DOMAIN zset /\ IsFiniteSet(DOMAIN zset)
      BY Types DEF IInv, RecentKept
    <3> QED BY <3>1, FS_Subset, FS_CardinalityType
  <2> QED BY <2>1, Types DEF IInv, TypeOK
<1> QED BY <1>1, SpecInv, PTL

\* A blocked request has a busy key before it, never an idle one.
THEOREM BlockingNeedsTraffic == Spec => []BlockedByBusyKey
<1>1. IInv => BlockedByBusyKey
  <2> SUFFICES ASSUME IInv, NEW t \in InFlight, NEW l \in Limits,
                      ~Admits(Cardinality(Kept(stamp[t])), l)
               PROVE  /\ Len(log) >= l
                      /\ \A i \in Len(log) - l + 1 .. Len(log) :
                             Before(Follows(i), Expiry(i))
    BY DEF BlockedByBusyKey
  <2> USE Types
  <2>0. SUFFICES ASSUME l >= 1
                 PROVE  /\ Len(log) >= l
                        /\ \A i \in Len(log) - l + 1 .. Len(log) :
                               Before(Follows(i), Expiry(i))
    <3>1. CASE l = 0
      <4>1. Len(log) - l + 1 .. Len(log) = {}
        BY <3>1
      <4> QED BY <3>1, <4>1
    <3> QED BY <3>1 DEF Limits
  <2>1. stamp[t] \in Time
    BY DEF InFlight, IInv, TypeOK, ClockTypeOK
  <2>2. ~Gone
    <3> SUFFICES ASSUME Gone PROVE FALSE
      OBVIOUS
    <3>1. Kept(stamp[t]) = {}
      BY DEF Kept
    <3> QED BY <2>0, <3>1, FS_EmptySet DEF Admits, Limits
  <2>3. Cardinality(DOMAIN zset) >= l
    BY <2>1, <2>2, NothingRemoved DEF Admits, Limits
  <2>4. PICK first \in 1 .. Len(log) + 1 :
            /\ DOMAIN zset = first .. Len(log)
            /\ \A i \in first .. Len(log) - 1 : Before(log[i + 1], Expiry(i))
    BY DEF IInv, UnbrokenRun
  <2>5. Cardinality(first .. Len(log)) = Len(log) - first + 1
    <3>1. first \in Int /\ Len(log) \in Int /\ first <= Len(log) + 1
      BY <2>4
    <3>2. Cardinality(first .. Len(log)) = IF first > Len(log) THEN 0 ELSE Len(log) - first + 1
      BY <3>1, FS_Interval
    <3> QED BY <3>1, <3>2
  <2>6. first <= Len(log) - l + 1 /\ Len(log) >= l
    BY <2>3, <2>4, <2>5 DEF Limits
  <2>7. Before(Now, expireAt)
    BY <2>2, TimeTypes
  <2>8. ASSUME NEW i \in Len(log) - l + 1 .. Len(log)
        PROVE  Before(Follows(i), Expiry(i))
    <3>1. CASE i = Len(log)
      BY <2>0, <2>6, <2>7, <3>1 DEF Follows, IInv, UnbrokenRun, Limits
    <3>2. CASE i # Len(log)
      <4>1. i \in first .. Len(log) - 1
        <5>1. i \in Int /\ Len(log) - l + 1 <= i /\ i <= Len(log) /\ first \in Int
          BY <2>4 DEF Limits
        <5>2. l \in Nat /\ Len(log) \in Nat
          BY DEF Limits
        <5> HIDE Types
        <5>3. first <= i
          BY <2>6, <5>1, <5>2
        <5>4. i <= Len(log) - 1
          BY <3>2, <5>1, <5>2
        <5> QED BY <5>1, <5>3, <5>4
      <4> QED BY <2>4, <3>2, <4>1 DEF Follows
    <3> QED BY <3>1, <3>2
  <2> QED BY <2>6, <2>8
<1> QED BY <1>1, SpecInv, PTL

\* Some member of a set of naturals is the least.
LEMMA LeastMember ==
    ASSUME NEW S \in SUBSET Nat, S # {}
    PROVE  Min(S) \in S
<1>1. IsWellFoundedOn(OpToRel(<, Nat), Nat)
  BY NatLessThanWellFounded
<1>2. PICK x \in S : \A y \in S : ~(<<y, x>> \in OpToRel(<, Nat))
  BY <1>1, WFMin
<1>3. \A y \in S : ~(y < x)
  BY <1>2 DEF OpToRel
<1>4. \A y \in S : x <= y
  BY <1>3
<1> QED BY <1>4 DEF Min

\* The waiting time is at least Window: scores and stamps lie within a second.
LEMMA WaitAtLeastWindow ==
    ASSUME IInv, NEW now \in Time, NEW scores \in SUBSET (0 .. USec - 1), scores # {}
    PROVE  Wait(now, scores) \in Int /\ Wait(now, scores) >= Window
<1>1. PICK low \in 0 .. USec - 1 : low = Min(scores)
  <2>1. scores \in SUBSET Nat
    BY Types
  <2> QED BY <2>1, LeastMember
<1>2. PICK late \in 0 .. USec - 1 : late = now.usec
  BY DEF Time
<1>3. Wait(now, scores) = -((late - low - Window * USec) \div USec)
  BY <1>1, <1>2 DEF Wait
<1>4. /\ late \in Int /\ low \in Int /\ late - low < USec /\ USec >= 1 /\ USec \in Int
      /\ Window \in Int
  BY Types
<1>5. \A x \in Int : x < USec =>
          /\ (x - Window * USec) \div USec \in Int
          /\ (x - Window * USec) \div USec < 1 - Window
  BY <1>4, Z3
<1> QED BY <1>3, <1>4, <1>5

\* Waiting for retry_after and a second more, alone, is enough.
THEOREM RetryIsSound == Spec => []RetryWithinSecond
<1>1. IInv => RetryWithinSecond
  <2> SUFFICES ASSUME IInv, NEW t \in InFlight, Kept(stamp[t]) # {}
               PROVE  ~Before(After(Wait(stamp[t], {zset[m] : m \in Kept(stamp[t])}) + 1),
                              expireAt)
    BY DEF RetryWithinSecond
  <2> USE Types
  <2>1. stamp[t] \in Time
    BY DEF InFlight, IInv, TypeOK, ClockTypeOK
  <2>2. ~Gone /\ Kept(stamp[t]) = DOMAIN zset
    BY <2>1, NothingRemoved
  <2>3. PICK wait \in Int : /\ wait = Wait(stamp[t], {zset[m] : m \in Kept(stamp[t])})
                            /\ wait >= Window
    <3>1. {zset[m] : m \in Kept(stamp[t])} \in SUBSET (0 .. USec - 1)
      BY <2>2 DEF IInv, TypeOK
    <3> QED BY <2>1, <3>1, WaitAtLeastWindow
  <2>4. Len(log) \in DOMAIN log /\ expireAt = Expiry(Len(log))
    BY <2>2 DEF IInv, TypeOK, UnbrokenRun
  <2>5. PICK last \in Admission : last = log[Len(log)]
    BY <2>4
  <2>6. /\ last.sec \in Nat /\ last.usec \in Nat
        /\ last.sec < sec \/ (last.sec = sec /\ last.usec <= usec)
    <3>1. ~Before(Now, last) /\ Now \in Time
      BY <2>4, <2>5, TimeTypes DEF IInv, LogInPast
    <3>2. last.sec \in Nat /\ last.usec \in Nat
      BY TimeFields
    <3> QED BY <3>1, <3>2, NotBefore DEF Now
  <2>7. expireAt.sec = last.sec + Window + 1 /\ expireAt.usec = last.usec
    BY <2>4, <2>5, TimeTypes
  <2>8. After(wait + 1).sec = sec + (wait + 1) /\ After(wait + 1).usec = usec
    BY DEF After
  <2>9. ~Before(After(wait + 1), expireAt)
    <3>1. expireAt.sec <= sec + (wait + 1)
      BY <2>3, <2>6, <2>7
    <3>2. expireAt.sec = sec + (wait + 1) => expireAt.usec <= usec
      BY <2>3, <2>6, <2>7
    <3>3. expireAt.sec \in Int /\ expireAt.usec \in Int /\ sec + (wait + 1) \in Int
      BY <2>6, <2>7
    <3> QED BY <2>8, <3>1, <3>2, <3>3 DEF Before
  <2> QED BY <2>3, <2>9
<1> QED BY <1>1, SpecInv, PTL

\* SlidingWindow implements WindowQuota: the script that admits a request is a
\* step Admit under
\* its limit, a reset is Reset, the clock is Elapse, and everything else is a stutter.
THEOREM ImplementsQuota == Spec => QuotaSpec
<1>1. Init => Quota!Init
  BY DEF Init, ClockInit, Quota!Init
<1>2. IInv /\ [Next]_vars => [Quota!Next]_<<sec, usec, log>>
  <2> SUFFICES ASSUME IInv, [Next]_vars PROVE [Quota!Next]_<<sec, usec, log>>
    OBVIOUS
  <2>1. ASSUME NEW t \in Tasks, NEW l \in Limits, Admit(t, l) PROVE Quota!Admit(l)
    <3>1. sec' = sec /\ usec' = usec /\ stamp[t] \in Time
      BY <2>1, ReleaseClock DEF Admit
    <3>2. /\ Cardinality(Kept(stamp[t])) < l
          /\ Cardinality(Quota!Recent) <= Cardinality(Kept(stamp[t]))
          /\ Cardinality(Kept(stamp[t])) \in Nat
      BY <2>1, <3>1, RecentCounted, KeptFinite DEF Admit, Admits
    <3>3. Cardinality(Quota!Recent) \in Nat
      BY <3>1, RecentCounted, KeptFinite, FS_Subset, FS_CardinalityType
    <3>4. Quota!Cardinality(Quota!Recent) < l
      BY <3>2, <3>3, Types DEF Quota!Cardinality, Cardinality, Limits
    <3>5. log' = Append(log, [sec |-> sec, usec |-> usec, limit |-> l])
      BY <2>1 DEF Admit
    <3> QED BY <3>1, <3>4, <3>5 DEF Quota!Admit
  <2>2. CASE Pass
    BY <2>2, Types DEF Pass, Tick, Quota!Next, Quota!Elapse
  <2>3. CASE Reset
    BY <2>3 DEF Reset, clockVars, Quota!Next, Quota!Reset
  <2>4. CASE ~(\E t \in Tasks, l \in Limits : Admit(t, l)) /\ ~Pass /\ ~Reset
    BY <2>4 DEF Next, AskTime, ReadTime, Block, Release, Fail, vars
  <2> QED BY <2>1, <2>2, <2>3, <2>4 DEF Quota!Next
<1> QED BY <1>1, <1>2, SpecInv, PTL DEF Spec, Quota!Spec, QuotaSpec

=============================================================================
