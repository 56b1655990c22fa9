------------------------- MODULE TokenBucketProofs --------------------------
(***************************************************************************)
(* TokenBucket for every number of tasks, limit, window, burst and clock.  *)
(***************************************************************************)
EXTENDS TokenBucket, TLAPS

(* Arithmetic of the bucket. *)

\* A quotient rounded up is the least that suffices.
LEMMA CeilDivFacts ==
    ASSUME NEW a \in Nat, NEW b \in Nat \ {0}
    PROVE  /\ CeilDiv(a, b) \in Nat
           /\ a <= b * CeilDiv(a, b)
           /\ b * CeilDiv(a, b) < a + b
  BY Z3 DEF CeilDiv

LEMMA Distribute ==
    ASSUME NEW a \in Int, NEW b \in Int, NEW c \in Int
    PROVE  /\ a * b \in Int
           /\ a * (b + c) = a * b + a * c
           /\ a * (b - c) = a * b - a * c
  BY Z3

LEMMA Monotone ==
    ASSUME NEW a \in Nat, NEW b \in Int, NEW c \in Int, b <= c
    PROVE  a * b <= a * c
  BY Z3

LEMMA FullType == Capacity \in Nat /\ Full \in Nat /\ Window <= Full
<1>1. /\ Limit \in Nat /\ Limit >= 1 /\ Window \in Nat /\ Window >= 1
      /\ Burst \in Nat /\ Burst >= 10
  BY BucketAssumption
<1>2. Limit * 10 <= Limit * Burst /\ Limit * Burst \in Nat
  BY <1>1, Monotone, Z3
<1>3. Capacity \in Nat /\ Capacity >= 1
  BY <1>1, <1>2, Z3 DEF Capacity
<1>4. Capacity * Window \in Nat /\ Window <= Capacity * Window
  BY <1>1, <1>3, Z3
<1> QED BY <1>3, <1>4 DEF Full

LEMMA LifetimeFact == Lifetime \in Nat /\ Full + Limit <= Limit * Lifetime
<1> DEFINE c == CeilDiv(Full, Limit)
<1>1. c \in Nat /\ Full <= Limit * c /\ Limit \in Nat
  BY FullType, CeilDivFacts, BucketAssumption
<1>2. Limit * (c + 1) = Limit * c + Limit * 1 /\ Limit * c \in Int
  BY <1>1, Distribute
<1> QED BY <1>1, <1>2, FullType DEF Lifetime

-----------------------------------------------------------------------------
(* The inductive invariant. *)

StampsInPast == \A t \in InFlight : stamp[t].sec <= sec

\* The bucket is full by the time its key is dropped.
FullWhenDropped ==
    Full <= tokens + Limit * (expireAt.sec - last_refill)

IInv == TypeOK /\ StampsInPast /\ RateBound /\ FullWhenDropped

\* The variables, with the types the arithmetic needs.
LEMMA Types ==
    ASSUME IInv
    PROVE  /\ sec \in Nat /\ tokens \in Nat /\ tokens <= Full
           /\ last_refill \in Nat /\ last_refill <= sec
           /\ expireAt.sec \in Nat /\ granted \in Nat /\ rewound \in Nat
           /\ epoch \in Nat /\ epoch <= sec
           /\ Limit \in Nat /\ Limit >= 1 /\ Window \in Nat /\ Window >= 1
           /\ Full \in Nat /\ Window <= Full
  BY FullType, BucketAssumption DEF IInv, TypeOK, ClockTypeOK, Time

LEMMA InitInv == Init => IInv
<1> SUFFICES ASSUME Init PROVE IInv
  OBVIOUS
<1>1. TypeOK
  BY FullType, ClockAssumption DEF Init, ClockInit, TypeOK, ClockTypeOK, Time
<1>2. StampsInPast
  BY DEF Init, ClockInit, StampsInPast, InFlight
<1>3. RateBound /\ FullWhenDropped
  <2>1. Window * 0 = 0 /\ Limit * (0 + (0 - 0)) = 0 /\ Limit * (0 - 0) = 0
    BY BucketAssumption
  <2> QED BY <2>1, FullType DEF Init, RateBound, FullWhenDropped
<1> QED BY <1>1, <1>2, <1>3 DEF IInv

LEMMA StampType ==
    ASSUME IInv, NEW t \in Tasks, stamp[t] # NoTime
    PROVE  stamp[t].sec \in Nat /\ stamp[t].sec <= sec
  BY DEF IInv, TypeOK, ClockTypeOK, StampsInPast, InFlight, Time

\* What can have been granted by the time the key is dropped.
LEMMA GrantedWhenDropped ==
    ASSUME IInv
    PROVE  Window * granted <= Limit * (expireAt.sec + (rewound - epoch))
<1> USE Types
<1>1. /\ Limit * (last_refill + (rewound - epoch)) = Limit * last_refill + Limit * (rewound - epoch)
      /\ Limit * (expireAt.sec + (rewound - epoch)) = Limit * expireAt.sec + Limit * (rewound - epoch)
      /\ Limit * (expireAt.sec - last_refill) = Limit * expireAt.sec - Limit * last_refill
      /\ Limit * last_refill \in Int /\ Limit * (rewound - epoch) \in Int
      /\ Limit * expireAt.sec \in Int /\ Window * granted \in Int
  BY Distribute
<1> QED BY <1>1 DEF IInv, RateBound, FullWhenDropped

\* The level a script finds, its type, and that it keeps to the rate.
LEMMA LevelFacts ==
    ASSUME IInv, NEW now \in Nat, now <= sec
    PROVE  /\ Refilled(now) \in Nat /\ Refilled(now) <= Full
           /\ Rewind(now) \in Nat
           /\ Window * granted + Refilled(now)
                  <= Full + Limit * (now + (rewound - epoch) + Rewind(now))
<1> USE Types
<1> DEFINE r == Rewind(now)
<1>1. r \in Nat
  BY DEF Rewind
<1>2. Window * granted \in Int
  BY Distribute
<1>3. CASE Gone
  <2>1. Refilled(now) = Full
    BY <1>3 DEF Refilled
  <2>2. expireAt.sec + (rewound - epoch) <= now + (rewound - epoch) + r
    BY <1>3 DEF Rewind
  <2> HIDE DEF r
  <2>3. /\ Limit * (expireAt.sec + (rewound - epoch)) <= Limit * (now + (rewound - epoch) + r)
        /\ Limit * (expireAt.sec + (rewound - epoch)) \in Int
        /\ Limit * (now + (rewound - epoch) + r) \in Int
    BY <1>1, <2>2, Monotone, Distribute
  <2>4. Window * granted <= Limit * (now + (rewound - epoch) + r)
    BY <1>2, <2>3, GrantedWhenDropped
  <2> QED BY <1>1, <1>2, <2>1, <2>3, <2>4 DEF r
<1>4. CASE ~Gone
  <2> DEFINE e == Elapsed(last_refill, now)
  <2>1. e \in Nat /\ now + (rewound - epoch) + r = (last_refill + (rewound - epoch)) + e
    BY <1>4 DEF Rewind, Elapsed
  <2>2. Refilled(now) = IF tokens + Limit * e < Full THEN tokens + Limit * e ELSE Full
    BY <1>4 DEF Refilled, Fill
  <2> HIDE DEF e, r
  <2>3. /\ Limit * e \in Nat
        /\ Limit * (last_refill + (rewound - epoch) + e)
               = Limit * (last_refill + (rewound - epoch)) + Limit * e
        /\ Limit * (last_refill + (rewound - epoch)) \in Int
    <3>1. Limit * e \in Int /\ Limit * 0 <= Limit * e /\ Limit * 0 = 0
      BY <2>1, Monotone, Distribute
    <3> QED BY <2>1, <3>1, Distribute
  <2>4. Refilled(now) \in Nat /\ Refilled(now) <= Full
        /\ Refilled(now) <= tokens + Limit * e
    BY <2>2, <2>3
  <2>5. Window * granted + tokens <= Full + Limit * (last_refill + (rewound - epoch))
    BY DEF IInv, RateBound
  <2> HIDE DEF Refilled
  <2>6. Window * granted + Refilled(now) <= Full + Limit * (last_refill + (rewound - epoch)) + Limit * e
    BY <1>2, <2>3, <2>4, <2>5
  <2> QED BY <1>1, <2>1, <2>3, <2>4, <2>6 DEF r
<1> QED BY <1>3, <1>4

LEMMA AskTimeInv ==
    ASSUME IInv, NEW t \in Tasks, AskTime(t)
    PROVE  IInv'
<1> USE DEF AskTime, ReadTime, keyVars, history
<1>1. TypeOK'
  BY DEF IInv, TypeOK, ClockTypeOK, Now, Time
<1>2. StampsInPast'
  BY DEF IInv, TypeOK, ClockTypeOK, StampsInPast, InFlight, Now
<1> QED BY <1>1, <1>2 DEF IInv, RateBound, FullWhenDropped

LEMMA ReleaseClock ==
    ASSUME IInv, NEW t \in Tasks, Release(t)
    PROVE  ClockTypeOK' /\ StampsInPast'
  BY DEF Release, IInv, TypeOK, ClockTypeOK, StampsInPast, InFlight

LEMMA FailInv ==
    ASSUME IInv, NEW t \in Tasks, Fail(t)
    PROVE  IInv'
<1> USE DEF Fail, keyVars, history
<1>1. ClockTypeOK' /\ StampsInPast' /\ sec' = sec
  BY ReleaseClock DEF Release
<1> QED BY <1>1 DEF IInv, TypeOK, RateBound, FullWhenDropped

LEMMA CheckInv ==
    ASSUME IInv, NEW t \in Tasks, Check(t)
    PROVE  IInv'
<1> USE Types
<1> DEFINE now == stamp[t].sec
           level == Refilled(now)
<1>1. /\ Release(t) /\ sec' = sec /\ usec' = usec /\ stamp[t] # NoTime
      /\ tokens' = Take(level)
      /\ last_refill' = now
      /\ expireAt' = After(Lifetime)
      /\ granted' = IF Admits(level) THEN granted + 1 ELSE granted
      /\ rewound' = rewound + Rewind(now) /\ epoch' = epoch
  BY DEF Check, Release
<1>2. now \in Nat /\ now <= sec
  BY <1>1, StampType
<1>3. /\ level \in Nat /\ level <= Full /\ Rewind(now) \in Nat
      /\ Window * granted + level <= Full + Limit * (now + (rewound - epoch) + Rewind(now))
  BY <1>2, LevelFacts
<1> HIDE DEF now, level
<1>4. ClockTypeOK' /\ StampsInPast'
  BY <1>1, ReleaseClock
<1>5. tokens' \in Nat /\ tokens' <= Full
  BY <1>1, <1>3 DEF Take, Admits
<1>6. expireAt'.sec = sec + Lifetime /\ expireAt' \in Time
  BY <1>1, LifetimeFact DEF After, Time, IInv, TypeOK, ClockTypeOK
<1>7. TypeOK'
  BY <1>1, <1>2, <1>3, <1>4, <1>5, <1>6 DEF TypeOK
<1>8. RateBound'
  <2>1. last_refill' + (rewound' - epoch') = now + (rewound - epoch) + Rewind(now)
    BY <1>1, <1>2, <1>3
  <2>2. Window * granted' + tokens' = Window * granted + level
    <3>1. CASE Admits(level)
      <4>1. Window * (granted + 1) = Window * granted + Window * 1
            /\ Window * granted \in Int /\ Window * 1 = Window
        BY Distribute
      <4> QED BY <1>1, <1>3, <3>1, <4>1 DEF Take
    <3>2. CASE ~Admits(level)
      BY <1>1, <3>2 DEF Take
    <3> QED BY <3>1, <3>2
  <2> QED BY <1>3, <2>1, <2>2 DEF RateBound
<1>9. FullWhenDropped'
  <2>1. /\ Lifetime \in Nat /\ Full + Limit <= Limit * Lifetime
        /\ Lifetime <= sec + Lifetime - now
    BY <1>2, LifetimeFact
  <2>2. Limit * Lifetime <= Limit * (sec + Lifetime - now)
        /\ Limit * Lifetime \in Int /\ Limit * (sec + Lifetime - now) \in Int
    BY <1>2, <2>1, Monotone, Distribute
  <2>3. Full <= tokens' + Limit * (sec + Lifetime - now)
    BY <1>5, <2>1, <2>2
  <2>4. expireAt'.sec - last_refill' = sec + Lifetime - now
    BY <1>1, <1>2, <1>6, <2>1
  <2> QED BY <2>3, <2>4 DEF FullWhenDropped
<1> QED BY <1>4, <1>7, <1>8, <1>9 DEF IInv

LEMMA PassInv ==
    ASSUME IInv, Pass
    PROVE  IInv'
<1> USE DEF Pass, keyVars, history
<1>1. sec \in Nat /\ sec' \in Nat /\ sec <= sec' /\ usec' \in 0 .. USec - 1
      /\ stamp' = stamp
  BY ClockAssumption DEF Tick, IInv, TypeOK, ClockTypeOK
<1>2. TypeOK'
  BY <1>1 DEF IInv, TypeOK, ClockTypeOK
<1>3. StampsInPast'
  BY <1>1, StampType DEF StampsInPast, InFlight
<1> QED BY <1>2, <1>3 DEF IInv, RateBound, FullWhenDropped

\* An administrator's reset starts the key and its history over.
LEMMA ResetInv ==
    ASSUME IInv, Reset
    PROVE  IInv'
<1> USE Types
<1>1. TypeOK' /\ StampsInPast'
  BY FullType DEF Reset, clockVars, Now, Time, IInv, TypeOK, ClockTypeOK, StampsInPast,
                  InFlight
<1>2. RateBound' /\ FullWhenDropped'
  <2>1. /\ Window * 0 = 0 /\ Limit * (sec + (0 - sec)) = 0 /\ Limit * (sec - sec) = 0
    BY BucketAssumption
  <2> QED BY <2>1, FullType DEF Reset, Now, RateBound, FullWhenDropped
<1> QED BY <1>1, <1>2 DEF IInv

LEMMA NextInv == IInv /\ [Next]_vars => IInv'
<1> SUFFICES ASSUME IInv, [Next]_vars PROVE IInv'
  OBVIOUS
<1>1. ASSUME NEW t \in Tasks, AskTime(t) PROVE IInv'
  BY <1>1, AskTimeInv
<1>2. ASSUME NEW t \in Tasks, Check(t) PROVE IInv'
  BY <1>2, CheckInv
<1>3. ASSUME NEW t \in Tasks, Fail(t) PROVE IInv'
  BY <1>3, FailInv
<1>4. CASE Pass
  BY <1>4, PassInv
<1>5. CASE Reset
  BY <1>5, ResetInv
<1>6. CASE UNCHANGED vars
  BY <1>6 DEF vars, IInv, TypeOK, ClockTypeOK, StampsInPast, InFlight,
              RateBound, FullWhenDropped
<1> QED BY <1>1, <1>2, <1>3, <1>4, <1>5, <1>6 DEF Next

LEMMA SpecInv == Spec => []IInv
  BY InitInv, NextInv, PTL DEF Spec

-----------------------------------------------------------------------------
(* The properties. *)

\* Every variable keeps its type; the level stays between empty and full.
THEOREM TypeCorrect == Spec => []TypeOK
<1>1. IInv => TypeOK
  BY DEF IInv
<1> QED BY <1>1, SpecInv, PTL

\* The bucket gives out no more than one full bucket and its refill, a second
\* counted once more for each second a stale stamp sets the refill clock back.
THEOREM RateIsBounded == Spec => []RateBound
<1>1. IInv => RateBound
  BY DEF IInv
<1> QED BY <1>1, SpecInv, PTL

\* A key is dropped only when its bucket has had the time to fill up.
LEMMA DroppedFull ==
    ASSUME IInv, NEW now \in Nat, expireAt.sec <= now
    PROVE  Fill(tokens, last_refill, now) = Full
<1> USE Types
<1> DEFINE e == Elapsed(last_refill, now)
<1>1. expireAt.sec - last_refill <= e /\ e \in Nat
  BY DEF Elapsed
<1> HIDE DEF e
<1>2. /\ Limit * (expireAt.sec - last_refill) <= Limit * e
      /\ Limit * (expireAt.sec - last_refill) \in Int
      /\ Limit * e \in Int
  BY <1>1, Monotone, Distribute
<1>3. Full <= tokens + Limit * e
  BY <1>2 DEF IInv, FullWhenDropped
<1> QED BY <1>2, <1>3 DEF Fill, e

\* What a script finds is what the kept bucket holds by the time it carries, or
\* a full bucket when the kept one is full by the clock.
LEMMA FindsKept ==
    ASSUME IInv, NEW now \in Nat
    PROVE  Refilled(now) \in Eternal!Finds(now)
<1> USE Types
<1>1. \A second \in Nat : Eternal!Filled(second) = Fill(tokens, last_refill, second)
  BY DEF Eternal!Filled, Fill, Elapsed
<1>2. CASE Gone
  <2>1. Refilled(now) = Full
    BY <1>2 DEF Refilled
  <2>2. Eternal!Filled(sec) = Full
    BY <1>1, <1>2, DroppedFull DEF Gone, Passed
  <2> QED BY <2>1, <2>2 DEF Eternal!Finds
<1>3. CASE ~Gone
  BY <1>1, <1>3 DEF Refilled, Eternal!Finds
<1> QED BY <1>2, <1>3

\* The limiter implements the bucket whose record is never dropped: a script is
\* a step Admit or Refuse, a reset is Reset, and the clock, which may drop the
\* key, is Elapse (TokenBucket!BucketSpec).
THEOREM ImplementsBucket == Spec => BucketSpec
<1> DEFINE kept == <<sec, tokens, last_refill, granted>>
<1>1. Init => Eternal!Init
  BY DEF Init, ClockInit, Eternal!Init
<1>2. IInv /\ [Next]_vars => [Eternal!Next]_kept
  <2> SUFFICES ASSUME IInv, [Next]_vars PROVE [Eternal!Next]_kept
    OBVIOUS
  <2> USE Types
  <2>1. ASSUME NEW t \in Tasks, Check(t)
        PROVE  \E now \in 0 .. sec : \E found \in Eternal!Finds(now) :
                   Eternal!Admit(found, now) \/ Eternal!Refuse(found, now)
    <3>1. PICK now \in 0 .. sec : now = stamp[t].sec
      BY <2>1, StampType DEF Check, Release
    <3>2. PICK level \in Eternal!Finds(now) : level = Refilled(now) /\ level \in Nat
      BY <3>1, LevelFacts, FindsKept
    <3>3. /\ sec' = sec /\ tokens' = Take(level) /\ last_refill' = now
          /\ granted' = IF Admits(level) THEN granted + 1 ELSE granted
      BY <2>1, <3>1, <3>2 DEF Check, Release
    <3>4. CASE Admits(level)
      BY <3>2, <3>3, <3>4 DEF Eternal!Admit, Take, Admits
    <3>5. CASE ~Admits(level)
      BY <3>2, <3>3, <3>5 DEF Eternal!Refuse, Take, Admits
    <3> QED BY <3>4, <3>5
  <2>2. CASE Pass
    BY <2>2 DEF Pass, Tick, keyVars, history, Eternal!Elapse, Eternal!Next
  <2>3. CASE Reset
    BY <2>3 DEF Reset, clockVars, Eternal!Reset, Eternal!Next
  <2>4. ASSUME NEW t \in Tasks, AskTime(t) \/ Fail(t) PROVE UNCHANGED kept
    BY <2>4 DEF AskTime, ReadTime, Fail, Release, keyVars, history
  <2>5. CASE UNCHANGED vars
    BY <2>5 DEF vars
  <2> QED BY <2>1, <2>2, <2>3, <2>4, <2>5 DEF Next, Eternal!Next
<1> QED BY <1>1, <1>2, SpecInv, PTL DEF Spec, Eternal!Spec, BucketSpec

\* A bucket at `level` reaches `goal` after the quotient rounded up, and not a
\* second before.
LEMMA ReachesGoal ==
    ASSUME NEW level \in Nat, NEW goal \in Nat, NEW now \in Nat,
           level < goal, goal <= Full,
           NEW second, second = now + CeilDiv(goal - level, Limit)
    PROVE  Fill(level, now, second) >= goal /\ Fill(level, now, second - 1) < goal
<1> DEFINE wait == CeilDiv(goal - level, Limit)
<1>1. Limit \in Nat \ {0} /\ Full \in Nat
  BY BucketAssumption, FullType
<1>2. /\ wait \in Nat /\ goal - level <= Limit * wait
      /\ Limit * wait < goal - level + Limit
  <2>1. goal - level \in Nat
    OBVIOUS
  <2> QED BY <1>1, <2>1, CeilDivFacts
<1>3. second = now + wait /\ second \in Nat
  BY <1>2
<1> HIDE DEF wait
<1>4. wait >= 1
  <2> SUFFICES ASSUME wait = 0 PROVE FALSE
    BY <1>2
  <2>1. Limit * wait = 0
    BY <1>1
  <2> QED BY <1>2, <2>1
<1>5. Limit * (wait - 1) = Limit * wait - Limit * 1 /\ Limit * 1 = Limit
      /\ Limit * wait \in Int
  BY <1>1, <1>2, Distribute
<1>6. Fill(level, now, second) >= goal
  <2>1. Elapsed(now, second) = wait
    BY <1>3, <1>2, <1>4 DEF Elapsed
  <2>2. Fill(level, now, second) =
            IF level + Limit * wait < Full THEN level + Limit * wait ELSE Full
    BY <2>1 DEF Fill
  <2>3. level + Limit * wait >= goal
    BY <1>2, <1>5
  <2> QED BY <1>1, <2>2, <2>3
<1>7. Fill(level, now, second - 1) < goal
  <2>1. Elapsed(now, second - 1) = wait - 1
    BY <1>3, <1>2, <1>4 DEF Elapsed
  <2>2. level + Limit * (wait - 1) < goal
    BY <1>1, <1>2, <1>5
  <2>3. Fill(level, now, second - 1) =
            IF level + Limit * (wait - 1) < Full
            THEN level + Limit * (wait - 1) ELSE Full
    BY <2>1 DEF Fill
  <2>4. level + Limit * (wait - 1) \in Int
    BY <1>1, <1>5
  <2> QED BY <1>1, <2>2, <2>3, <2>4
<1> QED BY <1>6, <1>7

LEMMA HoldsAfterwards ==
    ASSUME NEW level \in Nat, NEW goal \in Nat, NEW now \in Nat, NEW second,
           tokens' = level, last_refill' = now,
           Fill(level, now, second) >= goal,
           Fill(level, now, second - 1) < goal
    PROVE  FirstHolds(goal, second)
  BY DEF FirstHolds

\* The waiting times a request is told are exact (TokenBucket!HintsExact).
THEOREM HintsAreExact == Spec => HintsExact
<1>1. ASSUME IInv, NEW t \in Tasks, Check(t)
      PROVE  LET now   == stamp[t].sec
                 level == Refilled(now)
             IN  FirstHolds(IF Admits(level) THEN Full ELSE Window,
                            ResetAt(level, now))
  <2> USE <1>1
  <2> USE Types
  <2>1. PICK now \in Nat : now = stamp[t].sec /\ now <= sec
    BY StampType DEF Check, Release
  <2>2. PICK level \in Nat : level = Refilled(now) /\ level <= Full
    BY <2>1, LevelFacts
  <2>3. tokens' = Take(level) /\ last_refill' = now
    BY <2>1, <2>2 DEF Check
  <2>4. CASE Admits(level)
    <3>1. Take(level) \in Nat /\ Take(level) < Full
      BY <2>2, <2>4 DEF Take, Admits
    <3>2. ResetAt(level, now) = now + CeilDiv(Full - Take(level), Limit)
      BY <2>4 DEF ResetAt
    <3>3. Full \in Nat /\ Full <= Full
      OBVIOUS
    <3> HIDE Types
    <3>4. FirstHolds(Full, ResetAt(level, now))
      <4>1. PICK second : second = ResetAt(level, now)
        OBVIOUS
      <4>2. /\ Fill(Take(level), now, second) >= Full
            /\ Fill(Take(level), now, second - 1) < Full
        BY <3>1, <3>2, <3>3, <4>1, ReachesGoal
      <4>3. FirstHolds(Full, second)
        BY <2>3, <3>1, <3>3, <4>2, HoldsAfterwards
      <4> QED BY <4>1, <4>3
    <3> QED BY <2>1, <2>2, <2>4, <3>4
  <2>5. CASE ~Admits(level)
    <3>1. Take(level) = level /\ level < Window /\ Window \in Nat /\ Window <= Full
      BY <2>2, <2>5 DEF Take, Admits
    <3>2. ResetAt(level, now) = now + CeilDiv(Window - level, Limit)
      BY <2>5 DEF ResetAt, Wait
    <3> HIDE Types
    <3>3. FirstHolds(Window, ResetAt(level, now))
      <4>1. PICK second : second = ResetAt(level, now)
        OBVIOUS
      <4>2. /\ Fill(level, now, second) >= Window
            /\ Fill(level, now, second - 1) < Window
        BY <3>1, <3>2, <4>1, ReachesGoal
      <4>3. FirstHolds(Window, second)
        BY <2>3, <3>1, <4>2, HoldsAfterwards
      <4> QED BY <4>1, <4>3
    <3> QED BY <2>1, <2>2, <2>5, <3>3
  <2> QED BY <2>4, <2>5
<1>2. IInv => \A t \in Tasks : Check(t) =>
          LET now   == stamp[t].sec
              level == Refilled(now)
          IN  FirstHolds(IF Admits(level) THEN Full ELSE Window,
                         ResetAt(level, now))
  BY <1>1
<1> QED BY <1>2, SpecInv, PTL DEF HintsExact

=============================================================================
