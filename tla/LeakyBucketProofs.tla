------------------------- MODULE LeakyBucketProofs --------------------------
(***************************************************************************)
(* LeakyBucket for every number of tasks, limit, window and clock.         *)
(***************************************************************************)
EXTENDS LeakyBucket, TLAPS

(* Arithmetic of the leak. *)

LEMMA Distribute ==
    ASSUME NEW a \in Int, NEW b \in Int, NEW c \in Int
    PROVE  /\ a * b \in Int
           /\ a * (b + c) = a * b + a * c
           /\ a * (b - c) = a * b - a * c
  BY Z3

LEMMA Monotone ==
    ASSUME NEW a \in Nat, NEW b \in Int, NEW c \in Int, b <= c
    PROVE  a * b <= a * c
  BY Z3

\* A quotient rounded down.
LEMMA FloorFacts ==
    ASSUME NEW a \in Nat, NEW b \in Nat \ {0}
    PROVE  a \div b \in Nat /\ b * (a \div b) <= a /\ (b <= a => a \div b >= 1)
  BY Z3

\* A quotient covers what its multiple covers.
LEMMA QuotientCovers ==
    ASSUME NEW a \in Int, NEW b \in Nat \ {0}, NEW c \in Nat, b * c <= a
    PROVE  c <= a \div b
  BY Z3

LEMMA Constants == /\ Limit \in Nat /\ Limit >= 1 /\ Window \in Nat /\ Window >= 1
                   /\ Window \in Nat \ {0} /\ Limit \in Nat \ {0}
                   /\ Capacity = Limit /\ Lifetime = Window + 1
  BY QueueAssumption DEF Capacity, Lifetime

\* The leak is not faster than Limit per Window seconds.
LEMMA LeakFacts ==
    ASSUME NEW since \in Nat, NEW now \in Nat
    PROVE  /\ Leak(since, now) \in Nat
           /\ Leak(since, now) > 0 => since < now
           /\ since < now => Window * Leak(since, now) <= Limit * (now - since)
<1> USE Constants
<1>1. CASE since < now
  <2>1. (now - since) * Limit \in Nat /\ (now - since) * Limit = Limit * (now - since)
    BY <1>1, Z3
  <2>2. Leak(since, now) = ((now - since) * Limit) \div Window
    BY <1>1 DEF Leak
  <2> QED BY <1>1, <2>1, <2>2, FloorFacts
<1>2. CASE ~(since < now)
  BY <1>2 DEF Leak
<1> QED BY <1>1, <1>2

\* In Wait seconds at least one request leaks.
LEMMA WaitLeaks ==
    ASSUME NEW since \in Nat, NEW now \in Nat, since <= now
    PROVE  Leak(since, now + Wait) >= 1
<1> USE Constants
<1>1. Wait \in Nat /\ Window <= Limit * Wait
  BY Z3 DEF Wait, CeilDiv
<1>2. Wait >= 1
  <2> SUFFICES ASSUME Wait = 0 PROVE FALSE
    BY <1>1
  <2>1. Limit * Wait = 0
    OBVIOUS
  <2> QED BY <1>1, <2>1
<1>3. PICK later \in Nat : later = now + Wait
  BY <1>1
<1>4. PICK gap \in Nat : gap = later - since
  BY <1>1, <1>3
<1>5. Wait <= gap /\ since < later
  BY <1>1, <1>2, <1>3, <1>4
<1>6. Limit * Wait <= Limit * gap /\ Limit * Wait \in Int /\ Limit * gap \in Int
      /\ gap * Limit = Limit * gap
  BY <1>1, <1>5, Monotone, Distribute, Z3
<1>7. gap * Limit \in Nat /\ Window <= gap * Limit
  BY <1>1, <1>6
<1>8. (gap * Limit) \div Window >= 1
  BY <1>7, FloorFacts
<1>9. Leak(since, later) = (gap * Limit) \div Window
  BY <1>4, <1>5 DEF Leak
<1> QED BY <1>3, <1>8, <1>9

-----------------------------------------------------------------------------
(* The inductive invariant. *)

StampsInPast == \A t \in InFlight : stamp[t].sec <= sec

\* The queue is empty by the time its key is dropped.
EmptyWhenDropped == Window * queue_size <= Limit * (expireAt.sec - last_leak)

IInv == TypeOK /\ StampsInPast /\ LeakBound /\ EmptyWhenDropped

LEMMA Types ==
    ASSUME IInv
    PROVE  /\ sec \in Nat /\ queue_size \in Nat /\ queue_size <= Limit
           /\ last_leak \in Nat /\ last_leak <= sec
           /\ expireAt.sec \in Nat /\ granted \in Nat /\ rewound \in Nat
           /\ epoch \in Nat /\ epoch <= sec
           /\ fluid \in Nat
           /\ Limit \in Nat /\ Limit >= 1 /\ Window \in Nat /\ Window >= 1
  BY Constants DEF IInv, TypeOK, ClockTypeOK, Time

LEMMA InitInv == Init => IInv
<1> SUFFICES ASSUME Init PROVE IInv
  OBVIOUS
<1>1. TypeOK
  BY Constants, ClockAssumption DEF Init, ClockInit, TypeOK, ClockTypeOK, Time
<1>2. StampsInPast
  BY DEF Init, ClockInit, StampsInPast, InFlight
<1>3. LeakBound /\ EmptyWhenDropped
  <2>1. Window * 0 = 0 /\ Limit * (0 + (0 - 0)) = 0 /\ Limit * (0 - 0) = 0
    BY Constants
  <2> QED BY <2>1 DEF Init, LeakBound, EmptyWhenDropped
<1> QED BY <1>1, <1>2, <1>3 DEF IInv

LEMMA StampType ==
    ASSUME IInv, NEW t \in Tasks, stamp[t] # NoTime
    PROVE  stamp[t].sec \in Nat /\ stamp[t].sec <= sec
  BY DEF IInv, TypeOK, ClockTypeOK, StampsInPast, InFlight, Time

\* What can have been granted by the time the key is dropped.
LEMMA GrantedWhenDropped ==
    ASSUME IInv
    PROVE  Window * granted <= Limit * (expireAt.sec + (rewound - epoch))
<1> USE Types
<1>1. /\ Limit * (last_leak + (rewound - epoch)) = Limit * last_leak + Limit * (rewound - epoch)
      /\ Limit * (expireAt.sec + (rewound - epoch)) = Limit * expireAt.sec + Limit * (rewound - epoch)
      /\ Limit * (expireAt.sec - last_leak) = Limit * expireAt.sec - Limit * last_leak
      /\ Limit * last_leak \in Int /\ Limit * (rewound - epoch) \in Int
      /\ Limit * expireAt.sec \in Int /\ Window * granted \in Int
      /\ Window * queue_size \in Int
  BY Distribute
<1> QED BY <1>1 DEF IInv, LeakBound, EmptyWhenDropped

\* What a script finds and where it leaves the leak clock.
LEMMA DrainFacts ==
    ASSUME IInv, NEW now \in Nat, now <= sec
    PROVE  /\ Drained(now) \in Nat /\ Drained(now) <= Limit
           /\ LeakClock(now) \in Nat /\ LeakClock(now) <= sec
           /\ Rewind(now) \in Nat
           /\ Window * granted <=
                  Window * Drained(now) + Limit * (LeakClock(now) + (rewound - epoch) + Rewind(now))
<1> USE Types
<1>1. Window * granted \in Int
  BY Distribute
<1>2. CASE Gone
  <2>1. Drained(now) = 0 /\ LeakClock(now) = now /\ Rewind(now) \in Nat
        /\ expireAt.sec + (rewound - epoch) <= now + (rewound - epoch) + Rewind(now)
    BY <1>2 DEF Drained, LeakClock, Rewind
  <2> DEFINE r == Rewind(now)
  <2> HIDE DEF r
  <2>2. /\ Limit * (expireAt.sec + (rewound - epoch)) <= Limit * (now + (rewound - epoch) + r)
        /\ Limit * (expireAt.sec + (rewound - epoch)) \in Int
        /\ Limit * (now + (rewound - epoch) + r) \in Int
    BY <2>1, Monotone, Distribute DEF r
  <2>3. Window * granted <= Window * 0 + Limit * (now + (rewound - epoch) + r)
    BY <1>1, <2>2, GrantedWhenDropped
  <2> QED BY <2>1, <2>3 DEF r
<1>3. CASE ~Gone
  <2> DEFINE leak == Leak(last_leak, now)
  <2>1. Leaked(now) = leak /\ Rewind(now) = 0
    BY <1>3 DEF Leaked, Rewind
  <2>2. leak \in Nat /\ (leak > 0 => last_leak < now)
        /\ (last_leak < now => Window * leak <= Limit * (now - last_leak))
    BY LeakFacts
  <2> HIDE DEF leak
  <2>3. /\ Drained(now) = IF queue_size <= leak THEN 0 ELSE queue_size - leak
        /\ LeakClock(now) = IF leak > 0 THEN now ELSE last_leak
    BY <1>3, <2>1 DEF Drained, LeakClock
  <2>4. Drained(now) \in Nat /\ Drained(now) <= Limit
        /\ queue_size - leak <= Drained(now)
        /\ LeakClock(now) \in Nat /\ LeakClock(now) <= sec
    BY <2>2, <2>3
  <2>5. Window * granted <= Window * queue_size + Limit * (last_leak + (rewound - epoch))
    BY DEF IInv, LeakBound
  <2>6. /\ Window * (queue_size - leak) = Window * queue_size - Window * leak
        /\ Window * queue_size \in Int /\ Window * leak \in Int
        /\ Window * Drained(now) \in Int
        /\ Window * (queue_size - leak) <= Window * Drained(now)
    <3>1. queue_size - leak \in Int /\ Drained(now) \in Int /\ leak \in Int
      BY <2>2, <2>4
    <3> QED BY <2>4, <3>1, Distribute, Monotone
  <2>7. CASE leak > 0
    <3>1. /\ Limit * (now - last_leak) = Limit * now - Limit * last_leak
          /\ Limit * (now + (rewound - epoch)) = Limit * now + Limit * (rewound - epoch)
          /\ Limit * (last_leak + (rewound - epoch)) = Limit * last_leak + Limit * (rewound - epoch)
          /\ Limit * now \in Int /\ Limit * last_leak \in Int /\ Limit * (rewound - epoch) \in Int
      BY Distribute
    <3>2. Window * granted <= Window * Drained(now) + Limit * (now + (rewound - epoch))
      BY <1>1, <2>2, <2>5, <2>6, <2>7, <3>1
    <3>3. LeakClock(now) + (rewound - epoch) + Rewind(now) = now + (rewound - epoch)
      BY <2>1, <2>3, <2>7
    <3> QED BY <2>1, <2>4, <3>2, <3>3
  <2>8. CASE ~(leak > 0)
    <3>1. Drained(now) = queue_size /\ LeakClock(now) + (rewound - epoch) + Rewind(now) = last_leak + (rewound - epoch)
      BY <2>1, <2>2, <2>3, <2>8
    <3> QED BY <2>1, <2>4, <2>5, <3>1
  <2> QED BY <2>7, <2>8
<1> QED
  <2>1. CASE Gone
    <3>1. Drained(now) = 0 /\ LeakClock(now) = now /\ Rewind(now) \in Nat
      BY <2>1 DEF Drained, LeakClock, Rewind
    <3> QED BY <1>2, <2>1, <3>1
  <2> QED BY <1>3, <2>1

LEMMA AskTimeInv ==
    ASSUME IInv, NEW t \in Tasks, AskTime(t)
    PROVE  IInv'
<1> USE DEF AskTime, ReadTime, keyVars, history
<1>1. TypeOK'
  BY DEF IInv, TypeOK, ClockTypeOK, Now, Time
<1>2. StampsInPast'
  BY DEF IInv, TypeOK, ClockTypeOK, StampsInPast, InFlight, Now
<1> QED BY <1>1, <1>2 DEF IInv, LeakBound, EmptyWhenDropped

LEMMA ReleaseClock ==
    ASSUME IInv, NEW t \in Tasks, Release(t)
    PROVE  ClockTypeOK' /\ StampsInPast'
  BY DEF Release, IInv, TypeOK, ClockTypeOK, StampsInPast, InFlight

LEMMA FailInv ==
    ASSUME IInv, NEW t \in Tasks, Fail(t)
    PROVE  IInv'
<1> USE DEF Fail, keyVars, history
<1>1. ClockTypeOK' /\ StampsInPast' /\ sec' = sec
  BY ReleaseClock DEF Release
<1> QED BY <1>1 DEF IInv, TypeOK, LeakBound, EmptyWhenDropped

LEMMA CheckInv ==
    ASSUME IInv, NEW t \in Tasks, Check(t)
    PROVE  IInv'
<1> USE Types
<1> DEFINE now == stamp[t].sec
           size == Drained(now)
<1>1. /\ Release(t) /\ sec' = sec /\ usec' = usec /\ stamp[t] # NoTime
      /\ queue_size' = Join(size)
      /\ last_leak' = LeakClock(now)
      /\ expireAt' = After(Lifetime)
      /\ IF Admits(size) THEN granted' = granted + 1 /\ fluid' = fluid + Window
                         ELSE granted' = granted /\ fluid' = fluid
      /\ rewound' = rewound + Rewind(now) /\ epoch' = epoch
  BY DEF Check, Release
<1>2. now \in Nat /\ now <= sec
  BY <1>1, StampType
<1>3. /\ size \in Nat /\ size <= Limit
      /\ LeakClock(now) \in Nat /\ LeakClock(now) <= sec /\ Rewind(now) \in Nat
      /\ Window * granted <= Window * size + Limit * (LeakClock(now) + (rewound - epoch) + Rewind(now))
  BY <1>2, DrainFacts
<1> HIDE DEF now, size
<1>4. ClockTypeOK' /\ StampsInPast'
  BY <1>1, ReleaseClock
<1>5. queue_size' \in Nat /\ queue_size' <= Limit
  BY <1>1, <1>3, Constants DEF Join, Admits
<1>6. expireAt'.sec = sec + Window + 1 /\ expireAt' \in Time
  BY <1>1, Constants DEF After, Time, IInv, TypeOK, ClockTypeOK
<1>7. TypeOK'
  BY <1>1, <1>2, <1>3, <1>4, <1>5, <1>6, Constants DEF TypeOK
<1>8. LeakBound'
  <2>1. last_leak' + (rewound' - epoch') = LeakClock(now) + (rewound - epoch) + Rewind(now)
    BY <1>1, <1>2, <1>3
  <2>2. Window * granted' - Window * queue_size' = Window * granted - Window * size
        /\ Window * granted \in Int /\ Window * size \in Int
        /\ Window * granted' \in Int /\ Window * queue_size' \in Int
    <3>1. /\ Window * (granted + 1) = Window * granted + Window * 1
          /\ Window * (size + 1) = Window * size + Window * 1
          /\ Window * 1 = Window
          /\ Window * granted \in Int /\ Window * size \in Int
      BY <1>3, Distribute
    <3>2. CASE Admits(size)
      BY <1>1, <3>1, <3>2 DEF Join
    <3>3. CASE ~Admits(size)
      BY <1>1, <3>1, <3>3 DEF Join
    <3> QED BY <3>2, <3>3
  <2> DEFINE x == Limit * (LeakClock(now) + (rewound - epoch) + Rewind(now))
  <2>3. x \in Int
    BY <1>3, Distribute
  <2>4. Window * granted <= Window * size + x
    BY <1>3
  <2> HIDE DEF x
  <2>5. Window * granted' <= Window * queue_size' + x
    BY <2>2, <2>3, <2>4
  <2> QED BY <2>1, <2>5 DEF LeakBound, x
<1>9. EmptyWhenDropped'
  <2>1. Window + 1 <= sec + Window + 1 - LeakClock(now)
    BY <1>3
  <2>2. /\ Limit * (Window + 1) <= Limit * (sec + Window + 1 - LeakClock(now))
        /\ Limit * (Window + 1) = Limit * Window + Limit * 1 /\ Limit * 1 = Limit
        /\ Limit * (sec + Window + 1 - LeakClock(now)) \in Int
        /\ Limit * Window \in Int
    <3>1. Window + 1 \in Int /\ sec + Window + 1 - LeakClock(now) \in Int /\ 1 \in Int
      BY <1>3
    <3> QED BY <2>1, <3>1, Monotone, Distribute
  <2>3. Window * queue_size' <= Window * Limit /\ Window * Limit = Limit * Window
        /\ Window * queue_size' \in Int
    BY <1>5, Monotone, Distribute, Z3
  <2>4. Window * queue_size' <= Limit * (sec + Window + 1 - LeakClock(now))
    BY <2>2, <2>3
  <2>5. expireAt'.sec - last_leak' = sec + Window + 1 - LeakClock(now)
    BY <1>1, <1>3, <1>6
  <2> QED BY <2>4, <2>5 DEF EmptyWhenDropped
<1> QED BY <1>4, <1>7, <1>8, <1>9 DEF IInv

LEMMA PassInv ==
    ASSUME IInv, Pass
    PROVE  IInv'
<1> USE DEF Pass, keyVars
<1>1. sec \in Nat /\ sec' \in Nat /\ sec <= sec' /\ sec' - sec \in Nat
      /\ usec' \in 0 .. USec - 1 /\ stamp' = stamp
  BY ClockAssumption DEF Tick, IInv, TypeOK, ClockTypeOK
<1>2. fluid' \in Nat
  <2> DEFINE drop == Limit * (sec' - sec)
  <2>1. drop \in Int /\ Limit * 0 <= drop /\ Limit * 0 = 0
    BY <1>1, Types, Distribute, Monotone
  <2>2. fluid' = IF fluid > drop THEN fluid - drop ELSE 0
    OBVIOUS
  <2> HIDE DEF drop
  <2> QED BY <2>1, <2>2, Types
<1>3. TypeOK'
  BY <1>1, <1>2 DEF IInv, TypeOK, ClockTypeOK
<1>4. StampsInPast'
  BY <1>1, StampType DEF StampsInPast, InFlight
<1> QED BY <1>3, <1>4 DEF IInv, LeakBound, EmptyWhenDropped

\* An administrator's reset starts the key and its history over.
LEMMA ResetInv ==
    ASSUME IInv, Reset
    PROVE  IInv'
<1> USE Types
<1>1. TypeOK' /\ StampsInPast'
  BY Constants DEF Reset, clockVars, Now, Time, IInv, TypeOK, ClockTypeOK, StampsInPast,
                   InFlight
<1>2. LeakBound' /\ EmptyWhenDropped'
  <2>1. /\ Window * 0 = 0 /\ Limit * (sec + (0 - sec)) = 0 /\ Limit * (sec - sec) = 0
    BY Constants
  <2> QED BY <2>1 DEF Reset, Now, LeakBound, EmptyWhenDropped
<1> QED BY <1>1, <1>2 DEF IInv

LEMMA NextInv == IInv /\ [Next]_vars => IInv'
<1> SUFFICES ASSUME IInv, [Next]_vars PROVE IInv'
  OBVIOUS
<1>1. ASSUME NEW t \in Tasks, AskTime(t) PROVE IInv'
  BY <1>1, AskTimeInv
<1>2. ASSUME NEW t \in Tasks, Check(t) PROVE IInv'
  BY <1>2, CheckInv
<1>3. ASSUME NEW t \in Tasks, Fail(t) PROVE IInv'
  BY <1>3, FailInv
<1>4. CASE Pass
  BY <1>4, PassInv
<1>5. CASE Reset
  BY <1>5, ResetInv
<1>6. CASE UNCHANGED vars
  BY <1>6 DEF vars, IInv, TypeOK, ClockTypeOK, StampsInPast, InFlight,
              LeakBound, EmptyWhenDropped
<1> QED BY <1>1, <1>2, <1>3, <1>4, <1>5, <1>6 DEF Next

LEMMA SpecInv == Spec => []IInv
  BY InitInv, NextInv, PTL DEF Spec

-----------------------------------------------------------------------------
(* The properties. *)

\* Every variable keeps its type; the queue stays within its capacity.
THEOREM TypeCorrect == Spec => []TypeOK
<1>1. IInv => TypeOK
  BY DEF IInv
<1> QED BY <1>1, SpecInv, PTL

\* Everything admitted is in the queue or has leaked at the configured rate.
THEOREM LeakIsBounded == Spec => []LeakBound
<1>1. IInv => LeakBound
  BY DEF IInv
<1> QED BY <1>1, SpecInv, PTL

\* A key is dropped only when its queue has had the time to drain.
LEMMA DroppedEmpty ==
    ASSUME IInv, NEW now \in Nat, expireAt.sec <= now
    PROVE  Eternal!Left(now) = 0
<1> USE Types
<1>1. Leak(last_leak, now) \in Nat /\ Eternal!Leak(now) = Leak(last_leak, now)
  BY LeakFacts DEF Eternal!Leak, Leak
<1>2. CASE queue_size = 0
  BY <1>1, <1>2 DEF Eternal!Left
<1>3. CASE queue_size >= 1
  <2> DEFINE gap == now - last_leak
  <2>1. expireAt.sec - last_leak <= gap /\ gap \in Int
    OBVIOUS
  <2> HIDE DEF gap
  <2>2. /\ Limit * (expireAt.sec - last_leak) <= Limit * gap
        /\ Limit * (expireAt.sec - last_leak) \in Int
        /\ Limit * gap \in Int
        /\ Window * queue_size \in Int /\ Window * 1 <= Window * queue_size /\ Window * 1 = Window
        /\ gap * Limit = Limit * gap
    BY <1>3, <2>1, Monotone, Distribute, Z3
  <2>3. Window * queue_size <= Limit * gap
    BY <2>2 DEF IInv, EmptyWhenDropped
  <2>4. gap >= 1
    <3> SUFFICES ASSUME gap <= 0 PROVE FALSE
      BY <2>1
    <3>1. Limit * gap <= Limit * 0 /\ Limit * 0 = 0
      BY <2>1, Monotone
    <3> QED BY <2>2, <2>3, <3>1
  <2>5. Leak(last_leak, now) = (gap * Limit) \div Window
    BY <2>4 DEF Leak, gap
  <2>6. queue_size <= (gap * Limit) \div Window
    BY <2>1, <2>2, <2>3, QuotientCovers
  <2> QED BY <1>1, <2>5, <2>6 DEF Eternal!Left
<1> QED BY <1>2, <1>3

\* What a script finds, and where it moves the leak clock, is what the kept
\* queue gives by the time it carries, or an empty queue when the kept one has
\* drained by the clock.
LEMMA FindsKept ==
    ASSUME IInv, NEW now \in Nat, last_leak' = LeakClock(now)
    PROVE  Eternal!Finds(Drained(now), now)
<1> USE Types
<1>1. Leak(last_leak, now) \in Nat /\ Eternal!Leak(now) = Leak(last_leak, now)
  BY LeakFacts DEF Eternal!Leak, Leak
<1>2. CASE Gone
  <2>1. Drained(now) = 0 /\ LeakClock(now) = now
    BY <1>2 DEF Drained, LeakClock
  <2>2. Eternal!Left(sec) = 0
    BY <1>2, DroppedEmpty DEF Gone, Passed
  <2> QED BY <2>1, <2>2 DEF Eternal!Finds
<1>3. CASE ~Gone
  <2>1. Drained(now) = Eternal!Left(now)
    BY <1>1, <1>3 DEF Drained, Leaked, Eternal!Left
  <2>2. LeakClock(now) = IF Eternal!Leak(now) > 0 THEN now ELSE last_leak
    BY <1>1, <1>3 DEF LeakClock, Leaked
  <2> QED BY <2>1, <2>2 DEF Eternal!Finds
<1> QED BY <1>2, <1>3

\* The limiter implements the queue whose record is never dropped: a script is
\* a step Admit or Refuse, a reset is Reset, and the clock, which may drop the
\* key, is Elapse (LeakyBucket!QueueSpec).
THEOREM ImplementsQueue == Spec => QueueSpec
<1> DEFINE kept == <<sec, queue_size, last_leak, granted>>
<1>1. Init => Eternal!Init
  BY DEF Init, ClockInit, Eternal!Init
<1>2. IInv /\ [Next]_vars => [Eternal!Next]_kept
  <2> SUFFICES ASSUME IInv, [Next]_vars PROVE [Eternal!Next]_kept
    OBVIOUS
  <2> USE Types
  <2>1. ASSUME NEW t \in Tasks, Check(t)
        PROVE  \E now \in 0 .. sec : \E found \in 0 .. Capacity :
                   Eternal!Admit(found, now) \/ Eternal!Refuse(found, now)
    <3>1. PICK now \in 0 .. sec : now = stamp[t].sec
      BY <2>1, StampType DEF Check, Release
    <3>2. PICK size \in 0 .. Capacity : size = Drained(now)
      BY <3>1, DrainFacts, Constants
    <3>3. /\ sec' = sec /\ queue_size' = Join(size) /\ last_leak' = LeakClock(now)
          /\ granted' = IF Admits(size) THEN granted + 1 ELSE granted
      BY <2>1, <3>1, <3>2 DEF Check, Release
    <3>4. Eternal!Finds(size, now)
      BY <3>2, <3>3, FindsKept
    <3>5. CASE Admits(size)
      BY <3>3, <3>4, <3>5 DEF Eternal!Admit, Join, Admits
    <3>6. CASE ~Admits(size)
      BY <3>2, <3>3, <3>4, <3>6, Constants DEF Eternal!Refuse, Join, Admits
    <3> QED BY <3>5, <3>6
  <2>2. CASE Pass
    BY <2>2 DEF Pass, Tick, keyVars, Eternal!Elapse, Eternal!Next
  <2>3. CASE Reset
    BY <2>3 DEF Reset, clockVars, Eternal!Reset, Eternal!Next
  <2>4. ASSUME NEW t \in Tasks, AskTime(t) \/ Fail(t) PROVE UNCHANGED kept
    BY <2>4 DEF AskTime, ReadTime, Fail, Release, keyVars, history
  <2>5. CASE UNCHANGED vars
    BY <2>5 DEF vars
  <2> QED BY <2>1, <2>2, <2>3, <2>4, <2>5 DEF Next, Eternal!Next
<1> QED BY <1>1, <1>2, SpecInv, PTL DEF Spec, Eternal!Spec, QueueSpec

\* retry_after is never too short for a request that comes back alone.
THEOREM RetryIsSound == Spec => RetrySound
<1>1. ASSUME IInv, NEW t \in Tasks PROVE SoundWait(t)
  <2> DEFINE now == stamp[t].sec
  <2> SUFFICES ASSUME Check(t), ~Admits(Drained(now)), now >= last_leak
               PROVE  Admits(queue_size' - Leak(last_leak', now + Wait))
    BY DEF SoundWait
  <2> USE <1>1, Types
  <2>1. now \in Nat /\ now <= sec /\ queue_size' = Drained(now) /\ last_leak' = LeakClock(now)
    BY StampType DEF Check, Release, Join
  <2>2. Drained(now) \in Nat /\ Drained(now) = Limit
        /\ LeakClock(now) \in Nat
    <3> HIDE DEF now
    <3>1. Drained(now) \in Nat /\ Drained(now) <= Limit /\ LeakClock(now) \in Nat
      BY <2>1, DrainFacts
    <3> QED BY <3>1, Constants DEF Admits
  <2>3. LeakClock(now) <= now
    BY <2>1 DEF LeakClock
  <2>4. Wait \in Nat
    BY Constants, Z3 DEF Wait, CeilDiv
  <2>5. Leak(LeakClock(now), now + Wait) \in Nat /\ Leak(LeakClock(now), now + Wait) >= 1
    <3> HIDE DEF now
    <3>1. now + Wait \in Nat
      BY <2>1, <2>4
    <3> QED BY <2>1, <2>2, <2>3, <3>1, WaitLeaks, LeakFacts
  <2> QED BY <2>1, <2>2, <2>5, Constants DEF Admits
<1>2. IInv => \A t \in Tasks : SoundWait(t)
  BY <1>1
<1> QED BY <1>2, SpecInv, PTL DEF RetrySound

=============================================================================
