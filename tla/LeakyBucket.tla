---------------------------- MODULE LeakyBucket -----------------------------
(***************************************************************************)
(* The leaky-bucket limiter: LEAKY_BUCKET_SCRIPT and the check() that      *)
(* calls it, for one Redis key.  The queue holds whole requests and leaks  *)
(* Limit of them per Window seconds, rounded down at every call.           *)
(***************************************************************************)
EXTENDS RedisClock

CONSTANTS Limit, Window

ASSUME QueueAssumption ==
    /\ Limit \in Nat \ {0}
    /\ Window \in Nat \ {0}

Capacity == Limit
CeilDiv(a, b) == (a + b - 1) \div b

VARIABLES queue_size,   \* field "queue_size" of the key
          last_leak,    \* field "last_leak" of the key
          expireAt,     \* when Redis drops the key
          granted,      \* history: requests admitted since the last reset
          rewound,      \* history: seconds between a stale stamp and the
                        \* expiry or reset of the key it recreated
          epoch,        \* history: when an administrator last reset the key
          fluid         \* history: the queue, in parts (Window to a request),
                        \* if it leaked Limit parts every second

keyVars == <<queue_size, last_leak, expireAt>>
history == <<granted, rewound, epoch, fluid>>
vars == <<sec, usec, stamp, queue_size, last_leak, expireAt,
          granted, rewound, epoch, fluid>>

Gone == Passed(expireAt)

\* Mutants: a leak rounded up; a queue one too long; a key kept for
\* the leak of one request; a wait rounded down.
LeakUp(since, now) ==
    IF now > since THEN CeilDiv((now - since) * Limit, Window) ELSE 0
AdmitsFull(size) == size <= Capacity
WaitFloor == Window \div Limit
LifetimeOfOne == CeilDiv(Window, Limit)

\* What leaks between two seconds, in whole requests.
Leak(since, now) ==
    IF now > since THEN ((now - since) * Limit) \div Window ELSE 0

Leaked(now) == IF Gone THEN 0 ELSE Leak(last_leak, now)

\* The queue the script decides on; a first request finds it empty.
Drained(now) ==
    IF Gone \/ queue_size <= Leaked(now) THEN 0 ELSE queue_size - Leaked(now)

\* last_leak moves only when something leaked.
LeakClock(now) == IF Gone \/ Leaked(now) > 0 THEN now ELSE last_leak

Admits(size) == size < Capacity
Join(size) == IF Admits(size) THEN size + 1 ELSE size

\* retry_after of a blocked request; expire_secs, with capacity / rate = Window.
Wait == CeilDiv(Window, Limit)
Lifetime == Window + 1

\* How far a script that carries `now` sets back the clock of a dropped key.
Rewind(now) == IF Gone /\ now < expireAt.sec THEN expireAt.sec - now ELSE 0

Init ==
    /\ ClockInit
    /\ queue_size = 0
    /\ last_leak = 0
    /\ expireAt = [sec |-> 0, usec |-> 0]
    /\ granted = 0
    /\ rewound = 0
    /\ epoch = 0
    /\ fluid = 0

AskTime(t) == ReadTime(t) /\ UNCHANGED <<keyVars, history>>

\* EVALSHA.
Check(t) ==
    LET now  == stamp[t].sec
        size == Drained(now)
    IN  /\ Release(t)
        /\ queue_size' = Join(size)
        /\ last_leak' = LeakClock(now)
        /\ expireAt' = After(Lifetime)
        /\ IF Admits(size)
           THEN granted' = granted + 1 /\ fluid' = fluid + Window
           ELSE UNCHANGED <<granted, fluid>>
        /\ rewound' = rewound + Rewind(now)
        /\ UNCHANGED epoch

\* The second call fails before the script runs.
Fail(t) == Release(t) /\ UNCHANGED <<keyVars, history>>

\* reset_counters: an administrator deletes the counters of the client.
Reset ==
    /\ queue_size' = 0
    /\ last_leak' = sec
    /\ expireAt' = Now
    /\ granted' = 0
    /\ rewound' = 0
    /\ fluid' = 0
    /\ epoch' = sec
    /\ UNCHANGED clockVars

Pass ==
    LET drop == Limit * (sec' - sec)
    IN  /\ Tick
        /\ fluid' = IF fluid > drop THEN fluid - drop ELSE 0
        /\ UNCHANGED <<keyVars, granted, rewound, epoch>>

Next ==
    \/ \E t \in Tasks : AskTime(t) \/ Check(t) \/ Fail(t)
    \/ Reset
    \/ Pass

Spec == Init /\ [][Next]_vars

-----------------------------------------------------------------------------
TypeOK ==
    /\ ClockTypeOK
    /\ queue_size \in 0 .. Capacity
    /\ last_leak \in 0 .. sec
    /\ expireAt \in Time
    /\ granted \in Nat
    /\ rewound \in Nat
    /\ epoch \in 0 .. sec
    /\ fluid \in Nat

\* Every admitted request is in the queue or has leaked, and the leak never
\* runs faster than Limit per Window seconds: what was admitted fits in the
\* queue and the leak of the time since the last reset.  A stale stamp costs only
\* when it recreates a dropped key: it never makes a live key leak a second twice.
LeakBound ==
    Window * granted <= Window * queue_size + Limit * (last_leak + (rewound - epoch))

\* The queue as if Redis never dropped the key: queue_size and last_leak are
\* what the last script wrote, or a reset left, also after the expiry.
Eternal == INSTANCE EternalQueue WITH
    Size   <- Capacity,
    Rate   <- Limit,
    Period <- Window,
    queue  <- queue_size,
    since  <- last_leak

\* The expiry gives nobody more room than the clock has leaked: the limiter
\* implements a queue whose record is never dropped.  Redis drops the key only
\* when the kept queue would have drained, so a request with the current time
\* decides as if the key were there; one whose TIME answer is older may find
\* an empty queue where the kept one had yet to drain by that answer.
QueueSpec == Eternal!Spec

\* A blocked request that comes back, alone, when retry_after has elapsed is
\* admitted, unless its TIME answer was older than the leak clock.
SoundWait(t) ==
    LET now == stamp[t].sec
    IN  Check(t) /\ ~Admits(Drained(now)) /\ now >= last_leak =>
            Admits(queue_size' - Leak(last_leak', now + Wait))
RetrySound == [][\A t \in Tasks : SoundWait(t)]_vars

\* lua_scripts.py:152 says "Drain the queue proportional to elapsed time": a
\* request with the current time is blocked only when a queue that leaks in
\* proportion to time has no room for it.  Refuted: each call that leaks
\* forgets the fraction of a request that had not yet leaked.
DrainProportional ==
    \A t \in InFlight :
        stamp[t].sec = sec /\ ~Admits(Drained(sec)) =>
            fluid > Window * (Capacity - 1)

=============================================================================
