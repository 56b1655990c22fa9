---------------------------- MODULE TokenBucket -----------------------------
(***************************************************************************)
(* The token-bucket limiter: TOKEN_BUCKET_SCRIPT and the check() that      *)
(* calls it, for one Redis key.  Levels are counted in parts, Window parts *)
(* to a token: a bucket refills Limit parts a second, so the quotients the *)
(* script takes of rate = Limit / Window stay integers.                    *)
(***************************************************************************)
EXTENDS RedisClock

CONSTANTS Limit, Window,
          Burst         \* burst_multiplier in tenths

ASSUME BucketAssumption ==
    /\ Limit \in Nat \ {0}
    /\ Window \in Nat \ {0}
    /\ Burst \in 10 .. 100

Capacity == (Limit * Burst) \div 10
Full == Capacity * Window
CeilDiv(a, b) == (a + b - 1) \div b

VARIABLES tokens,       \* field "tokens" of the key, in parts
          last_refill,  \* field "last_refill" of the key
          expireAt,     \* when Redis drops the key
          granted,      \* history: requests admitted since the last reset
          rewound,      \* history: seconds by which stale stamps have set
                        \* the refill clock back since then
          epoch         \* history: when an administrator last reset the key

keyVars == <<tokens, last_refill, expireAt>>
history == <<granted, rewound, epoch>>
vars == <<sec, usec, stamp, tokens, last_refill, expireAt, granted, rewound,
          epoch>>

Gone == Passed(expireAt)

Elapsed(since, now) == IF now > since THEN now - since ELSE 0

\* Mutants: a refill not capped at the capacity, or rounded up to whole tokens;
\* a wait rounded down; a key kept for the window, whatever the burst.
FillUncapped(level, since, now) == level + Limit * Elapsed(since, now)
FillRounded(level, since, now) ==
    LET filled == Window * CeilDiv(FillUncapped(level, since, now), Window)
    IN  IF filled < Full THEN filled ELSE Full
WaitFloor(level) == (Window - level) \div Limit
LifetimeOfWindow == Window + 1

\* The level at second now of a bucket that stood at `level` at second `since`.
Fill(level, since, now) ==
    LET filled == level + Limit * Elapsed(since, now)
    IN  IF filled < Full THEN filled ELSE Full

\* The level the script decides on; a first request finds a full bucket.
Refilled(now) == IF Gone THEN Full ELSE Fill(tokens, last_refill, now)

Admits(level) == level >= Window
Take(level) == IF Admits(level) THEN level - Window ELSE level

\* retry_after of a blocked request, reset_at of either kind.
Wait(level) == CeilDiv(Window - level, Limit)
ResetAt(level, now) ==
    now + IF Admits(level) THEN CeilDiv(Full - Take(level), Limit) ELSE Wait(level)

\* expire_secs: the time a full refill takes, and one second.
Lifetime == CeilDiv(Full, Limit) + 1

\* How far a script that carries `now` sets the refill clock back.
Rewind(now) ==
    LET mark == IF Gone THEN expireAt.sec ELSE last_refill
    IN  IF now < mark THEN mark - now ELSE 0

Init ==
    /\ ClockInit
    /\ tokens = Full
    /\ last_refill = 0
    /\ expireAt = [sec |-> 0, usec |-> 0]
    /\ granted = 0
    /\ rewound = 0
    /\ epoch = 0

AskTime(t) == ReadTime(t) /\ UNCHANGED <<keyVars, history>>

\* EVALSHA.  The script stores the time it was given, even an older one.
Check(t) ==
    LET now   == stamp[t].sec
        level == Refilled(now)
    IN  /\ Release(t)
        /\ tokens' = Take(level)
        /\ last_refill' = now
        /\ expireAt' = After(Lifetime)
        /\ granted' = IF Admits(level) THEN granted + 1 ELSE granted
        /\ rewound' = rewound + Rewind(now)
        /\ UNCHANGED epoch

\* The second call fails before the script runs.
Fail(t) == Release(t) /\ UNCHANGED <<keyVars, history>>

\* reset_counters: an administrator deletes the counters of the client.
Reset ==
    /\ tokens' = Full
    /\ last_refill' = sec
    /\ expireAt' = Now
    /\ granted' = 0
    /\ rewound' = 0
    /\ epoch' = sec
    /\ UNCHANGED clockVars

Pass == Tick /\ UNCHANGED <<keyVars, history>>

Next ==
    \/ \E t \in Tasks : AskTime(t) \/ Check(t) \/ Fail(t)
    \/ Reset
    \/ Pass

Spec == Init /\ [][Next]_vars

-----------------------------------------------------------------------------
TypeOK ==
    /\ ClockTypeOK
    /\ tokens \in 0 .. Full
    /\ last_refill \in 0 .. sec
    /\ expireAt \in Time
    /\ granted \in Nat
    /\ rewound \in Nat
    /\ epoch \in 0 .. sec

\* What the bucket has given out and still holds never exceeds one full bucket
\* and the refill of the time since the last reset, where each second by which
\* a request with an old TIME answer sets last_refill back is refilled once more.
RateBound ==
    Window * granted + tokens <= Full + Limit * (last_refill + (rewound - epoch))

\* The bucket as if Redis never dropped the key: tokens and last_refill are
\* what the last script wrote, or a reset left, also after the expiry.
Eternal == INSTANCE EternalBucket WITH
    Token <- Window,
    Rate  <- Limit,
    Size  <- Full,
    level <- tokens,
    since <- last_refill

\* The expiry gives nobody more than the clock has refilled: the limiter
\* implements a bucket whose record is never dropped.  Redis drops the key only
\* when the kept bucket would be full, so a request with the current time
\* decides as if the key were there; one whose TIME answer is older may find a
\* full bucket where the kept one had yet to refill by that answer.
BucketSpec == Eternal!Spec

\* A second at which the bucket, if left alone after this step, first holds
\* `goal`.
FirstHolds(goal, second) ==
    /\ Fill(tokens', last_refill', second) >= goal
    /\ Fill(tokens', last_refill', second - 1) < goal

\* Nobody is told to wait too short or too long: left alone, the bucket has the
\* token a blocked request lacked at now + retry_after, which is its reset_at,
\* and is full again at the reset_at of an admitted one, and in neither case a
\* second earlier.
HintsExact ==
    [][\A t \in Tasks : Check(t) =>
          LET now   == stamp[t].sec
              level == Refilled(now)
          IN  FirstHolds(IF Admits(level) THEN Full ELSE Window,
                         ResetAt(level, now))]_vars

=============================================================================
