--------------------------- MODULE SlidingWindow ----------------------------
(***************************************************************************)
(* The sliding-window limiter: SLIDING_WINDOW_SCRIPT and the check() that  *)
(* calls it, for one Redis key, a sorted set with one member per admitted  *)
(* request.  The uuid in a member keeps members apart; here the number of  *)
(* the admission does.  Requests under several limits share the key        *)
(* (_build_redis_key names no limit), as in FixedWindow.                   *)
(*                                                                         *)
(* The script scores members with ARGV[4], the second component of TIME,   *)
(* which is the microsecond within the current second: scores lie in       *)
(* 0 .. USec-1, and the cutoff of a window of a second or more is negative.*)
(***************************************************************************)
EXTENDS RedisClock, Sequences, FiniteSetsExt

CONSTANTS MaxLimit,  \* the largest limit that counts on the key
          Window

ASSUME QuotaAssumption ==
    /\ MaxLimit \in Nat \ {0}
    /\ Window \in Nat \ {0}

\* A rule's limit is positive; a tier's is not validated, and may be 0.
Limits == 0 .. MaxLimit

VARIABLES zset,      \* the sorted set: member -> score
          expireAt,  \* when Redis drops the key
          log        \* history: the server time and the limit of every
                     \* admission since the last reset

keyVars == <<zset, expireAt>>
vars == <<sec, usec, stamp, zset, expireAt, log>>

Gone == Passed(expireAt)

\* Mutants: a cutoff that forgets the window; one request too many; a key
\* kept for two windows; a waiting time rounded down.
CutoffNow(now) == now.usec
AdmitsOneMore(n, l) == n <= l
LifetimeTwice == 2 * Window + 1
WaitFloor(now, scores) ==
    IF scores = {} THEN Window
    ELSE (Min(scores) + Window * USec - now.usec) \div USec

\* What is left of the set after ZREMRANGEBYSCORE -inf cutoff.
Cutoff(now) == now.usec - Window * USec
Kept(now) == IF Gone THEN {} ELSE {m \in DOMAIN zset : zset[m] > Cutoff(now)}

Admits(n, l) == n < l

\* retry_after of a blocked request that leaves these scores in the set: from
\* the lowest, in whole seconds rounded up.
Wait(now, scores) ==
    IF scores = {} THEN Window
    ELSE -((now.usec - Min(scores) - Window * USec) \div USec)

\* EXPIRE, on an admission only.
Lifetime == Window + 1

Init ==
    /\ ClockInit
    /\ zset = <<>>
    /\ expireAt = [sec |-> 0, usec |-> 0]
    /\ log = <<>>

AskTime(t) == ReadTime(t) /\ UNCHANGED <<keyVars, log>>

\* EVALSHA for a request under limit l, count < l: ZADD and EXPIRE.
Admit(t, l) ==
    LET now    == stamp[t]
        member == Len(log) + 1
    IN  /\ Release(t)
        /\ Admits(Cardinality(Kept(now)), l)
        /\ zset' = [m \in Kept(now) \cup {member} |->
                       IF m = member THEN now.usec ELSE zset[m]]
        /\ expireAt' = After(Lifetime)
        /\ log' = Append(log, [sec |-> sec, usec |-> usec, limit |-> l])

\* EVALSHA, count >= l: only the ZREMRANGEBYSCORE is left behind.
Block(t, l) ==
    LET now == stamp[t]
    IN  /\ Release(t)
        /\ ~Admits(Cardinality(Kept(now)), l)
        /\ zset' = [m \in Kept(now) |-> zset[m]]
        /\ UNCHANGED <<expireAt, log>>

\* The second call fails before the script runs.
Fail(t) == Release(t) /\ UNCHANGED <<keyVars, log>>

\* reset_counters: an administrator deletes the counters of the client.
Reset ==
    /\ zset' = <<>>
    /\ expireAt' = Now
    /\ log' = <<>>
    /\ UNCHANGED clockVars

Pass == Tick /\ UNCHANGED <<keyVars, log>>

Next ==
    \/ \E t \in Tasks :
           AskTime(t) \/ Fail(t) \/ \E l \in Limits : Admit(t, l) \/ Block(t, l)
    \/ Reset
    \/ Pass

Spec == Init /\ [][Next]_vars

-----------------------------------------------------------------------------
Admission == [sec : Nat, usec : 0 .. USec - 1, limit : Limits]

TypeOK ==
    /\ ClockTypeOK
    /\ DOMAIN zset \subseteq DOMAIN log
    /\ Cardinality(DOMAIN zset) <= MaxLimit
    /\ \A m \in DOMAIN zset : zset[m] \in 0 .. USec - 1
    /\ expireAt \in Time
    /\ log \in Seq(Admission)

Quota == INSTANCE WindowQuota WITH
             USec <- USec, Limits <- Limits, Window <- Window,
             sec <- sec, usec <- usec, log <- log

\* The limiter implements the promise of a sliding window, for requests under
\* any limits, by the server time at which the scripts ran, with whatever TIME
\* answers and in whatever order.
QuotaSpec == Quota!Spec

\* Of which the bound: no Window seconds hold more than the largest limit.
WindowBound == Cardinality(Quota!Recent) <= MaxLimit

\* A request under limit l can only be blocked by l admissions in a row, each
\* less than Window + 1 seconds after the one before it and the last less than
\* that ago: a key that is left alone for Window + 1 seconds always recovers.
Follows(i) == IF i = Len(log) THEN Now ELSE log[i + 1]
Expiry(i) == [sec |-> log[i].sec + Window + 1, usec |-> log[i].usec]
BlockedByBusyKey ==
    \A t \in InFlight, l \in Limits :
        ~Admits(Cardinality(Kept(stamp[t])), l) =>
            /\ Len(log) >= l
            /\ \A i \in Len(log) - l + 1 .. Len(log) : Before(Follows(i), Expiry(i))

\* retry_after is taken from the lowest score, which is not the age of an
\* entry; yet a blocked client that waits for it and one second more, alone,
\* finds the key gone, whatever the stamps of the admissions and its own.
RetryWithinSecond ==
    \A t \in InFlight :
        LET kept   == Kept(stamp[t])
            retry  == Wait(stamp[t], {zset[m] : m \in kept})
        IN  kept # {} => ~Before(After(retry + 1), expireAt)

\* lua_scripts.py:60 says "Remove entries older than the window": a request
\* with the current time is blocked only by as many admissions of the last
\* Window seconds as its limit.  Refuted: the cutoff is negative and no entry is
\* ever removed.
NoFalseBlock ==
    \A t \in InFlight, l \in Limits :
        stamp[t] = Now /\ ~Admits(Cardinality(Kept(Now)), l) =>
            Cardinality(Quota!Recent) >= l

=============================================================================
