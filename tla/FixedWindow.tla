---------------------------- MODULE FixedWindow -----------------------------
(***************************************************************************)
(* The fixed-window limiter: FIXED_WINDOW_SCRIPT and the check() that      *)
(* calls it, for one Redis key.  The key names a client, an algorithm and  *)
(* a path pattern but no limit (_build_redis_key), so rules of one pattern,*)
(* tiers, and a handler's own check count on it under limits of their own. *)
(* An absent key and a key at 0 behave alike in the script (INCR answers 1 *)
(* in both), so the key is its counter and the deadline EXPIREAT gave it.  *)
(***************************************************************************)
EXTENDS RedisClock, FiniteSets

CONSTANTS MaxLimit,  \* the largest limit that counts on the key
          Window

ASSUME QuotaAssumption ==
    /\ IsFiniteSet(Tasks)
    /\ MaxLimit \in Nat \ {0}
    /\ Window \in Nat \ {0}

\* A rule's limit is positive; a tier's is not validated, and may be 0.
Limits == 0 .. MaxLimit

VARIABLES count,     \* the counter under the key
          deadline,  \* the second at which Redis drops a positive counter
          fresh,     \* history: admissions of this window, since the last
                     \* reset, by requests whose TIME answer lies in it
          late,      \* history: those by requests that carry an earlier window
          debt,      \* history: DECRs of this window that undid the increment
                     \* of a counter that EXPIREAT had already deleted
          closed     \* history: admissions, by the time they carry, of the
                     \* window before this one, less its debt

keyVars == <<count, deadline>>
history == <<fresh, late, debt, closed>>
vars == <<sec, usec, stamp, count, deadline, fresh, late, debt, closed>>

\* Mutants: a boundary that floats with the request; a script that admits one
\* request too many; a blocked request that stays counted.
BoundaryFloating(now) == now + Window
AdmitsOneMore(n, l) == n <= l + 1
SettleInflated(n, l) == n

\* End of the window that holds second `now`.
Boundary(now) == (now \div Window) * Window + Window

\* The counter the script finds: an expired key is gone.  DECR of a deleted key
\* leaves -1 and no deadline.
Stored == IF count > 0 /\ deadline <= sec THEN 0 ELSE count

\* n is what INCR answered: admit under limit l, or undo the increment with DECR.
Admits(n, l) == n <= l
Settle(n, l) == IF Admits(n, l) THEN n ELSE n - 1

\* EXPIREAT on the first increment, else the deadline already there.
Deadline(n, now) == IF n = 1 THEN Boundary(now) ELSE deadline

\* EXPIREAT with a time that is not in the future deletes the key.
Deletes(n, now) == n = 1 /\ Boundary(now) <= sec

Init ==
    /\ ClockInit
    /\ count = 0
    /\ deadline = 0
    /\ fresh = 0
    /\ late = 0
    /\ debt = 0
    /\ closed = 0

AskTime(t) == ReadTime(t) /\ UNCHANGED <<keyVars, history>>

\* History of an admission that carries a time of the window ending at `end`.
Record(end) ==
    /\ UNCHANGED debt
    /\ IF sec < end
       THEN fresh' = fresh + 1 /\ UNCHANGED <<late, closed>>
       ELSE /\ late' = late + 1
            /\ closed' = IF Boundary(end) = Boundary(sec) THEN closed + 1 ELSE closed
            /\ UNCHANGED fresh

\* EVALSHA, for a request under limit l.
Check(t, l) ==
    LET now == stamp[t].sec
        n   == Stored + 1
    IN  /\ Release(t)
        /\ deadline' = Deadline(n, now)
        /\ count' = IF Deletes(n, now) THEN Settle(n, l) - 1 ELSE Settle(n, l)
        /\ IF Admits(n, l)
           THEN Record(Boundary(now))
           ELSE /\ debt' = IF Deletes(n, now) THEN debt + 1 ELSE debt
                /\ UNCHANGED <<fresh, late, closed>>

\* The second call fails before the script runs (timeout, connection lost).
Fail(t) == Release(t) /\ UNCHANGED <<keyVars, history>>

\* reset_counters: an administrator deletes the counters of the client.
Reset ==
    /\ count' = 0
    /\ fresh' = 0
    /\ late' = 0
    /\ debt' = 0
    /\ UNCHANGED <<clockVars, deadline, closed>>

Pass ==
    /\ Tick
    /\ UNCHANGED keyVars
    /\ IF sec' < Boundary(sec)
       THEN UNCHANGED history
       ELSE /\ fresh' = 0
            /\ late' = 0
            /\ debt' = IF count < 0 THEN 1 ELSE 0
            /\ closed' = fresh - debt

Next ==
    \/ \E t \in Tasks : AskTime(t) \/ Fail(t) \/ \E l \in Limits : Check(t, l)
    \/ Reset
    \/ Pass

Spec == Init /\ [][Next]_vars

-----------------------------------------------------------------------------
TypeOK ==
    /\ ClockTypeOK
    /\ count \in -1 .. MaxLimit
    /\ deadline \in Nat
    /\ fresh \in Nat
    /\ late \in Nat
    /\ debt \in Nat
    /\ closed \in Int

\* Whatever other limits count on the key, and however the scripts interleave
\* with those of requests that still carry the previous window's time, a
\* request that carries the current window's time is admitted under limit l
\* only while such requests have at most l admissions of the window, not
\* counting those that a lost increment (debt) gave away.
FreshWithinLimit ==
    [][\A t \in Tasks, l \in Limits :
           Check(t, l) /\ fresh' > fresh => fresh' <= l + debt]_vars

\* A request that crosses the boundary between TIME and EVALSHA can be admitted
\* without being counted, or give an admission away by a DECR of the key its
\* EXPIREAT deleted; the excess of a window is at most one admission per
\* concurrent task, whether a window is given the admissions made in it or those
\* that carry its time (less its debt).
OvershootBounded ==
    /\ fresh + late <= MaxLimit + Cardinality(Tasks)
    /\ closed <= MaxLimit + Cardinality(Tasks)

\* A stored counter ends with the window it counts, and counts no request that
\* was itself blocked: no order of TIME answers leaves a counter that outlives
\* its window or never expires, and nobody is blocked on account of the blocked.
CounterCountsWindow ==
    Stored > 0 => deadline = Boundary(sec) /\ Stored <= fresh + late

\* A request that is blocked by the window it asked about is told, as reset_at,
\* the very second at which the counter that blocks it disappears.
ResetIsDeadline ==
    [][\A t \in Tasks, l \in Limits :
           LET now == stamp[t].sec
           IN  Check(t, l) /\ ~Admits(Stored + 1, l) /\ sec < Boundary(now)
                   => deadline' = Boundary(now)]_vars

=============================================================================
