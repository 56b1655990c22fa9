----------------------------- MODULE RedisClock -----------------------------
(***************************************************************************)
(* What the check() of every limiter has in common: it asks Redis for      *)
(* TIME, and only then, in a second round trip, runs its Lua script with   *)
(* that answer as an argument.  Between the two calls the clock moves on   *)
(* and other tasks run their scripts, so a script may see a state that is  *)
(* newer than the time it was given.                                       *)
(*                                                                         *)
(* Redis TIME answers the pair <<seconds, microseconds of that second>>.   *)
(* A second has USec "microseconds"; a small USec keeps the model finite.  *)
(***************************************************************************)
EXTENDS Integers

CONSTANTS Tasks,    \* the requests the event loop runs concurrently
          USec,     \* microseconds in a second (1000000 in the code)
          MaxSec,   \* bound on the clock
          NoTime    \* held by a task that is not between TIME and EVALSHA

Time == [sec : Nat, usec : 0 .. USec - 1]

ASSUME ClockAssumption ==
    /\ USec \in Nat \ {0}
    /\ MaxSec \in Nat
    /\ NoTime \notin Time

VARIABLES sec,      \* Redis server clock, seconds
          usec,     \* Redis server clock, microseconds within the second
          stamp     \* stamp[t]: the TIME answer task t holds

clockVars == <<sec, usec, stamp>>

Now == [sec |-> sec, usec |-> usec]

Before(a, b) == a.sec < b.sec \/ (a.sec = b.sec /\ a.usec < b.usec)

\* The deadline EXPIRE key n sets, and whether a deadline has passed.
After(n) == [sec |-> sec + n, usec |-> usec]

Passed(time) ==
    \/ time.sec < sec
    \/ time.sec = sec /\ time.usec <= usec

InFlight == {t \in Tasks : stamp[t] # NoTime}

ClockTypeOK ==
    /\ sec \in Nat
    /\ usec \in 0 .. USec - 1
    /\ stamp \in [Tasks -> Time \cup {NoTime}]

ClockInit ==
    /\ sec = 0
    /\ usec = 0
    /\ stamp = [t \in Tasks |-> NoTime]

\* get_redis_time: the first round trip.
ReadTime(t) ==
    /\ stamp[t] = NoTime
    /\ stamp' = [stamp EXCEPT ![t] = Now]
    /\ UNCHANGED <<sec, usec>>

\* The second round trip ends; the limiter's module says what the script did.
Release(t) ==
    /\ stamp[t] # NoTime
    /\ stamp' = [stamp EXCEPT ![t] = NoTime]
    /\ UNCHANGED <<sec, usec>>

\* Time passes in the Redis server.
Tick ==
    /\ \/ /\ usec + 1 < USec
          /\ usec' = usec + 1
          /\ sec' = sec
       \/ /\ usec + 1 = USec
          /\ sec < MaxSec
          /\ usec' = 0
          /\ sec' = sec + 1
    /\ UNCHANGED stamp

=============================================================================
