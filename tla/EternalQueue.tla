---------------------------- MODULE EternalQueue ----------------------------
(***************************************************************************)
(* What a leaky bucket promises, kept as a record that nothing ever drops: *)
(* a queue that holds up to Size requests and loses the whole part of Rate *)
(* per Period seconds.  What leaks is reckoned from the last leak.  A      *)
(* request reckons with a time `now` that need not be the latest.          *)
(***************************************************************************)
EXTENDS Integers

CONSTANTS Size, Rate, Period

VARIABLES sec,      \* the clock
          queue,    \* requests in the queue at second since
          since,
          granted   \* requests admitted since the last reset

Leak(now) == IF now > since THEN ((now - since) * Rate) \div Period ELSE 0
Left(now) == IF Leak(now) < queue THEN queue - Leak(now) ELSE 0

Init == sec = 0 /\ queue = 0 /\ since = 0 /\ granted = 0

\* What a request may find: the queue by its own time, where a leak of no whole
\* request is left to accumulate, or, once the queue has drained by the clock,
\* an empty one that leaks anew from the time of the request.
Finds(found, now) ==
    \/ found = Left(now) /\ since' = IF Leak(now) > 0 THEN now ELSE since
    \/ found = 0 /\ Left(sec) = 0 /\ since' = now

Admit(found, now) ==
    /\ Finds(found, now)
    /\ found < Size
    /\ queue' = found + 1
    /\ granted' = granted + 1
    /\ UNCHANGED sec

Refuse(found, now) ==
    /\ Finds(found, now)
    /\ found >= Size
    /\ queue' = found
    /\ UNCHANGED <<sec, granted>>

Reset == queue' = 0 /\ since' = sec /\ granted' = 0 /\ UNCHANGED sec

Elapse == sec' \in {sec, sec + 1} /\ UNCHANGED <<queue, since, granted>>

Next ==
    \/ \E now \in 0 .. sec : \E found \in 0 .. Size :
           Admit(found, now) \/ Refuse(found, now)
    \/ Reset
    \/ Elapse

Spec == Init /\ [][Next]_<<sec, queue, since, granted>>

=============================================================================
