--------------------------- MODULE EternalBucket ----------------------------
(***************************************************************************)
(* What a token bucket promises, kept as a record that nothing ever drops: *)
(* it starts full, refills Rate parts a second up to Size, and a request   *)
(* takes Token parts or, when there are fewer, nothing.  A request reckons *)
(* with a time `now` that need not be the latest.                          *)
(***************************************************************************)
EXTENDS Integers

CONSTANTS Token, Rate, Size

VARIABLES sec,      \* the clock
          level,    \* parts in the bucket at second since
          since,
          granted   \* requests admitted since the last reset

\* The parts in the bucket at second `now`.
Filled(now) ==
    LET sum == level + Rate * (IF now > since THEN now - since ELSE 0)
    IN  IF sum < Size THEN sum ELSE Size

\* What a request may find: the bucket by its own time, or, once the bucket is
\* full by the clock, a full one.  A request whose time is the clock's sees no
\* difference.
Finds(now) ==
    {Filled(now)} \cup (IF Filled(sec) = Size THEN {Size} ELSE {})

Init == sec = 0 /\ level = Size /\ since = 0 /\ granted = 0

Admit(found, now) ==
    /\ found >= Token
    /\ level' = found - Token
    /\ since' = now
    /\ granted' = granted + 1
    /\ UNCHANGED sec

Refuse(found, now) ==
    /\ found < Token
    /\ level' = found
    /\ since' = now
    /\ UNCHANGED <<sec, granted>>

Reset == level' = Size /\ since' = sec /\ granted' = 0 /\ UNCHANGED sec

Elapse == sec' \in {sec, sec + 1} /\ UNCHANGED <<level, since, granted>>

Next ==
    \/ \E now \in 0 .. sec : \E found \in Finds(now) :
           Admit(found, now) \/ Refuse(found, now)
    \/ Reset
    \/ Elapse

Spec == Init /\ [][Next]_<<sec, level, since, granted>>

=============================================================================
