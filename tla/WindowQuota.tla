---------------------------- MODULE WindowQuota -----------------------------
(***************************************************************************)
(* What a sliding-window limiter promises: a request under limit l is      *)
(* admitted only while fewer than l requests, under whatever limits, have  *)
(* been admitted in the last Window seconds and since the last reset.  It  *)
(* says nothing of the requests it turns away.                             *)
(***************************************************************************)
EXTENDS Integers, Sequences, FiniteSets

CONSTANTS USec, Limits, Window

VARIABLES sec, usec,   \* the clock
          log          \* the admissions, oldest first: time and limit

\* Admissions less than Window seconds ago.
Recent ==
    {i \in DOMAIN log :
        \/ sec < log[i].sec + Window
        \/ sec = log[i].sec + Window /\ usec < log[i].usec}

Init == sec = 0 /\ usec = 0 /\ log = <<>>

Admit(l) ==
    /\ Cardinality(Recent) < l
    /\ log' = Append(log, [sec |-> sec, usec |-> usec, limit |-> l])
    /\ UNCHANGED <<sec, usec>>

Reset == log' = <<>> /\ UNCHANGED <<sec, usec>>

Elapse ==
    /\ \/ usec' = usec + 1 /\ usec' < USec /\ sec' = sec
       \/ usec' = 0 /\ sec' = sec + 1
    /\ UNCHANGED log

Next == (\E l \in Limits : Admit(l)) \/ Reset \/ Elapse

Spec == Init /\ [][Next]_<<sec, usec, log>>

=============================================================================
