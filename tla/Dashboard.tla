----------------------------- MODULE Dashboard ------------------------------
(***************************************************************************)
(* The dashboard: a page that fires demo requests at the backend and, once *)
(* one of them cannot reach it, at the simulator, the four algorithms      *)
(* again in TypeScript.  JavaScript runs one event to its end before the   *)
(* next; the clock moves meanwhile.                                        *)
(***************************************************************************)
EXTENDS Integers, Sequences, FiniteSets

CONSTANTS Endpoints,    \* endpoints.ts: path, algo, limit, window and cap
          Second,       \* the length of a second; the unit of time is smaller
          Checks,       \* how often the page asks /health: twice in StrictMode
          BurstInputs,  \* what a user types as the burst size
          MaxBurst,     \* the largest burst
          LogSize,      \* entries the log keeps
          MaxFires,     \* bound: requests fired
          MaxTime       \* bound: the clock

Algorithms == {"sliding_window", "fixed_window", "token_bucket", "leaky_bucket"}

ASSUME EndpointAssumption ==
    \A e \in Endpoints :
        e.algo \in Algorithms /\ {e.limit, e.window, e.cap} \subseteq Nat \ {0}

ASSUME PageAssumption ==
    /\ {Second, MaxBurst} \subseteq Nat \ {0}
    /\ {Checks, LogSize, MaxFires, MaxTime} \subseteq Nat
    /\ BurstInputs \subseteq Int

Unset == <<>>

VARIABLES now,        \* Date.now()
          endpoint,   \* the endpoint chosen
          state,      \* the simulator's state of its path
          mode,       \* what the badge shows
          modeRef,    \* what fire() obeys
          unchecked,  \* answers of /health still to come
          todo,       \* what the event under way has still to fire
          inFlight,   \* fetches without an answer, of single clicks and bursts
          allowed, blocked, log,
          fires,      \* history: requests fired
          cleared,    \* history: requests recorded before the last Reset Stats
          admitted    \* history: when the simulator admitted a request

shown == <<allowed, blocked, log>>
simulator == <<state, admitted>>
modes == <<mode, modeRef, unchecked>>
vars == <<now, endpoint, state, mode, modeRef, unchecked, todo, inFlight,
          allowed, blocked, log, fires, cleared, admitted>>

Least(a, b) == IF a < b THEN a ELSE b
Most(a, b) == IF a > b THEN a ELSE b
CeilDiv(a, b) == (a + b - 1) \div b

-----------------------------------------------------------------------------
(* simulate(): the answer of endpoint e in state s at time t, with the next  *)
(* state and, for a request turned away, the seconds to wait.  Tokens are    *)
(* counted in parts, e.window of them to a token.                            *)

Opened(s, fresh) == IF s = Unset THEN fresh ELSE s
Allow(s) == [status |-> 200, state |-> s, retry |-> 0]
Block(s, wait) == [status |-> 429, state |-> s, retry |-> CeilDiv(wait, Second)]

\* Mutants: a hit of exactly one window ago counts; the refill is not capped.
LiveClosed(e, hit, t) == hit >= t - e.window
RefillUncapped(e, st, t) == st.tokens + (t - st.last) * e.limit

Live(e, hit, t) == hit > t - e.window
Refill(e, st, t) == Least(e.cap * e.window, st.tokens + (t - st.last) * e.limit)

\* hits.filter: hits are in ascending order, so that what goes is a prefix.
Filtered(e, hits, t) ==
    LET gone == {i \in DOMAIN hits : ~Live(e, hits[i], t)}
    IN  SubSeq(hits, Cardinality(gone) + 1, Len(hits))

Sliding(e, s, t) ==
    LET hits == Filtered(e, Opened(s, <<>>), t)
    IN  IF Len(hits) < e.limit
        THEN Allow(Append(hits, t))
        ELSE Block(hits, Head(hits) + e.window - t)

Fixed(e, s, t) ==
    LET boundary == (t \div e.window) * e.window + e.window
        fresh    == [boundary |-> boundary, count |-> 0]
        st       == IF Opened(s, fresh).boundary = boundary THEN Opened(s, fresh) ELSE fresh
    IN  IF st.count < e.limit
        THEN Allow([st EXCEPT !.count = @ + 1])
        ELSE Block(st, boundary - t)

Tokens(e, s, t) ==
    LET st    == Opened(s, [tokens |-> e.cap * e.window, last |-> t])
        level == Refill(e, st, t)
    IN  IF level >= e.window
        THEN Allow([tokens |-> level - e.window, last |-> t])
        ELSE Block([tokens |-> level, last |-> t], CeilDiv(e.window - level, e.limit))

Leaky(e, s, t) ==
    LET old    == Opened(s, [queue |-> 0, last |-> t])
        leaked == ((t - old.last) * e.limit) \div e.window
        st     == IF leaked > 0
                  THEN [queue |-> Most(0, old.queue - leaked), last |-> t]
                  ELSE old
    IN  IF st.queue < e.limit
        THEN Allow([st EXCEPT !.queue = @ + 1])
        ELSE Block(st, CeilDiv(e.window, e.limit))

Simulate(e, s, t) ==
    CASE e.algo = "sliding_window" -> Sliding(e, s, t)
      [] e.algo = "fixed_window"   -> Fixed(e, s, t)
      [] e.algo = "token_bucket"   -> Tokens(e, s, t)
      [] e.algo = "leaky_bucket"   -> Leaky(e, s, t)

-----------------------------------------------------------------------------
(* fire(), once per request of a click *)

Idle == todo.left = 0
busy == inFlight["burst"] > 0

Record(status) ==
    /\ allowed' = IF status = 200 THEN allowed + 1 ELSE allowed
    /\ blocked' = IF status = 429 THEN blocked + 1 ELSE blocked
    /\ log' = SubSeq(<<status>> \o log, 1, Least(LogSize, Len(log) + 1))

RecordSimulated ==
    LET answer == Simulate(endpoint, state, now)
    IN  /\ Record(answer.status)
        /\ state' = answer.state
        /\ admitted' = IF answer.status = 200 THEN Append(admitted, now) ELSE admitted

Fire ==
    /\ todo.left > 0
    /\ todo' = [todo EXCEPT !.left = @ - 1]
    /\ fires' = fires + 1
    /\ IF modeRef = "live"
       THEN /\ inFlight' = [inFlight EXCEPT ![todo.kind] = @ + 1]
            /\ UNCHANGED <<shown, simulator>>
       ELSE RecordSimulated /\ UNCHANGED inFlight
    /\ UNCHANGED <<now, endpoint, modes, cleared>>

Settle(kind) ==
    /\ Idle
    /\ inFlight[kind] > 0
    /\ inFlight' = [inFlight EXCEPT ![kind] = @ - 1]
    /\ UNCHANGED <<now, endpoint, unchecked, todo, fires, cleared>>

\* The backend answers a fetch; 503 stands for every status but 200 and 429.
Answer(kind, status) ==
    /\ Settle(kind)
    /\ Record(status)
    /\ UNCHANGED <<simulator, mode, modeRef>>

\* Mutant: the answer of the simulator to a request the backend never saw is
\* not recorded.
UnreachableUnrecorded(kind) ==
    /\ Settle(kind)
    /\ mode' = "sim"
    /\ modeRef' = "sim"
    /\ UNCHANGED <<simulator, shown>>

\* A fetch throws: the page drops to the simulator, with this request.
Unreachable(kind) ==
    /\ Settle(kind)
    /\ mode' = "sim"
    /\ modeRef' = "sim"
    /\ RecordSimulated

-----------------------------------------------------------------------------
(* The buttons, which are disabled while a burst is under way *)

Clamp(n) == Most(1, Least(MaxBurst, n))

Click(kind, n) ==
    /\ Idle
    /\ ~busy
    /\ fires + n <= MaxFires
    /\ todo' = [kind |-> kind, left |-> n]
    /\ UNCHANGED <<now, endpoint, simulator, modes, inFlight, shown, fires, cleared>>

SendOne == Click("one", 1)
SendBurst == \E input \in BurstInputs : Click("burst", Clamp(input))

\* Reset Stats: the counts go, the simulator's state stays.
ResetStats ==
    /\ Idle
    /\ ~busy
    /\ allowed' = 0
    /\ blocked' = 0
    /\ log' = <<>>
    /\ cleared' = fires - inFlight["one"]
    /\ UNCHANGED <<now, endpoint, simulator, modes, todo, inFlight, fires>>

-----------------------------------------------------------------------------
(* The mode *)

\* checkBackend answers.
Checked(ok) ==
    /\ Idle
    /\ unchecked > 0
    /\ unchecked' = unchecked - 1
    /\ mode' = IF ok THEN "live" ELSE "sim"
    /\ UNCHANGED <<now, endpoint, simulator, modeRef, todo, inFlight, shown, fires, cleared>>

\* The effect that keeps the ref in step runs after the page is rendered.
Effect ==
    /\ Idle
    /\ modeRef # mode
    /\ modeRef' = mode
    /\ UNCHANGED <<now, endpoint, simulator, mode, unchecked, todo, inFlight, shown, fires, cleared>>

Pass ==
    /\ now < MaxTime
    /\ now' = now + 1
    /\ UNCHANGED <<endpoint, simulator, modes, todo, inFlight, shown, fires, cleared>>

Init ==
    /\ now = 0
    /\ endpoint \in Endpoints
    /\ state = Unset
    /\ mode = "checking"
    /\ modeRef = "checking"
    /\ unchecked = Checks
    /\ todo = [kind |-> "one", left |-> 0]
    /\ inFlight = [kind \in {"one", "burst"} |-> 0]
    /\ allowed = 0
    /\ blocked = 0
    /\ log = <<>>
    /\ fires = 0
    /\ cleared = 0
    /\ admitted = <<>>

Next ==
    \/ Fire
    \/ \E kind \in {"one", "burst"} :
           Unreachable(kind) \/ \E status \in {200, 429, 503} : Answer(kind, status)
    \/ SendOne \/ SendBurst \/ ResetStats
    \/ \E ok \in BOOLEAN : Checked(ok)
    \/ Effect
    \/ Pass

Spec == Init /\ [][Next]_vars

-----------------------------------------------------------------------------
StateOK(e, s, t) ==
    \/ s = Unset
    \/ e.algo = "sliding_window" /\ s \in Seq(0 .. t) /\ Len(s) \in 1 .. e.limit
    \/ e.algo = "fixed_window" /\ s \in [boundary : Nat, count : 1 .. e.limit]
    \/ e.algo = "token_bucket" /\ s \in [tokens : 0 .. e.cap * e.window, last : 0 .. t]
    \/ e.algo = "leaky_bucket" /\ s \in [queue : 1 .. e.limit, last : 0 .. t]

TypeOK ==
    /\ now \in 0 .. MaxTime
    /\ endpoint \in Endpoints
    /\ StateOK(endpoint, state, now)
    /\ {mode, modeRef} \subseteq {"checking", "live", "sim"}
    /\ unchecked \in 0 .. Checks
    /\ todo \in [kind : {"one", "burst"}, left : 0 .. MaxBurst]
    /\ inFlight \in [{"one", "burst"} -> 0 .. MaxFires]
    /\ {allowed, blocked, fires, cleared} \subseteq 0 .. MaxFires
    /\ log \in Seq({200, 429, 503}) /\ Len(log) <= LogSize
    /\ admitted \in Seq(0 .. now) /\ Len(admitted) <= MaxFires

\* Every request fired is recorded once: when its answer arrives, in whatever
\* order, or when the backend turns out to be unreachable, also in the middle of
\* a burst and after the statistics were reset under it.  The log shows the last
\* of them, and every entry of it is counted.
Recorded == fires - (inFlight["one"] + inFlight["burst"]) - cleared
Logged(status) == Cardinality({i \in DOMAIN log : log[i] = status})
RecordedOnce ==
    /\ Len(log) = Least(LogSize, Recorded)
    /\ Logged(200) <= allowed
    /\ Logged(429) <= blocked
    /\ allowed + blocked <= Recorded - Logged(503)

\* What an endpoint may admit from time a to time b, both included.
Allowance(e, a, b) ==
    CASE e.algo = "sliding_window" -> e.limit * ((b - a) \div e.window + 1)
      [] e.algo = "fixed_window"   -> e.limit * (b \div e.window - a \div e.window + 1)
      [] e.algo = "token_bucket"   -> e.cap + ((b - a) * e.limit) \div e.window
      [] e.algo = "leaky_bucket"   -> CeilDiv((b - a) * e.limit, e.window) + e.limit

WithinAllowance ==
    \A i, j \in DOMAIN admitted :
        i <= j => j - i + 1 <= Allowance(endpoint, admitted[i], admitted[j])

RetryHonoured ==
    LET answer == Simulate(endpoint, state, now)
        later  == Simulate(endpoint, answer.state, now + answer.retry * Second)
    IN  answer.status = 429 => later.status = 200

\* The simulator keeps the promise of each of the four algorithms, over any
\* stretch of its admissions, and a request it turns away is admitted after the
\* wait it was told, when nothing else is fired meanwhile.
SimulatorKeepsLimits == WithinAllowance /\ RetryHonoured

=============================================================================
