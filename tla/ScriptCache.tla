---------------------------- MODULE ScriptCache -----------------------------
(***************************************************************************)
(* How the service calls its Lua scripts: init_redis preloads them,        *)
(* evalsha_with_fallback runs one by its SHA and reloads it once if the    *)
(* server does not know it.  A SHA is a function of the script, so what    *)
(* _script_shas holds is the set of scripts whose SHA is known.            *)
(*                                                                         *)
(* A command ends with its reply, or with a connection error or timeout;   *)
(* in the second case the server may or may not have run it.  A restart of *)
(* Redis, like SCRIPT FLUSH, empties the server's script cache.            *)
(*                                                                         *)
(* Names that RuleCache has too carry the prefix Script, for CacheProofs   *)
(* extends both.                                                           *)
(***************************************************************************)
EXTENDS Naturals

CONSTANTS Tasks, Scripts

VARIABLES loaded,    \* the server's script cache
          shas,      \* _script_shas of the service
          pending,   \* scripts init_redis has still to load
          phase,     \* "starting" while init_redis runs, then "serving"
          call,      \* where task t is in evalsha_with_fallback
          script,    \* the script task t runs
          executed,  \* history: times the script ran for this call
          cut,       \* history: a command of this call lost its reply
          flushed    \* history: the server cache was emptied since this call
                     \* began or last loaded its script

service == <<shas, pending, phase>>
scriptVars == <<loaded, shas, pending, phase, call, script, executed, cut, flushed>>

Loading == {"load", "reload"}
Running == {"eval", "retry"}

\* Mutants: a fallback for every error; a fallback after every miss, the
\* retry's too; no fallback.
AfterAnyError(p, error) == IF p = "eval" THEN "reload" ELSE "failed"
AfterEveryMiss(p, error) == IF error = "noscript" THEN "reload" ELSE "failed"
AfterErrorFail(p, error) == "failed"

\* Only NoScriptError is caught, and only around the first EVALSHA.
AfterError(p, error) ==
    IF p = "eval" /\ error = "noscript" THEN "reload" ELSE "failed"

AfterLoad(p) == IF p = "load" THEN "eval" ELSE "retry"

ScriptInit ==
    /\ loaded = {}
    /\ shas = {}
    /\ pending = Scripts
    /\ phase = "starting"
    /\ call = [t \in Tasks |-> "idle"]
    /\ script \in [Tasks -> Scripts]
    /\ executed = [t \in Tasks |-> 0]
    /\ cut = [t \in Tasks |-> FALSE]
    /\ flushed = [t \in Tasks |-> FALSE]

-----------------------------------------------------------------------------
(* init_redis; the order in which it takes the scripts does not matter. *)

callVars == <<call, script, executed, cut, flushed>>

Preload(s) ==
    /\ phase = "starting"
    /\ s \in pending
    /\ loaded' = loaded \cup {s}
    /\ shas' = shas \cup {s}
    /\ pending' = pending \ {s}
    /\ UNCHANGED <<phase, callVars>>

\* An exception, before or after the server took the script: a warning, and
\* the service starts.
PreloadFails(s) ==
    /\ phase = "starting"
    /\ s \in pending
    /\ loaded' \in {loaded, loaded \cup {s}}
    /\ phase' = "serving"
    /\ UNCHANGED <<shas, pending, callVars>>

Serve ==
    /\ phase = "starting"
    /\ pending = {}
    /\ phase' = "serving"
    /\ UNCHANGED <<loaded, shas, pending, callVars>>

-----------------------------------------------------------------------------
(* evalsha_with_fallback *)

Begin(t, s) ==
    /\ phase = "serving"
    /\ call[t] = "idle"
    /\ call' = [call EXCEPT ![t] = IF s \in shas THEN "eval" ELSE "load"]
    /\ script' = [script EXCEPT ![t] = s]
    /\ executed' = [executed EXCEPT ![t] = 0]
    /\ cut' = [cut EXCEPT ![t] = FALSE]
    /\ flushed' = [flushed EXCEPT ![t] = FALSE]
    /\ UNCHANGED <<loaded, service>>

Load(t) ==
    /\ call[t] \in Loading
    /\ loaded' = loaded \cup {script[t]}
    /\ shas' = shas \cup {script[t]}
    /\ flushed' = [flushed EXCEPT ![t] = FALSE]
    /\ call' = [call EXCEPT ![t] = AfterLoad(call[t])]
    /\ UNCHANGED <<pending, phase, script, executed, cut>>

Run(t) ==
    /\ call[t] \in Running
    /\ script[t] \in loaded
    /\ executed' = [executed EXCEPT ![t] = @ + 1]
    /\ call' = [call EXCEPT ![t] = "done"]
    /\ UNCHANGED <<loaded, service, script, cut, flushed>>

NoScript(t) ==
    /\ call[t] \in Running
    /\ script[t] \notin loaded
    /\ call' = [call EXCEPT ![t] = AfterError(call[t], "noscript")]
    /\ UNCHANGED <<loaded, service, script, executed, cut, flushed>>

\* A connection error or timeout; did the server run the command?
Cut(t, ran) ==
    /\ call[t] \in Loading \cup Running
    /\ ran /\ call[t] \in Running => script[t] \in loaded
    /\ loaded' = IF ran /\ call[t] \in Loading THEN loaded \cup {script[t]} ELSE loaded
    /\ executed' = [executed EXCEPT ![t] =
                       IF ran /\ call[t] \in Running THEN @ + 1 ELSE @]
    /\ cut' = [cut EXCEPT ![t] = TRUE]
    /\ call' = [call EXCEPT ![t] = AfterError(call[t], "connection")]
    /\ UNCHANGED <<service, script, flushed>>

\* The call returns its verdict to the limiter, or raises.
End(t) ==
    /\ call[t] \in {"done", "failed"}
    /\ call' = [call EXCEPT ![t] = "idle"]
    /\ UNCHANGED <<loaded, service, script, executed, cut, flushed>>

-----------------------------------------------------------------------------
(* The surroundings. *)

\* Redis restarts, or somebody flushes its script cache.
Flush ==
    /\ loaded' = {}
    /\ flushed' = [t \in Tasks |-> TRUE]
    /\ UNCHANGED <<service, call, script, executed, cut>>

\* The service's process restarts and forgets what it knew.
Restart ==
    /\ shas' = {}
    /\ pending' = Scripts
    /\ phase' = "starting"
    /\ call' = [t \in Tasks |-> "idle"]
    /\ UNCHANGED <<loaded, script, executed, cut, flushed>>

Step(t) == Load(t) \/ Run(t) \/ NoScript(t) \/ Cut(t, TRUE) \/ Cut(t, FALSE) \/ End(t)

ScriptNext ==
    \/ \E s \in Scripts : Preload(s) \/ PreloadFails(s)
    \/ Serve
    \/ \E t \in Tasks : Step(t) \/ \E s \in Scripts : Begin(t, s)
    \/ Flush
    \/ Restart

\* The socket timeout ends every command, with a reply or without.
CallFairness == \A t \in Tasks : WF_scriptVars(Step(t))

ScriptSpec == ScriptInit /\ [][ScriptNext]_scriptVars /\ CallFairness

-----------------------------------------------------------------------------
ScriptTypeOK ==
    /\ loaded \subseteq Scripts
    /\ shas \subseteq Scripts
    /\ pending \subseteq Scripts
    /\ phase \in {"starting", "serving"}
    /\ call \in [Tasks -> Loading \cup Running \cup {"idle", "done", "failed"}]
    /\ script \in [Tasks -> Scripts]
    /\ executed \in [Tasks -> 0 .. 1]
    /\ cut \in [Tasks -> BOOLEAN]
    /\ flushed \in [Tasks -> BOOLEAN]

\* However the reload, the retry, flushes and lost replies fall out, one call
\* charges the client's quota at most once; it charges it exactly when it
\* returns a verdict, unless the reply that would have said so was lost.
ChargedOnce ==
    \A t \in Tasks :
        /\ executed[t] <= 1
        /\ call[t] = "done" => executed[t] = 1
        /\ call[t] = "failed" /\ executed[t] = 1 => cut[t]

\* A call raises only because the connection failed under it, or because the
\* server lost its scripts between the call's own reload and its retry; neither
\* a failed preload nor an earlier restart of Redis is enough.
ErrorNeedsCause ==
    \A t \in Tasks : call[t] = "failed" => cut[t] \/ flushed[t]

\* Every call ends, even if Redis loses its scripts again and again.
CallsEnd == \A t \in Tasks : call[t] # "idle" ~> call[t] = "idle"

=============================================================================
