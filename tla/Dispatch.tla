------------------------------ MODULE Dispatch ------------------------------
(***************************************************************************)
(* RateLimitMiddleware.dispatch: the way of a request through the lists,   *)
(* the rules, the limiter and the handler.  A task handles one request; it *)
(* gives way to the others at every await, which is where one action ends  *)
(* and the next begins.                                                    *)
(*                                                                         *)
(* Which verdict a limiter gives is the business of the modules of the     *)
(* four algorithms; here it may give either, but for a limit of 0, which a *)
(* tier may have.                                                          *)
(***************************************************************************)
EXTENDS Integers, FiniteSets, Sequences

CONSTANTS Tasks,
          Requests,      \* what the limiter reads of a request: [path, method,
                         \* peer, forwarded, token, api_key, tier]
          TrustedHops,   \* trusted_proxy_hops of the settings
          Users,         \* subjects of readable tokens
          Guards,        \* the @rate_limit of a path's handler, where it has one
                         \* and takes the Request, without which it checks nothing
          RuleTable,     \* the enabled rules, with the paths their pattern covers
          DefaultRule,   \* default_algorithm, default_limit, ... of the settings
          SkipPaths, StaticBlacklist, StaticWhitelist,
          Listable,      \* IPs and API keys an admin lists and delists
          None           \* absent header, method, tier limits, rule or answer

VARIABLES redis_fail_open,        \* a setting, fixed for the life of the service
          blacklist, whitelist,   \* the rl:blacklist: and rl:whitelist: keys
          pc,         \* the await task t is at
          req,        \* the request of task t
          rule,       \* the rule that matched
          answer,     \* status of the response
          errors,     \* _redis_errors_counter
          audit,      \* the _log_violation task of this request
          charged,    \* history: the keys and limits this request was
                      \* charged to
          own,        \* history: the handler's own checks
          calls,      \* history: times the handler was invoked
          failed,     \* history: Redis or the database failed this request
          raised,     \* history: the handler raised
          exempt,     \* history: found on the Redis whitelist
          outlawed    \* history: the IP it counts under has been on the Redis
                      \* blacklist since it arrived

lists == <<blacklist, whitelist>>
shared == <<redis_fail_open, lists>>
vars == <<redis_fail_open, blacklist, whitelist, pc, req, rule, answer,
          errors, audit, charged, own, calls, failed, raised, exempt, outlawed>>

\* Tier limits below 0 are left out; the schema lets them through.
ASSUME RuleAssumption ==
    /\ IsFiniteSet(RuleTable)
    /\ DefaultRule.method = None
    /\ \A r \in RuleTable \cup {DefaultRule} :
          /\ r # None
          /\ r.priority \in Int
          /\ r.limit \in Nat
          /\ r.tier_limits # None =>
                \A tier \in DOMAIN r.tier_limits : r.tier_limits[tier] \in Nat

Waiting == {"blacklist", "whitelist", "rules", "limiter"}
Statuses == {200, 403, 429, 500, 503}

ASSUME TaskAssumption == IsFiniteSet(Tasks) /\ None \notin Statuses

ASSUME HopsAssumption == TrustedHops \in Nat

-----------------------------------------------------------------------------
(* Who asks. *)

\* extract_client_ip: the entry just before the trusted hops, or the first.
ClientIp(request) ==
    LET before == Len(request.forwarded) - TrustedHops
    IN  IF TrustedHops = 0 \/ request.forwarded = <<>>
        THEN request.peer
        ELSE request.forwarded[IF before > 1 THEN before ELSE 1]

\* _extract_user_id: a token that cannot be read, or without a subject, is none.
UserId(request) == IF request.token \in Users THEN request.token ELSE None

-----------------------------------------------------------------------------
(* Rules and keys. *)

Covering(path) == {r \in RuleTable : path \in r.paths}

\* What _get_rules may answer: the rules that cover the path, by falling
\* priority, in any order among equals.
Orders(path) ==
    {s \in [1 .. Cardinality(Covering(path)) -> Covering(path)] :
        /\ \A r \in Covering(path) : \E i \in DOMAIN s : s[i] = r
        /\ \A i, j \in DOMAIN s : i < j => s[i].priority >= s[j].priority}

\* Mutant: a path without rules goes on without the default.
FetchedNoDefault(path) == Orders(path)

\* rules as the loop gets them: the default rule alone if none covers the path.
Fetched(path) ==
    IF Covering(path) = {} THEN {<<DefaultRule>>} ELSE Orders(path)

Applies(r, request) == r.method = None \/ r.method = request.method

\* Mutant: the last rule that applies.
FirstMatchLast(rules, request) ==
    LET hits == {i \in DOMAIN rules : Applies(rules[i], request)}
    IN  IF hits = {} THEN None
        ELSE rules[CHOOSE i \in hits : \A j \in hits : j <= i]

\* The first rule that applies wins.
FirstMatch(rules, request) ==
    LET hits == {i \in DOMAIN rules : Applies(rules[i], request)}
    IN  IF hits = {} THEN None
        ELSE rules[CHOOSE i \in hits : \A j \in hits : i <= j]

Or(value, default) == IF value = None THEN default ELSE value

Identifier(r, request) ==
    CASE r.dimension = "ip"      -> ClientIp(request)
      [] r.dimension = "user_id" -> Or(UserId(request), ClientIp(request))
      [] r.dimension = "api_key" -> Or(request.api_key, ClientIp(request))
      [] r.dimension = "global"  -> "global"

\* _build_redis_key
RedisKey(r, request) ==
    <<r.algorithm, r.dimension, Identifier(r, request), r.route_pattern>>

\* The tier's limit, for a request with a user id, whatever the dimension.
EffectiveLimit(r, request) ==
    LET tier == Or(request.tier, "free")
    IN  IF r.tier_limits # None /\ UserId(request) # None
           /\ tier \in DOMAIN r.tier_limits
        THEN r.tier_limits[tier]
        ELSE r.limit

Keys == {RedisKey(r, q) : r \in RuleTable \cup {DefaultRule}, q \in Requests}

-----------------------------------------------------------------------------
Init ==
    /\ redis_fail_open \in BOOLEAN
    /\ blacklist \in SUBSET Listable
    /\ whitelist \in SUBSET Listable
    /\ pc = [t \in Tasks |-> "idle"]
    /\ req \in [Tasks -> Requests]
    /\ rule = [t \in Tasks |-> None]
    /\ answer = [t \in Tasks |-> None]
    /\ errors = 0
    /\ audit = [t \in Tasks |-> "none"]
    /\ charged = [t \in Tasks |-> <<>>]
    /\ own = [t \in Tasks |-> <<>>]
    /\ calls = [t \in Tasks |-> 0]
    /\ failed = [t \in Tasks |-> FALSE]
    /\ raised = [t \in Tasks |-> FALSE]
    /\ exempt = [t \in Tasks |-> FALSE]
    /\ outlawed = [t \in Tasks |-> FALSE]

Goto(t, place) == pc' = [pc EXCEPT ![t] = place] /\ UNCHANGED answer

\* call_next: to the handler, by way of its own check if it has one.
Gate == [handler |-> "guard", bare |-> "bareguard"]
CallNext(t, place) ==
    Goto(t, IF req[t].path \in DOMAIN Guards THEN Gate[place] ELSE place)

Respond(t, status) ==
    /\ pc' = [pc EXCEPT ![t] = "answered"]
    /\ answer' = [answer EXCEPT ![t] = status]

OnStatic(list, request) == ClientIp(request) \in list \/ request.api_key \in list

\* Mutant: the whitelist goes before the blacklist.
ReceiveWhitelistFirst(t) ==
    /\ pc[t] = "idle"
    /\ IF req[t].path \in SkipPaths THEN CallNext(t, "bare")
       ELSE IF OnStatic(StaticWhitelist, req[t]) THEN CallNext(t, "bare")
       ELSE IF OnStatic(StaticBlacklist, req[t]) THEN Respond(t, 403)
       ELSE Goto(t, "blacklist")
    /\ outlawed' = [outlawed EXCEPT ![t] = ClientIp(req[t]) \in blacklist]
    /\ UNCHANGED <<shared, req, rule, errors, audit, charged, own, calls, failed,
                   raised, exempt>>

\* Up to the first await: skipped paths, then the static lists.
Receive(t) ==
    /\ pc[t] = "idle"
    /\ IF req[t].path \in SkipPaths THEN CallNext(t, "bare")
       ELSE IF OnStatic(StaticBlacklist, req[t]) THEN Respond(t, 403)
       ELSE IF OnStatic(StaticWhitelist, req[t]) THEN CallNext(t, "bare")
       ELSE Goto(t, "blacklist")
    /\ outlawed' = [outlawed EXCEPT ![t] = ClientIp(req[t]) \in blacklist]
    /\ UNCHANGED <<shared, req, rule, errors, audit, charged, own, calls,
                   failed, raised, exempt>>

CheckBlacklist(t) ==
    /\ pc[t] = "blacklist"
    /\ IF ClientIp(req[t]) \in blacklist THEN Respond(t, 403) ELSE Goto(t, "whitelist")
    /\ UNCHANGED <<shared, req, rule, errors, audit, charged, own, calls,
                   failed, raised, exempt, outlawed>>

CheckWhitelist(t) ==
    /\ pc[t] = "whitelist"
    /\ LET listed == ClientIp(req[t]) \in whitelist
       IN  /\ IF listed THEN CallNext(t, "handler") ELSE Goto(t, "rules")
           /\ exempt' = [exempt EXCEPT ![t] = listed]
    /\ UNCHANGED <<shared, req, rule, errors, audit, charged, own, calls,
                   failed, raised, outlawed>>

\* _get_rules and the loop: without a rule that applies, the handler is called
\* after the try.
FetchRules(t) ==
    /\ pc[t] = "rules"
    /\ \E rules \in Fetched(req[t].path) :
          LET match == FirstMatch(rules, req[t])
          IN  /\ rule' = [rule EXCEPT ![t] = match]
              /\ IF match = None THEN CallNext(t, "bare") ELSE Goto(t, "limiter")
    /\ UNCHANGED <<shared, req, errors, audit, charged, own, calls, failed,
                   raised, exempt, outlawed>>

\* What limiter.check charges: the key of the rule, with the limit of the tier.
Charge(t) ==
    charged' = [charged EXCEPT ![t] =
                   Append(@, [key |-> RedisKey(rule[t], req[t]),
                              limit |-> EffectiveLimit(rule[t], req[t])])]

\* A limit of 0: the bucket scripts divide by a rate of 0 and raise an error at
\* their EXPIRE; the sliding window admits nobody; the fixed window admits only
\* when a lost increment is owed (FixedWindow).
Decides(t) ==
    EffectiveLimit(rule[t], req[t]) = 0 =>
        rule[t].algorithm \notin {"token_bucket", "leaky_bucket"}
CanAdmit(t) ==
    EffectiveLimit(rule[t], req[t]) > 0 \/ rule[t].algorithm = "fixed_window"

\* Mutant: a 429 that is never returned.
LimitForgetsReturn(t) ==
    /\ pc[t] = "limiter"
    /\ Decides(t)
    /\ Charge(t)
    /\ \/ CallNext(t, "handler") /\ UNCHANGED audit
       \/ CallNext(t, "handler") /\ audit' = [audit EXCEPT ![t] = "pending"]
    /\ UNCHANGED <<shared, req, rule, errors, own, calls, failed, raised, exempt,
                   outlawed>>

\* limiter.check: within the limit, or a 429 and a task for the audit entry.
Limit(t) ==
    /\ pc[t] = "limiter"
    /\ Decides(t)
    /\ Charge(t)
    /\ \/ CanAdmit(t) /\ CallNext(t, "handler") /\ UNCHANGED audit
       \/ Respond(t, 429) /\ audit' = [audit EXCEPT ![t] = "pending"]
    /\ UNCHANGED <<shared, req, rule, errors, own, calls, failed, raised, exempt,
                   outlawed>>

\* Mutant: fail open into the try again.
ExceptIntoTry(t) ==
    /\ errors' = errors + 1
    /\ IF redis_fail_open THEN CallNext(t, "handler") ELSE Respond(t, 503)

\* except Exception: count it, then fail open or closed.
Except(t) ==
    /\ errors' = errors + 1
    /\ IF redis_fail_open THEN CallNext(t, "bare") ELSE Respond(t, 503)

\* Mutant: the lists are asked again, from the first, until Redis answers.
FailAsksAgain(t) ==
    /\ pc[t] \in Waiting
    /\ IF pc[t] \in {"blacklist", "whitelist"}
       THEN Goto(t, "blacklist") /\ UNCHANGED errors
       ELSE Except(t)
    /\ failed' = [failed EXCEPT ![t] = TRUE]
    /\ \/ UNCHANGED charged
       \/ pc[t] = "limiter" /\ Charge(t)
    /\ UNCHANGED <<shared, req, rule, audit, own, calls, raised, exempt, outlawed>>

\* Redis, or for the rules the database, does not answer, or the script raises
\* an error; the limiter's script may have run, or begun, all the same.
Fail(t) ==
    /\ pc[t] \in Waiting
    /\ Except(t)
    /\ failed' = [failed EXCEPT ![t] = TRUE]
    /\ \/ UNCHANGED charged
       \/ pc[t] = "limiter" /\ Charge(t)
    /\ UNCHANGED <<shared, req, rule, audit, own, calls, raised, exempt, outlawed>>

\* call_next inside the try: what the handler raises lands in the except.
Handle(t) ==
    /\ pc[t] = "handler"
    /\ calls' = [calls EXCEPT ![t] = @ + 1]
    /\ \/ Respond(t, 200) /\ UNCHANGED <<errors, raised>>
       \/ Except(t) /\ raised' = [raised EXCEPT ![t] = TRUE]
    /\ UNCHANGED <<shared, req, rule, audit, charged, own, failed, exempt, outlawed>>

\* call_next outside the try.
HandleBare(t) ==
    /\ pc[t] = "bare"
    /\ calls' = [calls EXCEPT ![t] = @ + 1]
    /\ \/ Respond(t, 200) /\ UNCHANGED raised
       \/ Respond(t, 500) /\ raised' = [raised EXCEPT ![t] = TRUE]
    /\ UNCHANGED <<shared, req, rule, errors, audit, charged, own, failed,
                   exempt, outlawed>>

\* RateLimiterDep: what @rate_limit charges, whatever the dimension but for IPs
\* to one counter of the path.
OwnKey(guard, request) ==
    <<guard.algorithm, guard.dimension,
      IF guard.dimension = "ip" THEN ClientIp(request) ELSE "global", request.path>>

OwnKeys == {OwnKey(Guards[path], q) : path \in DOMAIN Guards, q \in Requests}

Note(t, verdict) ==
    own' = [own EXCEPT ![t] =
               Append(@, [key |-> OwnKey(Guards[req[t].path], req[t]),
                          verdict |-> verdict])]

Enter(t) == Goto(t, IF pc[t] = "guard" THEN "handler" ELSE "bare")

\* Mutant: the 429 is made and not raised.
GuardForgetsRaise(t) ==
    /\ pc[t] \in {"guard", "bareguard"}
    /\ \/ Enter(t) /\ Note(t, "admitted")
       \/ Enter(t) /\ Note(t, "refused")
       \/ /\ IF redis_fail_open THEN Enter(t) ELSE Respond(t, 503)
          /\ Note(t, "failed")
    /\ UNCHANGED <<shared, req, rule, errors, audit, charged, calls, failed, raised,
                   exempt, outlawed>>

\* The check before the handler of a guarded path.  Its HTTPExceptions become
\* responses within call_next, so that they do not end in the except.
Guard(t) ==
    /\ pc[t] \in {"guard", "bareguard"}
    /\ \/ Enter(t) /\ Note(t, "admitted")
       \/ Respond(t, 429) /\ Note(t, "refused")
       \/ /\ IF redis_fail_open THEN Enter(t) ELSE Respond(t, 503)
          /\ Note(t, "failed")
    /\ UNCHANGED <<shared, req, rule, errors, audit, charged, calls, failed, raised,
                   exempt, outlawed>>

\* _log_violation, a task of its own; its failure is swallowed.
WriteAudit(t) ==
    /\ audit[t] = "pending"
    /\ \E end \in {"written", "lost"} : audit' = [audit EXCEPT ![t] = end]
    /\ UNCHANGED <<shared, pc, req, rule, answer, errors, charged, own, calls,
                   failed, raised, exempt, outlawed>>

\* An admin changes the lists.
EditLists ==
    /\ \E v \in Listable :
          \/ /\ blacklist' \in {blacklist \cup {v}, blacklist \ {v}}
             /\ UNCHANGED whitelist
          \/ /\ whitelist' \in {whitelist \cup {v}, whitelist \ {v}}
             /\ UNCHANGED blacklist
    /\ outlawed' = [t \in Tasks |-> outlawed[t] /\ ClientIp(req[t]) \in blacklist']
    /\ UNCHANGED <<redis_fail_open, pc, req, rule, answer, errors, audit,
                   charged, own, calls, failed, raised, exempt>>

Step(t) ==
    \/ Receive(t) \/ CheckBlacklist(t) \/ CheckWhitelist(t) \/ FetchRules(t)
    \/ Limit(t) \/ Fail(t) \/ Guard(t) \/ Handle(t) \/ HandleBare(t)

Next ==
    \/ \E t \in Tasks : Step(t) \/ WriteAudit(t)
    \/ EditLists

Fairness == \A t \in Tasks : WF_vars(Step(t)) /\ WF_vars(WriteAudit(t))

Spec == Init /\ [][Next]_vars /\ Fairness

-----------------------------------------------------------------------------
TypeOK ==
    /\ redis_fail_open \in BOOLEAN
    /\ blacklist \subseteq Listable /\ whitelist \subseteq Listable
    /\ pc \in [Tasks -> Waiting \cup {"idle", "guard", "bareguard", "handler", "bare",
                                "answered"}]
    /\ req \in [Tasks -> Requests]
    /\ rule \in [Tasks -> RuleTable \cup {DefaultRule, None}]
    /\ answer \in [Tasks -> Statuses \cup {None}]
    /\ errors \in 0 .. Cardinality(Tasks)
    /\ audit \in [Tasks -> {"none", "pending", "written", "lost"}]
    /\ charged \in [Tasks -> Seq([key : Keys, limit : Nat])]
    /\ own \in [Tasks -> Seq([key : OwnKeys, verdict : {"admitted", "refused", "failed"}])]
    /\ calls \in [Tasks -> 0 .. 2]
    /\ {failed, raised, exempt, outlawed} \subseteq [Tasks -> BOOLEAN]

Skipped(t) == req[t].path \in SkipPaths

\* The path has rules, all of them for other methods.
OtherMethods(request) ==
    /\ Covering(request.path) # {}
    /\ \A r \in Covering(request.path) : ~Applies(r, request)

\* The rule to charge the request to.
Prevails(r, request) ==
    IF Covering(request.path) = {} THEN r = DefaultRule
    ELSE /\ r \in Covering(request.path)
         /\ Applies(r, request)
         /\ \A other \in Covering(request.path) :
               Applies(other, request) => r.priority >= other.priority

\* A refused request has no effect: a 403 is given before anything is charged
\* or called; before a 429 or 503 the handler was not called, unless that first
\* call raised; and exactly the 429s of the middleware leave an audit entry.
RefusalIsFinal ==
    \A t \in Tasks :
        /\ answer[t] = 403 => calls[t] = 0 /\ charged[t] = <<>> /\ own[t] = <<>>
        /\ answer[t] \in {429, 503} /\ ~raised[t] => calls[t] = 0
        /\ audit[t] # "none" <=> answer[t] = 429 /\ own[t] = <<>>

\* No request reaches its handler uncounted, but for the reasons the service
\* gives: a skipped path, a whitelist, a path that has rules and none for this
\* method, or a failure of Redis with fail-open.  So a path without any rule is
\* charged to the default.  And nobody is served on a limit of 0, but for
\* fail-open (which the bucket scripts' error always ends in) and the fixed window.
NoFreeRide ==
    \A t \in Tasks : calls[t] > 0 =>
        /\ charged[t] = <<>> =>
              \/ Skipped(t)
              \/ OnStatic(StaticWhitelist, req[t])
              \/ exempt[t]
              \/ OtherMethods(req[t])
              \/ redis_fail_open /\ failed[t]
        /\ charged[t] # <<>> /\ charged[t][1].limit = 0 =>
              rule[t].algorithm = "fixed_window" \/ (redis_fail_open /\ failed[t])

\* A client, known by the IP that extract_client_ip finds and by its API key,
\* is served on skipped paths only once it is blacklisted: on the static list
\* always; on the Redis list, if the IP was on it all along, unless a static
\* whitelist entry or fail-open lets it pass.
BlacklistHolds ==
    \A t \in Tasks : calls[t] > 0 /\ ~Skipped(t) =>
        /\ ~OnStatic(StaticBlacklist, req[t])
        /\ outlawed[t] => \/ OnStatic(StaticWhitelist, req[t])
                          \/ redis_fail_open /\ failed[t]

\* A request is charged at most once, and to the key of a rule of the highest
\* priority among those for its path and method, whatever the order in which
\* the database returns equals; to the default if no rule covers its path, and
\* only then.
ChargedByTopRule ==
    \A t \in Tasks : charged[t] # <<>> =>
        /\ Len(charged[t]) = 1
        /\ charged[t][1].key = RedisKey(rule[t], req[t])
        /\ Prevails(rule[t], req[t])

\* A handler runs a second time only if its first run raised.  Every run of a
\* handler with a check of its own has passed that check in that run, or met a
\* failure of Redis with fail-open; and the client is charged there a second
\* time only if the handler has raised.
HandlerRuns ==
    \A t \in Tasks : (calls[t] = 2 => raised[t]) /\ (req[t].path \in DOMAIN Guards =>
        LET passed == {i \in DOMAIN own[t] :
                          \/ own[t][i].verdict = "admitted"
                          \/ own[t][i].verdict = "failed" /\ redis_fail_open}
        IN  /\ calls[t] <= Cardinality(passed)
            /\ Len(own[t]) <= calls[t] + 1
            /\ Len(own[t]) = 2 => raised[t])

\* Every request is answered, and every audit task ends.
Answered ==
    \A t \in Tasks : <>(pc[t] = "answered") /\ <>[](audit[t] # "pending")

=============================================================================
