# Verification of the Rate Limiter API

TLA+ models of the rate limiter in `backend/`, model-checked with TLC and proved
with TLAPS. File and line references are to the repository, `rate_limit.py`
being `backend/app/middleware/rate_limit.py` and `lua_scripts.py`,
`redis_client.py` the files of `backend/app/core/`.

Run a check with `tlc -config FixedWindow.cfg MCFixedWindow`, a proof with
`tlapm FixedWindowProofs.tla`. `PROJECT.json` lists the runs, the lines each
definition stands for, the hazards and the theorems.

## 1. The system

A FastAPI service whose middleware decides about every request. Counters, lists
and a copy of the rules live in Redis; rules, lists and the audit log live in
PostgreSQL. Everything runs on one asyncio loop per process: code between two
`await`s is atomic, and every `await` lets the other requests run. Redis runs a
Lua script, or any one command, atomically.

| Component | State | Operations | Talks to |
|---|---|---|---|
| Limiters `algorithms/*.py`, `lua_scripts.py` | one Redis key per client and rule: a counter, a hash or a sorted set, with an expiry | `check()`: read `TIME`, then run the script | Redis, through the script cache |
| Script cache `redis_client.py` | `_script_shas` in the process; the script cache of the server | `init_redis`, `evalsha_with_fallback`, `close_redis` | Redis |
| Middleware `rate_limit.py` | none of its own but an error counter; a request's progress | `dispatch`: lists, rules, limiter, handler, audit | everything below |
| Rule cache `rate_limit.py`, `admin.py` | `rl:rules:cache:<path>` in Redis for 30 s | `_get_rules`, `_invalidate_rule_cache` | Redis, PostgreSQL |
| Access lists `admin.py` | table rows, and `rl:whitelist:`/`rl:blacklist:` keys; two static lists in the settings | add, remove, expire | Redis, PostgreSQL |
| Rule administration `admin.py` | table `rate_limit_rules` | create, update, patch, delete, enable, disable | PostgreSQL, rule cache |
| Audit log `rate_limit.py`, `admin.py` | table `audit_logs` | `_log_violation` in a task of its own; query | PostgreSQL |
| Counter reset, quota view `admin.py` | none | SCAN over a client's counters | Redis |
| Decorator, dependency `decorators/rate_limit.py` | none | a check outside the middleware, on keys of the same shape | limiters |
| Client identification `ip_utils.py`, `rate_limit.py` | none | IP from `X-Forwarded-For`, user and tier from a JWT, API key from a header | request |
| Seeding `db/seed.py` | rows of six demo rules | once at start | PostgreSQL |
| Sessions, schema `db/` | engine and session factory of the process | `get_db` commits or rolls back after the handler | PostgreSQL |
| Dashboard, simulator `frontend/` | mode, counts and log of the page; the simulator's state of each path | single clicks and bursts, Reset Stats, the fall back to the simulator | backend |
| Demo, health, metrics endpoints; wiring, containers | none | reports | |

What is hard, component by component, and what correctness means:

- **Limiters.** `TIME` and the script are two round trips, so scripts run in
  another order than their times were read, across window boundaries and after a
  key has expired. Correct: the quota bounds what is admitted under every
  interleaving; expiry gives nobody more than the clock has refilled or leaked; what a
  blocked client is told about waiting is true.
- **Script cache.** Redis restarts or is flushed between load and call, replies are
  lost, the preload fails half way. Correct: one check charges once, and fails
  only when something failed.
- **Middleware.** Every await of a request may fail, and lists change
  meanwhile; the handler runs inside the `try`. Correct: a refused request has no
  effect, no request goes free but for a stated reason, every request is answered.
- **Rule cache.** Invalidation starts before the commit, walks the keys in batches
  and swallows its errors, while readers store what they selected earlier.
  Correct: a change comes into force, and the races that delay it are the known two.
- **Access lists.** Two stores are written without a transaction over both.
  Correct: rows and keys agree once nothing is under way and nothing has failed.
- **Rule administration, audit, seeding.** Handlers load a rule and write back what
  they think has changed, in transactions that overlap; every process that starts
  seeds the demo rules; audit entries refer to rules that may be deleted. Correct: no
  update is lost, the log names no rule that is gone, seeding ends with all demo rules.
- **Counter reset.** Counters are deleted under running requests. Correct: the
  limiters' bounds hold again from the reset.
- **Dashboard.** Answers of a burst come in any order, and the backend may go away in
  the middle. Correct: every request is shown once; the simulator keeps the limits.

## 2. Modules

| Module | Models | Checked by |
|---|---|---|
| `RedisClock` | Redis `TIME` and the two round trips of every `check()` | extended by the limiters |
| `FixedWindow` | `FIXED_WINDOW_SCRIPT`, `fixed_window.py` | `FixedWindow.cfg` |
| `TokenBucket` | `TOKEN_BUCKET_SCRIPT`, `token_bucket.py` | `TokenBucket.cfg` |
| `LeakyBucket` | `LEAKY_BUCKET_SCRIPT`, `leaky_bucket.py` | `LeakyBucket.cfg`, `LeakyBucketDrain.cfg` |
| `SlidingWindow` | `SLIDING_WINDOW_SCRIPT`, `sliding_window.py` | `SlidingWindow.cfg`, `SlidingWindowStale.cfg` |
| `WindowQuota` | abstract: a request under limit `l` is admitted only while fewer than `l` were in the last `Window` seconds | implemented by `SlidingWindow` |
| `EternalBucket` | abstract: a bucket whose record no expiry drops, a level and the second it is from; a request finds it by its own time, or full if it is full by the clock | implemented by `TokenBucket` |
| `EternalQueue` | abstract: the same of a leaking queue, found by a request's own time, or empty if it has drained by the clock | implemented by `LeakyBucket` |
| `ScriptCache` | `init_redis`, `evalsha_with_fallback` | `ScriptCache.cfg` |
| `Dispatch` | `RateLimitMiddleware.dispatch`, client identification, `RateLimiterDep` | `Dispatch.cfg` |
| `RuleCache` | `_get_rules`, `_invalidate_rule_cache`, commit of a rule change | `RuleCache.cfg` |
| `AccessLists` | whitelist and blacklist in both stores | `AccessLists.cfg` |
| `RuleTable` | rows of `rate_limit_rules` under the admin handlers, `seed_demo_rules`, audit entries | `RuleTable.cfg` |
| `Dashboard` | `App.tsx`, `api.ts`, `simulator.ts` | `Dashboard.cfg` |
| `*Proofs` | the theorems about the module they are named after; `CacheProofs` about `ScriptCache`, `RuleCache` and `AccessLists`, whose names are disjoint for that | TLAPS |
| `MC*` | instances: symmetry, requests and rules for TLC | |

### How state and actions correspond to the code

**RedisClock.** `sec`, `usec` are the two numbers `TIME` answers (`usec` is the
microsecond *within* the second; a second has `USec` of them). `stamp[t]` is the
answer task `t` holds between `get_redis_time` and the end of its
`evalsha_with_fallback`. `ReadTime` is the first round trip, `Release` the end of
the second, `Tick` the clock. A limiter module conjoins `Release` with what the
script does (`Check`, `Admit`, `Block`), or with nothing for a call that fails
before the script has run (`Fail`). A script that runs but whose reply is lost is
`Check` as well: the key cannot tell.

**Limiters.** One Redis key each: the fields of the hash (`tokens`, `last_refill`,
`queue_size`, `last_leak`), the counter (`count`) or the sorted set (`zset`), and the
deadline its `EXPIRE`/`EXPIREAT` set. Expiry is not an action: a key is gone when
its deadline is not later than the clock, which is what every command in Redis sees.
Variables commented as *history* record admissions and play no part in any guard.
`Reset` is the DEL of `reset_counters`; the histories start again with it.
In the two window modules every call brings its own limit, from `Limits`: the key names
neither rule, method nor limit (`rate_limit.py:46`), so that rules of one pattern, the
tiers of a rule, a rule before and after an edit, and a handler's own check count on one
key. A tier's limit is not validated (`schemas/rule.py:20`) and may be 0.

- `FixedWindow`: `Check` is INCR, EXPIREAT on the first increment (a deadline that
  has passed deletes the key), the comparison, and DECR of a blocked request. After
  such a deletion DECR leaves -1 and no deadline, which takes a limit of 0.
- `TokenBucket`: amounts are in *parts*, `Window` parts to a token, so that the
  script's `elapsed * limit / window` is an integer. `Burst` is the multiplier in
  tenths; the schema's range 1.0–10.0 is the assumption on it.
- `LeakyBucket`: whole requests, leaked with `floor`, as in the script.
- Both buckets implement one whose record is never dropped (`BucketSpec`, `QueueSpec`): the
  fields keep what the last script wrote, also after the expiry, and only `Gone` tells that
  Redis has dropped them. A script that finds no key starts from a full bucket, or an empty
  queue, which it may do only when the kept one is full, or drained, by the clock. To a request
  with the current time that is the same thing. To one whose `TIME` answer is older it is
  not: by that answer the kept bucket may still lack tokens, and the drop admits a request
  that the key would have blocked. It is still nothing the clock had not refilled.
- `SlidingWindow`: `Cutoff` is what the script computes, from `usec`; the set's
  members are numbered instead of carrying a uuid. `Wait` is the script's retry hint.

**ScriptCache.** `shas` is the set of scripts in `_script_shas`, `loaded` the server's
cache. `call[t]` follows `evalsha_with_fallback`: `load` (SHA unknown), `eval`,
`reload` and `retry` (after NOSCRIPT). `Cut(t, ran)` is a command that ends without a
reply, run by the server or not. `Flush` is a restart of Redis, `Restart` one of the
service.

**Dispatch.** `pc[t]` is the await a request is at: the blacklist GET, the whitelist GET,
`_get_rules`, `limiter.check`, `call_next` inside the `try` (`handler`) and outside it
(`bare`). `Fetched` is what `_get_rules` may return: rules by falling priority, equals
in any order (the query orders by priority only), or, for a path no rule covers, the default
rule alone. The limiter's
verdict is free, but for a limit of 0: the bucket scripts end in an error (`Decides`), the
sliding window admits nobody (`CanAdmit`). `Fail` is an exception of any await, with the charge made or not;
`Except` is the `except` clause with `REDIS_FAIL_OPEN` true or false. A handler that
returns is a 200, one that raises enters `Except` or, outside the `try`, is a 500.
`EditLists` is an administrator, or an expiry, changing a list at any moment. `ClientIp` and
`UserId` are what `ip_utils.py` and `_extract_user_id` make of the headers, and a client is, in
every property, whom these find (section 5 says when that may be somebody else). `Guards` gives
some paths a handler with an `@rate_limit` of its own (`decorators/rate_limit.py`): `CallNext`
then goes through `Guard`, whose 429 and 503 are responses and not exceptions to the middleware.
No handler of the repository uses it yet; the run guards one path.

**RuleCache.** A cached or selected list of rules is represented by the set of changes
it reflects. `Hit`/`Miss`, `Select`, `Store` are the steps of `_get_rules`; `Write` is an
admin handler up to its return, which has started `_invalidate_rule_cache` with the
transaction still open; `Commit`/`Rollback` are `get_db`; `Scan` and `Delete` are one turn
of the loop. SCAN may return the keys in any batches; a key absent when its batch
passes is not returned.

**AccessLists.** `rows[v]` and `keys[v]` are the two stores' view of value `v`. An addition is
INSERT (flushed), SET or SETEX, commit; a removal is the lookup, DEL, DELETE by id with
the commit. The unique index makes `Add` wait for another one of the same value.

**RuleTable.** A request loads (`Load`; a POST has nothing to load), flushes and commits.
`loaded` is the rule as the session knows it; `Changed` are the columns to which `setattr`
has given another value, and only these are in the UPDATE. `Flush` waits for the row's
lock and, through `Free`, for the unique index; it raises on a taken name or a row that
has gone. A deletion is flushed within get_db's commit: `LoadEntries` is SQLAlchemy's
SELECT of the rule's audit entries, `CommitDelete` the clearing of their `rule_id`, the
DELETE and the foreign key's `ON DELETE SET NULL` (`OnDelete`). A seeding is `ReadNames`,
then `Insert` and `SeedCommit`, or `SeedNothing` when nothing is missing or a name has been
taken meanwhile. Rows have the columns that tell the handlers apart: a unique one, a
nullable one, and the one that enable and disable write. `asked` is the row as it would be
had every request written, on its commit, all it was given. `NoRow` is the row of an id
that no rule has: a row without values, so that a POST, whose rule is new to its session,
starts from `NoValues` as well. `missing` are positions in `DEMO_RULES`; `IdOf` is the id
the sequence gives to each in turn.

**Dashboard.** A click sets `todo`, and `Fire` is one pass of `fire()`: while `modeRef` is
live, a fetch (`inFlight`, apart for single clicks and bursts, since the buttons wait for
bursts only), else the simulator's answer at once. Nothing but the clock moves while `todo`
is not 0, as JavaScript runs an event to its end. `Answer` is an answer of the backend,
`Unreachable` a fetch that throws, `Checked` the answer of `/health`, asked twice under
React's StrictMode in development (`main.tsx`), `Effect` the `useEffect` that copies `mode` to `modeRef`
after a render. `Simulate` is `simulate()`, an operator on the endpoint's state and the
time, so that `RetryHonoured` can ask it what it will answer later. Its sliding window keeps
the hits in ascending order, so that `hits.filter` drops a prefix (`Filtered`). The simulator keeps its
state per path, and one endpoint is modelled at a time.

## 3. What the runs show

| Run | Bounds | Shows |
|---|---|---|
| `fixed_window` | 3 tasks, limits 0–2, window 3 s, 7 s | `FreshWithinLimit`, `OvershootBounded`, `CounterCountsWindow`, `ResetIsDeadline` |
| `token_bucket` | 2 tasks, limit 2, window 3 s, burst 1.5, 8 s | `RateBound`, `HintsExact`, refinement `BucketSpec` |
| `leaky_bucket` | 2 tasks, limit 2, window 3 s, 8 s | `LeakBound`, `RetrySound`, refinement `QueueSpec` |
| `leaky_bucket_drain` | 1 task, limit 2, window 3 s | refutes `DrainProportional` |
| `sliding_window` | 2 tasks, limits 0–2, window 2 s, 2 ticks a second, 5 s | `BlockedByBusyKey`, `RetryWithinSecond`, refinement `QuotaSpec` |
| `sliding_window_stale` | the same, 6 s | refutes `NoFalseBlock` |
| `script_cache` | 2 tasks, 2 scripts | `ChargedOnce`, `ErrorNeedsCause`, `CallsEnd` |
| `dispatch` | 2 requests of 8 kinds, 4 rules | `RefusalIsFinal`, `NoFreeRide`, `BlacklistHolds`, `ChargedByTopRule`, `HandlerRuns`, `Answered` |
| `rule_cache` | 2 readers, 2 paths, 1 change | `ChangeInForce`, `EventuallyInForce` |
| `access_lists` | 3 admins, 2 values, 2 rows a value | `RowsAndKeysAgree` |
| `rule_table` | 3 requests of 5 kinds, 2 processes, 2 demo rules, 1 audit entry, 3 ids | `RowAsAsked`, `EntriesNameRules`, `SeedingComplete` |
| `dashboard` | 4 endpoints, 5 requests, bursts to 3, 5 ticks of half a second, a log of 2 | `RecordedOnce`, `SimulatorKeepsLimits` |

Every passing run checks the module's `TypeOK` too (`ScriptTypeOK` in `ScriptCache`,
`ListsTypeOK` in `AccessLists`). Each property is stated in words
where it is defined.

**Why the bounds are enough.** The clock of the limiters runs past two windows, or past
the longest lifetime of a key, so that boundaries, expiry, recreation
of an expired key and a straggler across each of them occur. Limit 2 against
window 3 makes the rate a fraction, which is where `floor` and `ceil` act; a burst of
1.5 makes the capacity differ from the limit. In `sliding_window` two ticks a second
let two entries have different scores within a second. Two tasks suffice for two
scripts to run in the order opposite to that of their times; `fixed_window` has three, so
that the overshoot of several stragglers adds up. `MaxSec` stops the clock, which is
no deadlock as requests go on. In `rule_cache` one path can be scanned before the commit and
the other after it, with a reader on each; two changes with one reader were also
checked and hold. In `access_lists` three requests let two removals overlap with an addition.
`MaxId` bounds the rows inserted for one value. In `rule_table` three requests let two
updates overlap while a third deletes, renames or takes a name; two processes race each
other and, when one starts again, find what the other left; three ids are both demo rules
and one of an administrator. In `dashboard` the window of 3 ticks is crossed, five requests
exhaust every limit and go on, and bursts are larger than the log. The eight requests of
`dispatch` cover: skipped path, no rule and a handler with a check of its own, rule for another method
only, several rules of equal priority, tier limits, each static list, an API key without a
listing, and a client seen directly, through a proxy and through several. All limiter
results but the refuted ones are also proved without these bounds.

**Fairness.** Safety runs assume none. `ScriptCache` assumes weak fairness of each call's
next step, and `Dispatch` of each request's and each audit task's: every Redis
command ends within `redis_socket_timeout`, with or without a reply, and asyncio runs
every ready task. That PostgreSQL statements and handlers end is an assumption on the
surroundings; the code sets no timeout for them. In `Dispatch` the requests are given, and
that each of them begins (`Receive`) is part of the assumption. No fairness is assumed of
administrators, restarts, flushes or the calls of `ScriptCache` still to come. `RuleCache`
assumes that readers' statements end and that Redis expires keys (`SETEX` with 30 s), which is what makes a stale copy go; none is assumed of invalidations,
which may fail or never run.

### Disagreements with the documentation

1. `NoFalseBlock`: `lua_scripts.py:60` says "Remove entries older than the window". The
   cutoff is computed from the microsecond within the second (`lua_scripts.py:61`), is
   negative, and removes nothing: entries go only when the whole key expires.
   `QuotaSpec` holds all the same, since the error is on the strict side, and
   `BlockedByBusyKey` says what recovers a key: `Window + 1` seconds without an admission.
2. `DrainProportional`: `lua_scripts.py:152` says "Drain the queue proportional to elapsed
   time". Each call that leaks sets `last_leak` to now (`lua_scripts.py:157`) and forgets
   the fraction not yet leaked, so a client that keeps calling drains slower.

Met while modelling, visible in the models, and without a run of their own:

- README.md:14 promises "zero TOCTOU race conditions". `TIME` is read before the script
  (`fixed_window.py:20`). A request that crosses the window's end between the two finds
  the counter gone, and its own EXPIREAT lies in the past and deletes it: it is admitted
  and not counted. `OvershootBounded` says how much this can cost: one admission per
  concurrent request.
- `ip_utils.py:31` explains `TRUSTED_PROXY_HOPS=1` as trust in the immediately connecting
  proxy; the code expects that proxy's own entry behind the client's, where proxies append only
  the client's (section 5).
- README.md:103 offers "Add IP or API key to whitelist". The middleware looks up
  `rl:whitelist:<ip>` only (`rate_limit.py:188`); a listed API key has no effect.
- A tier limit of 0 makes a bucket script divide by a rate of 0 and end in an error at its
  EXPIRE: with fail-open, the tier that should never be admitted always is
  (`NoFreeRide`). In the fixed window it can leave a counter of -1 without a deadline, which
  a later window pays back with one more admission (`debt` in `FreshWithinLimit`).
- The `retry_after` of the sliding window comes from the lowest microsecond in the set
  (`lua_scripts.py:83`). It is up to a second short of what admits the client;
  `RetryWithinSecond` says it is not more.
- Two updates of a rule that overlap can leave it with columns of both (`admin.py:99`: what
  equals the loaded value is not written); `RowAsAsked` excepts the columns both were
  given. A PATCH cannot set a column to null (`exclude_none`, `admin.py:112`).
- `seed.py:3` calls the seeding idempotent. A demo rule an administrator has deleted or
  renamed comes back at the next start; and one taken name loses the whole seeding of that
  start, which `SeedingComplete` allows only when an administrator interfered.
- A request fired before `/health` has answered is simulated, though a backend may be
  there. Statuses other than 200 and 429 are in the dashboard's log and in none of its
  counts. Reset Stats is open while a single request is in flight, whose answer then opens
  the new statistics.
- The `reset_at` of a *blocked* token-bucket request is the second of its next token, where
  `lua_scripts.py:16` says the time at which the limit "fully resets"; `HintsExact` states
  both cases as they are.
- A stale `TIME` answer sets `last_refill` back and the seconds in between are refilled
  twice; `RateBound` carries them in the history variable `rewound`.
- Exceptions of the *handler* count as Redis errors (`rate_limit.py:33`) and, failing open, run
  the handler a second time; failing closed, they are a 503. `HandlerRuns` and
  `RefusalIsFinal` are stated with that exception.
- `RateLimiterDep` gives every dimension but `ip` one counter for all clients of the path
  (`decorators/rate_limit.py:66`); `OwnKey` is translated as it is.
- The default limit is not applied when the rules of a path are all for other methods
  (`rate_limit.py:194`); `NoFreeRide` lists the case (`OtherMethods`), and says of a path
  without any rule that the default is charged.
- The tier's limit applies to rules of every dimension, also to those by IP.

## 4. What is proved

For every value of the constants under the assumptions named in the modules:
`ClockAssumption` (a positive number of microseconds), `QuotaAssumption`,
`BucketAssumption`, `QueueAssumption` (limit and window positive integers, the set of
tasks finite where it is counted, the burst between 1.0 and 10.0, as the schema
requires), `BoundAssumption` (the bound on row ids is a natural). The clock is unbounded
in effect: `MaxSec` is any natural. `ScriptCache` and `RuleCache` assume nothing: tasks,
scripts, readers, paths and changes may be any sets. `Dispatch` takes

- `RuleAssumption`: finitely many rules, with integer priorities and natural limits (the
  schema lets a tier limit be negative; section 5), and a default for every method
  (`rate_limit.py:200`);
- `TaskAssumption`: finitely many requests, as their errors are counted, and a value for
  "none" that is no status;
- `HopsAssumption`: `TRUSTED_PROXY_HOPS` is a natural. Of the entries of `X-Forwarded-For`
  nothing is assumed.

`RuleTable` takes `AskAssumption` (a request is one of the four kinds, and a POST or PUT
has a name, which `schemas/rule.py:12` requires) and `DemoAssumption` (the demo rules have
names, all different, as `seed.py:14` lists them); ids are bounded by any natural `MaxId`.

`Dashboard` takes `EndpointAssumption` (one of the four algorithms, with a limit, window and cap that are
positive integers, as `endpoints.ts` lists them) and `PageAssumption` (a second and a largest
burst of at least 1, and whole numbers as burst sizes: what a user types may be negative or 0);
the bounds on the clock and on requests are any naturals.

| Module | Theorems | Inductive invariant |
|---|---|---|
| `FixedWindowProofs` | `TypeCorrect`, `FreshAdmissionsBounded`, `OvershootIsBounded`, `CounterIsOfWindow`, `ResetIsExact` | `Inv /\ LateWithinTasks` |
| `TokenBucketProofs` | `TypeCorrect`, `RateIsBounded`, `ImplementsBucket`, `HintsAreExact` | `TypeOK /\ StampsInPast /\ RateBound /\ FullWhenDropped` |
| `LeakyBucketProofs` | `TypeCorrect`, `LeakIsBounded`, `ImplementsQueue`, `RetryIsSound` | `TypeOK /\ StampsInPast /\ LeakBound /\ EmptyWhenDropped` |
| `SlidingWindowProofs` | `TypeCorrect`, `AdmissionsBounded`, `BlockingNeedsTraffic`, `RetryIsSound`, `ImplementsQuota` | `TypeOK /\ RecentKept /\ LogInPast /\ KeyOutlivesLog /\ UnbrokenRun` |
| `CacheProofs`, of `ScriptCache` | `ScriptTypeCorrect`, `ChargesAreOnce`, `ErrorsHaveCause` | `ScriptTypeOK`, `ChargeInStep`, `CauseInStep` |
| `CacheProofs`, of `RuleCache` | `TypeCorrect`, `ChangesInForce` | `TypeOK /\ PassedEarly /\ LoopInStep /\ StaleAccounted` |
| `CacheProofs`, of `AccessLists` | `ListsTypeCorrect`, `RowsAndKeysInStep` | `ListsTypeOK /\ Alone /\ RowsInStep /\ KeysInStep` |
| `DispatchProofs` | `TypeCorrect`, `RefusalsAreFinal`, `NobodyRidesFree`, `BlacklistHeld`, `TopRuleCharged`, `HandlersRun` | `TypeOK /\ ErrorsCounted`, and of each request `Untouched`, `Excused`, `Ranked`, `Checked`, `Refused`, `Banned` |
| `RuleTableProofs` | `TypeCorrect`, `RowsAsAsked`, `EntriesNameRulesAlways`, `SeedingIsComplete` | `TypeOK /\ Placed /\ InsertsApart /\ NamesApart /\ RowAsAsked /\ SharedNoted /\ AsLoaded /\ EntriesNameRules /\ SeedingKnows` |
| `DashboardProofs` | `TypeCorrect`, `EveryRequestRecorded`, `SimulatorWithinLimits` | `TypeOK /\ FiresCounted /\ RecordedOnce /\ Sound` |

The arguments in short:

- *Stamps lie in the past* in every limiter: no task holds a time later than the clock,
  so a stored time never is.
- *Fixed window.* `KeyCountsWindow`: a live counter is what the window has admitted less
  its debt, and its deadline is that window's end; a request with a time of this window is
  therefore admitted under a limit `l` only while fewer than `l` such requests have been,
  whatever limits the others came with. For the overshoot `LateWithinTasks` counts
  stragglers: the late admissions and the tasks that still hold an old time are together at
  most the number of tasks, because a task that has crossed the boundary does so once and
  reads a new time afterwards.
- *Token bucket.* `RateBound` is inductive but for expiry, where a full bucket appears from
  nothing. `FullWhenDropped` repairs this: at its deadline a key had
  refilled anyway, whatever limit, window and burst, since its lifetime is a full
  refill rounded up. `HintsAreExact` adds that a rounded-up quotient is the first second at
  which the linear refill reaches its goal.
  `ImplementsBucket` keeps the fields of a dropped key. A script that finds the key decides on
  what they hold by its own time; one that does not starts from a full bucket, which the
  abstract one allows if its record is full by the clock (`FindsKept`), and it is, since
  `FullWhenDropped` holds from the deadline on (`DroppedFull`).
- *Leaky bucket.* The same with `EmptyWhenDropped`; here the floor of the leak only helps.
  `ImplementsQueue` goes the same way, with the second from which the leak is reckoned: the time
  of the request where there is no key, as in the abstract queue that has drained by the clock
  (`DroppedEmpty`, `FindsKept`).
- *Sliding window.* `RecentKept` says that every admission of the last `Window` seconds is
  still in the set, for which the key must outlive them (`KeyOutlivesLog`); so a set of fewer than
  `l` members means fewer than `l` recent admissions, which is the guard of
  `WindowQuota!Admit(l)`. That the entries are never trimmed makes the members a run of
  admissions without a gap of more than the key's lifetime (`UnbrokenRun`), which gives
  `BlockedByBusyKey`. `RetryIsSound` needs that the hint, from whatever score, is at least
  the window, and that nothing is admitted while the client waits.

- *Script cache.* A call has charged nothing while its EVALSHA is unanswered
  (`ChargeInStep`), and between its reload and its retry only a flush takes the script away
  (`CauseInStep`); so a second run, or an error without a cause, has no step to come from.
- *Rule cache.* `ChangeInForce` speaks of a loop that has ended; `StaleAccounted` says at
  every moment that a copy without a committed change is still to be passed, or found and
  not yet deleted, or early, or overtaken. At the commit this holds because every key passed
  before it is early (`PassedEarly`), and an ended loop has nothing left or found
  (`LoopInStep`).
- *Access lists.* At most one request works on a value (`Alone`): an addition waits for the
  unique index, a removal finds no row before an addition's commit, and a second removal
  marks the value `doubled`. So a request's own row is the committed one, or none is
  (`RowsInStep`), and `KeyInStep` says what the key is before and after its write.

- *Dispatch.* Requests share the lists, the fail-open setting and the error counter, nothing
  else; so each step of a request is proved to keep what is said of that request, and
  `Kept` that it leaves alone what is said of the others. Each property has its part of the
  invariant, which adds what is known at the awaits before it is at stake: that a waiting request
  is untouched (`Untouched`), that a request past the limiter has been charged or has its
  excuse (`Excused`), that the rule in hand was the first that applies in *some* order by
  falling priority, or the default where no rule covers the path (`Ranked`, by
  `FirstMatchPrevails`: an earlier rule of the list that applies is the one taken, and
  a later one has no higher priority), that the runs of a guarded handler and its own checks
  advance in turn (`Checked`), and that a client on the list from its arrival on is either
  still before the blacklist's answer or past it by an excuse (`Banned`).
  `ErrorsCounted` bounds the counter: an error takes a task out of the set of those that can
  still add one.
- *Rule table.* Everything rests on what a flush has locked. `InsertsApart`: an id from the
  sequence is nobody else's until its row is committed. `NamesApart`: a name that an open
  transaction has put into the unique index is neither in the table nor in another open
  transaction, which keeps names unique (`TypeOK`) though `Flush` and `Commit` are apart.
  `AsLoaded` says that a column given to an open request is as it was loaded, unless
  another request was given it meanwhile, which `SharedNoted` shows to be noted in `shared`;
  so a column that is *not* written, because it equals what was loaded, still has the
  value asked for, which is `RowAsAsked`. For `SeedingComplete`, an action property,
  `SeedingKnows` carries what the SELECT saw to the end: as long as no administrator
  interferes, each demo rule is in the table or among the missing, and another seeding
  inserts all of the missing or none, so that a name taken meanwhile means all are there.
  The proof corrected the model in one place: a name counts as taken by *another* row only
  (`Taken`), as the unique index has it.

- *Dashboard.* `FiresCounted` keeps the requests in flight and those of the click under way
  within what has been fired, so that a reset, which waits for bursts, takes nothing away
  that will still be recorded. In the log every entry moves down by one: the new positions of
  a status, but for the first, map one to one into the old ones, which is how
  `RecordedOnce` is kept when the last entry falls off. `Sound` is about one endpoint's
  state after its admissions, whatever the page does. `WithinAllowance` relates any two admissions,
  so its strengthening `Accounted` speaks of every admission `i` and the present state: since `i`,
  the windows before this one have been full at most and this one holds what the counter says
  (`CounterOfLastWindow`); no more parts of tokens are gone than a full bucket and the refill
  (`TokensTaken`); what is not in the queue has leaked, but for less than one request whose leak
  began before `i` (`QueueAndLeak`); the hits are the last admissions and all others a window
  old (`HitsAreLast`). For an admission under way, the account of each earlier `i` is its bound.
  The wait that is told is, in each algorithm, enough for the state left behind.

**Only model-checked.** The liveness properties (`CallsEnd`, `Answered`,
`EventuallyInForce`), which are beyond the prover as ENABLED and induction over data are.
Every invariant and every safety property of a step that a passing run checks is proved.

## 5. Abstractions

- Lua computes in doubles; the models in exact integers. For limits and windows the schema
  admits, `rate` is a rounded quotient, and a product that should be whole may miss it by an
  ulp, so that a `floor` or `ceil` may be off by one there. The models do not show this.
- Redis is one server whose clock does not go back, and whose keys are gone at their
  deadline. Loss of all data is modelled for the access lists only; to a limiter it is a new client.
- A limiter module has one key. Rules that share a key of a window have one window length;
  the bucket modules keep one limit, window and burst. Tier limits below 0 are not modelled.
- `reset_counters` is one DEL of the key; which keys its pattern finds, and in how many
  batches, is left out, as no limiter relates two keys.
- The simulator computes in doubles as well, and its clock is taken not to go back.
- A client that disconnects (cancellation of its task at an await) is not modelled.
- Who a client is. `ip_utils.py:27` says that the rightmost `TRUSTED_PROXY_HOPS` entries of
  `X-Forwarded-For` are the proxies'. `ClientIp` is translated as it is, and the lists, keys and
  limits of `Dispatch` are about the address it finds. That is the client's own if just as
  many entries stand behind it, or if it is the first. A proxy that only appends the address it
  was called from leaves one entry fewer, so that an entry which came with the request, if there is
  one, is taken, although `ip_utils.py:31` reads as if 1 were the setting for one such proxy;
  and `docker-compose.yml:5` publishes the backend's port with no proxy in front and leaves the
  setting at 1, where the whole header is the sender's word. In these deployments
  `BlacklistHolds` and the limits by IP hold of the address found and say nothing of the sender.
- A handler whose decorator finds no `Request` among its arguments runs unchecked
  (`decorators/rate_limit.py:105`); to `Dispatch` it is a handler without a check. `get_redis()`
  in front of the dependency's `try` (`:69`) raises only before `init_redis` has run, which
  the start of the service excludes, and is left out.
- The connection pool raises at its 20th connection (`config.py:14`): to `Dispatch` this is
  one more `Fail`, at any await and whenever; that it happens under load only is not modelled.
- IP strings are values; `normalize_ip`, which collapses two spellings of one address, is left out.
- Whatever a handler returns counts as 200; response headers, the `remaining` count, logs and
  request counters are left out.

## 6. Not modelled

| Part | Why |
|---|---|
| The scan of counter reset and quota view | finds keys by pattern; what a DEL does to a limiter is in the limiters |
| Validation of fields, pagination, the queries | sequential data handling without state of its own |
| Engine and session factory | `close_db` (`session.py:49`) keeps the factory of a disposed engine; no path of the program starts again within one process |
| Health, metrics and demo endpoints | report or answer, change nothing |
| CORS, routers, migrations, containers, proxy, styling | configuration and schema |

## 7. Plan

Done, in this order: `RedisClock`, the four limiters with their proofs and the abstract
`WindowQuota`, `EternalBucket` and `EternalQueue`,
`ScriptCache`, `Dispatch`, `RuleCache`, `AccessLists`; then limits that differ on one key, resets and
the retry hint in the limiters, limits of 0 in `Dispatch`, `RuleTable`, `Dashboard`.

Next, by importance:

1. **Composition.** `Dispatch` with the lists of `AccessLists` and the cache of `RuleCache`
   in place of `EditLists` and `Fetched`: from an administrator's request to the verdict on
   a client's.
2. **Connection pool.** The pool raises at its maximum instead of waiting: together with
   fail-open, how many requests pass uncharged.
3. **Buckets under several limits.** As the windows have it; what remains of each bound.

A proof to come: an abstract quota that `FixedWindow` implements, stragglers included, as the
other limiters implement theirs.
