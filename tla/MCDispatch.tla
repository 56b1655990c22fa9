----------------------------- MODULE MCDispatch -----------------------------
(* Instances of Dispatch for TLC. *)
EXTENDS Dispatch

CONSTANTS alice, bob, proxy,    \* IPs
          key, user             \* an API key, the subject of a token

Request(path, method, peer, forwarded, api_key, tier) ==
    [path |-> path, method |-> method, api_key |-> api_key,
     peer |-> peer, forwarded |-> forwarded,
     token |-> IF tier = None THEN None ELSE user, tier |-> tier]

\* Anonymous and of a tier, on a path with several rules; on paths without a
\* rule, with a rule for another method, and skipped; from an IP and with a key
\* of the static lists; directly, through a proxy, and with entries
\* before its own.
MCRequests ==
    { Request("/api",    "GET",  alice, <<>>,             None, None),
      Request("/api",    "POST", proxy, <<alice, proxy>>, None, "pro"),
      Request("/api",    "GET",  alice, <<>>,             None, "pro"),
      Request("/other",  "GET",  proxy, <<alice>>,        None, None),
      Request("/post",   "GET",  alice, <<>>,             None, None),
      Request("/health", "GET",  bob,   <<>>,             None, None),
      Request("/api",    "GET",  bob,   <<>>,             key,  None),
      Request("/api",    "GET",  proxy, <<bob, alice, proxy>>, key, None) }

\* The handler of the path without a rule has a check of its own.
MCGuards ==
    [path \in {"/other"} |->
        [algorithm |-> "sliding_window", dimension |-> "user_id"]]

Rule(pattern, method, algorithm, dimension, limit, tiers, priority) ==
    [route_pattern |-> pattern, paths |-> {pattern}, method |-> method,
     algorithm |-> algorithm, dimension |-> dimension, limit |-> limit,
     tier_limits |-> tiers, priority |-> priority]

\* A tier without requests on a token bucket, another on a sliding window.
MCRuleTable ==
    { Rule("/api",  None,   "token_bucket",   "ip",      2, [pro |-> 0], 0),
      Rule("/api",  "GET",  "sliding_window", "user_id", 1, [pro |-> 0], 1),
      Rule("/api",  "GET",  "sliding_window", "api_key", 3, [pro |-> 4], 1),
      Rule("/post", "POST", "sliding_window", "global",  1, None,        0) }

MCDefaultRule ==
    [route_pattern |-> "*", paths |-> {}, method |-> None,
     algorithm |-> "sliding_window", dimension |-> "ip", limit |-> 100,
     tier_limits |-> None, priority |-> 0]
=============================================================================
