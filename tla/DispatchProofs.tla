--------------------------- MODULE DispatchProofs ---------------------------
(***************************************************************************)
(* What the middleware does with one request, among any number of others   *)
(* and of rules: whom it lets through, what it charges, how often it calls *)
(* the handler.                                                            *)
(***************************************************************************)
EXTENDS Dispatch, FiniteSetTheorems, SequenceTheorems, WellFoundedInduction, TLAPS

Guarded(t) == req[t].path \in DOMAIN Guards

\* The request has come as far as call_next.
Past(t) == pc[t] \in {"guard", "handler", "bareguard", "bare"} \/ calls[t] > 0

OpenFailure(t) == redis_fail_open /\ failed[t]

-----------------------------------------------------------------------------
(* The inductive invariant: one part for each property. *)

\* Until the limiter has been asked, nothing has happened to the request.
Untouched(t) ==
    pc[t] \in Waiting \cup {"idle"} =>
        /\ charged[t] = <<>> /\ own[t] = <<>>
        /\ calls[t] = 0 /\ audit[t] = "none" /\ ~raised[t]

\* What passes without a charge, or on a limit of 0, has its excuse.
Excused(t) ==
    Past(t) =>
        /\ charged[t] = <<>> =>
              \/ Skipped(t)
              \/ OnStatic(StaticWhitelist, req[t])
              \/ exempt[t]
              \/ OtherMethods(req[t])
              \/ OpenFailure(t)
        /\ charged[t] # <<>> /\ charged[t][1].limit = 0 =>
              rule[t].algorithm = "fixed_window" \/ OpenFailure(t)

\* The rule the limiter is asked with.
TopRule(t) == Prevails(rule[t], req[t])

Ranked(t) ==
    /\ pc[t] = "limiter" => rule[t] # None
    /\ pc[t] = "limiter" \/ charged[t] # <<>> => TopRule(t)
    /\ \/ charged[t] = <<>>
       \/ charged[t] = <<[key |-> RedisKey(rule[t], req[t]),
                          limit |-> EffectiveLimit(rule[t], req[t])]>>

\* The i-th check of the handler's own let the request in.
Passed(t, i) ==
    \/ own[t][i].verdict = "admitted"
    \/ own[t][i].verdict = "failed" /\ redis_fail_open

\* A handler that has raised is called once more at most, each time past a check
\* of its own.
Checked(t) ==
    /\ pc[t] \in {"guard", "handler"} => calls[t] = 0
    /\ pc[t] \in {"bareguard", "bare"} => calls[t] = 0 \/ (calls[t] = 1 /\ raised[t])
    /\ calls[t] = 2 => raised[t]
    /\ pc[t] \in {"guard", "bareguard"} => Guarded(t)
    /\ ~Guarded(t) => own[t] = <<>>
    /\ Guarded(t) =>
          /\ Len(own[t]) = calls[t] \/ (Len(own[t]) = calls[t] + 1 /\ (calls[t] = 1 => raised[t]))
          /\ \A i \in 1 .. calls[t] : Passed(t, i)
          /\ pc[t] \in {"guard", "bareguard"} => Len(own[t]) = calls[t]
          /\ pc[t] \in {"handler", "bare"} =>
                Len(own[t]) = calls[t] + 1 /\ Passed(t, calls[t] + 1)

\* A request is answered last, and refused only with nothing done.
Refused(t) ==
    /\ pc[t] # "answered" => answer[t] = None /\ audit[t] = "none"
    /\ answer[t] = 403 => calls[t] = 0 /\ charged[t] = <<>> /\ own[t] = <<>>
    /\ answer[t] \in {429, 503} /\ ~raised[t] => calls[t] = 0
    /\ audit[t] # "none" <=> answer[t] = 429 /\ own[t] = <<>>

\* A client that is outlawed has not passed the list, and a static one is not
\* there.
Banned(t) ==
    /\ outlawed[t] =>
          /\ ClientIp(req[t]) \in blacklist
          /\ pc[t] \notin {"whitelist", "rules", "limiter", "guard", "handler"}
    /\ pc[t] \in Waiting \/ Past(t) => Skipped(t) \/ ~OnStatic(StaticBlacklist, req[t])
    /\ Past(t) /\ outlawed[t] =>
          Skipped(t) \/ OnStatic(StaticWhitelist, req[t]) \/ OpenFailure(t)

InStep(t) ==
    Untouched(t) /\ Excused(t) /\ Ranked(t) /\ Checked(t) /\ Refused(t) /\ Banned(t)

\* Each task can still add one error to the counter, or has had its turn.
MayErr == {t \in Tasks : pc[t] \in Waiting \cup {"idle", "guard", "handler"}}

ErrorsCounted == errors + Cardinality(MayErr) <= Cardinality(Tasks)

IInv == TypeOK /\ ErrorsCounted /\ \A t \in Tasks : InStep(t)

-----------------------------------------------------------------------------
(* Operators. *)

\* An order of the rules that cover a path holds each of them, and nothing else.
LEMMA OrderedRules ==
    ASSUME NEW path, NEW rules \in Orders(path)
    PROVE  /\ \E n \in Nat : DOMAIN rules = 1 .. n
           /\ \A i \in DOMAIN rules : rules[i] \in Covering(path)
           /\ \A r \in Covering(path) : \E i \in DOMAIN rules : rules[i] = r
           /\ \A i, j \in DOMAIN rules : i < j => rules[i].priority >= rules[j].priority
<1> DEFINE n == Cardinality(Covering(path))
<1>1. n \in Nat
  BY RuleAssumption, FS_Subset, FS_CardinalityType DEF Covering
<1>2. /\ rules \in [1 .. n -> Covering(path)]
      /\ \A r \in Covering(path) : \E i \in DOMAIN rules : rules[i] = r
      /\ \A i, j \in DOMAIN rules : i < j => rules[i].priority >= rules[j].priority
  BY DEF Orders
<1> HIDE DEF n
<1>3. DOMAIN rules = 1 .. n
  BY <1>2
<1> QED BY <1>1, <1>2, <1>3

LEMMA LeastMember ==
    ASSUME NEW S \in SUBSET Nat, S # {}
    PROVE  \E i \in S : \A j \in S : i <= j
<1>1. IsWellFoundedOn(OpToRel(<, Nat), Nat)
  BY NatLessThanWellFounded
<1>2. PICK i \in S : \A j \in S : ~(<<j, i>> \in OpToRel(<, Nat))
  BY <1>1, WFMin
<1>3. \A j \in S : ~(j < i)
  BY <1>2 DEF OpToRel
<1> QED BY <1>3

\* The loop finds the rule that prevails, and none only if the path has rules
\* and none of them applies.
LEMMA FirstMatchPrevails ==
    ASSUME NEW request, NEW rules \in Fetched(request.path)
    PROVE  LET match == FirstMatch(rules, request)
           IN  /\ match \in RuleTable \cup {DefaultRule, None}
               /\ match = None => OtherMethods(request)
               /\ match # None => Prevails(match, request)
<1> DEFINE hits == {i \in DOMAIN rules : Applies(rules[i], request)}
           match == FirstMatch(rules, request)
<1>1. CASE Covering(request.path) = {}
  <2>1. rules = <<DefaultRule>>
    BY <1>1 DEF Fetched
  <2>2. hits = {1}
    BY <2>1, RuleAssumption DEF Applies
  <2>3. match = rules[1]
    BY <2>2 DEF FirstMatch
  <2> QED BY <1>1, <2>1, <2>3, RuleAssumption DEF Prevails
<1>2. CASE Covering(request.path) # {}
  <2>1. /\ \E n \in Nat : DOMAIN rules = 1 .. n
        /\ \A i \in DOMAIN rules : rules[i] \in Covering(request.path)
        /\ \A r \in Covering(request.path) : \E i \in DOMAIN rules : rules[i] = r
        /\ \A i, j \in DOMAIN rules : i < j => rules[i].priority >= rules[j].priority
    BY <1>2, OrderedRules DEF Fetched
  <2>2. CASE hits = {}
    <3>1. match = None
      BY <2>2 DEF FirstMatch
    <3>2. \A r \in Covering(request.path) : ~Applies(r, request)
      BY <2>1, <2>2
    <3> QED BY <1>2, <3>1, <3>2 DEF OtherMethods
  <2>3. CASE hits # {}
    <3>1. hits \in SUBSET Nat
      BY <2>1
    <3>2. \E i \in hits : \A j \in hits : i <= j
      BY <2>3, <3>1, LeastMember
    <3>3. PICK i \in hits : match = rules[i] /\ \A j \in hits : i <= j
      BY <2>3, <3>2 DEF FirstMatch
    <3>4. /\ match \in Covering(request.path) /\ match \in RuleTable
          /\ match # None /\ match.priority \in Int /\ Applies(match, request)
      BY <2>1, <3>3, RuleAssumption DEF Covering
    <3>5. ASSUME NEW r \in Covering(request.path), Applies(r, request)
          PROVE  match.priority >= r.priority
      <4>1. PICK j \in DOMAIN rules : rules[j] = r
        BY <2>1
      <4>2. j \in hits
        BY <3>5, <4>1
      <4>3. i \in Nat /\ j \in Nat /\ i <= j
        BY <3>1, <3>3, <4>2
      <4>4. CASE i = j
        BY <3>3, <3>4, <4>1, <4>4
      <4>5. CASE i < j
        BY <2>1, <3>3, <4>1, <4>5
      <4> QED BY <4>3, <4>4, <4>5
    <3> HIDE DEF match
    <3> QED BY <1>2, <3>4, <3>5 DEF Prevails, match
  <2> QED BY <2>2, <2>3
<1> QED BY <1>1, <1>2

LEMMA LimitType ==
    ASSUME NEW r \in RuleTable \cup {DefaultRule}, NEW q \in Requests
    PROVE  EffectiveLimit(r, q) \in Nat
<1> DEFINE tier == Or(q.tier, "free")
<1>1. r.limit \in Nat /\ (r.tier_limits # None /\ tier \in DOMAIN r.tier_limits =>
                              r.tier_limits[tier] \in Nat)
  BY RuleAssumption
<1> HIDE DEF tier
<1> QED BY <1>1 DEF EffectiveLimit, tier

-----------------------------------------------------------------------------
(* What a step leaves alone. *)

\* Everything of task u's request.
Kept(u) ==
    /\ pc'[u] = pc[u] /\ rule'[u] = rule[u] /\ answer'[u] = answer[u]
    /\ audit'[u] = audit[u] /\ charged'[u] = charged[u] /\ own'[u] = own[u]
    /\ calls'[u] = calls[u] /\ failed'[u] = failed[u] /\ raised'[u] = raised[u]
    /\ exempt'[u] = exempt[u] /\ outlawed'[u] = outlawed[u]

LEMMA KeptInStep ==
    ASSUME NEW u \in Tasks, InStep(u), Kept(u), UNCHANGED <<redis_fail_open, blacklist, req>>
    PROVE  InStep(u)'
<1>1. Untouched(u)'
  BY DEF InStep, Untouched, Kept
<1>2. Excused(u)'
  BY DEF InStep, Excused, Past, Skipped, OpenFailure, Kept
<1>3. Ranked(u)'
  BY DEF InStep, Ranked, TopRule, Kept
<1>4. Checked(u)'
  BY DEF InStep, Checked, Guarded, Passed, Kept
<1>5. Refused(u)'
  BY DEF InStep, Refused, Kept
<1>6. Banned(u)'
  BY DEF InStep, Banned, Past, Skipped, OpenFailure, Kept
<1> QED BY <1>1, <1>2, <1>3, <1>4, <1>5, <1>6 DEF InStep

LEMMA OneTaskInv ==
    ASSUME IInv, NEW t \in Tasks, UNCHANGED <<redis_fail_open, blacklist, req>>,
           \A u \in Tasks \ {t} : Kept(u),
           TypeOK', ErrorsCounted', InStep(t)'
    PROVE  IInv'
<1>1. ASSUME NEW u \in Tasks
      PROVE  InStep(u)'
  BY KeptInStep DEF IInv
<1> QED BY <1>1 DEF IInv

LEMMA HistoryTypes ==
    {failed, raised, exempt, outlawed} \subseteq [Tasks -> BOOLEAN] <=>
        /\ failed \in [Tasks -> BOOLEAN]
        /\ raised \in [Tasks -> BOOLEAN]
        /\ exempt \in [Tasks -> BOOLEAN]
        /\ outlawed \in [Tasks -> BOOLEAN]
  OBVIOUS

\* The tasks that may still add an error only become fewer.
LEMMA ErrorsInv ==
    ASSUME IInv, NEW t \in Tasks, \A u \in Tasks \ {t} : pc'[u] = pc[u],
           \/ errors' = errors /\ (t \in MayErr' => t \in MayErr)
           \/ errors' = errors + 1 /\ t \in MayErr \ MayErr'
    PROVE  ErrorsCounted' /\ errors' \in 0 .. Cardinality(Tasks)
<1>1. MayErr' \subseteq MayErr
  BY DEF MayErr
<1>2. /\ IsFiniteSet(MayErr) /\ IsFiniteSet(MayErr')
      /\ Cardinality(MayErr) \in Nat /\ Cardinality(MayErr') \in Nat
      /\ Cardinality(Tasks) \in Nat
      /\ Cardinality(MayErr') <= Cardinality(MayErr)
  <2>1. MayErr \subseteq Tasks
    BY DEF MayErr
  <2>2. IsFiniteSet(MayErr)
    BY <2>1, TaskAssumption, FS_Subset
  <2> QED BY <1>1, <2>2, TaskAssumption, FS_Subset, FS_CardinalityType
<1>3. errors \in Nat /\ errors + Cardinality(MayErr) <= Cardinality(Tasks)
  BY <1>2 DEF IInv, TypeOK, ErrorsCounted
<1>4. CASE errors' = errors
  BY <1>2, <1>3, <1>4 DEF ErrorsCounted
<1>5. CASE errors' = errors + 1 /\ t \in MayErr \ MayErr'
  <2>1. /\ IsFiniteSet(MayErr \ {t})
        /\ Cardinality(MayErr \ {t}) = Cardinality(MayErr) - 1
    BY <1>2, <1>5, FS_RemoveElement
  <2>2. MayErr' \subseteq MayErr \ {t}
    BY <1>1, <1>5
  <2>3. Cardinality(MayErr') <= Cardinality(MayErr) - 1
    BY <2>1, <2>2, FS_Subset
  <2> QED BY <1>2, <1>3, <1>5, <2>3 DEF ErrorsCounted
<1> QED BY <1>4, <1>5

-----------------------------------------------------------------------------
(* Where a step goes. *)

Inside(t) == IF Guarded(t) THEN "guard" ELSE "handler"
Outside(t) == IF Guarded(t) THEN "bareguard" ELSE "bare"

LEMMA CallNextPlace ==
    ASSUME NEW t \in Tasks, NEW place \in {"handler", "bare"}, CallNext(t, place)
    PROVE  /\ answer' = answer
           /\ pc' = [pc EXCEPT ![t] = IF place = "handler" THEN Inside(t) ELSE Outside(t)]
<1>1. Gate["handler"] = "guard" /\ Gate["bare"] = "bareguard"
  BY DEF Gate
<1>2. CASE place = "handler"
  BY <1>1, <1>2 DEF CallNext, Goto, Guarded, Inside
<1>3. CASE place = "bare"
  BY <1>1, <1>3 DEF CallNext, Goto, Guarded, Outside
<1> QED BY <1>2, <1>3

\* The except counts the error and lets the request out of the try, or refuses
\* it.
LEMMA ExceptPlace ==
    ASSUME NEW t \in Tasks, Except(t)
    PROVE  /\ errors' = errors + 1
           /\ \/ /\ redis_fail_open
                 /\ answer' = answer
                 /\ pc' = [pc EXCEPT ![t] = Outside(t)]
              \/ /\ ~redis_fail_open
                 /\ answer' = [answer EXCEPT ![t] = 503]
                 /\ pc' = [pc EXCEPT ![t] = "answered"]
  BY CallNextPlace DEF Except, Respond

-----------------------------------------------------------------------------
(* The steps. *)

LEMMA ReceiveInv ==
    ASSUME IInv, NEW t \in Tasks, Receive(t)
    PROVE  IInv'
<1>1. /\ UNCHANGED <<redis_fail_open, blacklist, whitelist, req, rule, errors, audit, charged,
                     own, calls, failed, raised, exempt>>
      /\ pc[t] = "idle"
      /\ outlawed' = [outlawed EXCEPT ![t] = ClientIp(req[t]) \in blacklist]
  BY DEF Receive, shared, lists
<1>2. \/ /\ pc' = [pc EXCEPT ![t] = Outside(t)] /\ answer' = answer
         /\ Skipped(t) \/ (OnStatic(StaticWhitelist, req[t]) /\ ~OnStatic(StaticBlacklist, req[t]))
      \/ /\ pc' = [pc EXCEPT ![t] = "answered"]
         /\ answer' = [answer EXCEPT ![t] = 403]
      \/ /\ pc' = [pc EXCEPT ![t] = "blacklist"] /\ answer' = answer
         /\ ~OnStatic(StaticBlacklist, req[t])
  BY CallNextPlace DEF Receive, Goto, Respond, Skipped
<1>3. Outside(t) \in {"bareguard", "bare"} /\ (Outside(t) = "bareguard" <=> Guarded(t))
  BY DEF Outside
<1>4. TypeOK'
  <2>1. pc' \in [Tasks -> Waiting \cup {"idle", "guard", "bareguard", "handler", "bare", "answered"}]
    BY <1>2, <1>3 DEF IInv, TypeOK, Waiting
  <2>2. answer' \in [Tasks -> Statuses \cup {None}]
    <3>1. answer \in [Tasks -> Statuses \cup {None}] /\ 403 \in Statuses
      BY DEF IInv, TypeOK, Statuses
    <3> QED BY <1>2, <3>1
  <2>3. outlawed' \in [Tasks -> BOOLEAN]
    BY <1>1, HistoryTypes DEF IInv, TypeOK
  <2> QED BY <1>1, <2>1, <2>2, <2>3, HistoryTypes DEF IInv, TypeOK
<1>5. /\ pc'[t] \in {"blacklist", "bareguard", "bare", "answered"}
      /\ pc'[t] = "bareguard" => Guarded(t)
      /\ pc'[t] = "bare" => ~Guarded(t)
      /\ answer'[t] = IF pc'[t] = "answered" THEN 403 ELSE answer[t]
      /\ pc'[t] \in {"bareguard", "bare"} =>
            Skipped(t) \/ (OnStatic(StaticWhitelist, req[t]) /\ ~OnStatic(StaticBlacklist, req[t]))
      /\ pc'[t] = "blacklist" => ~OnStatic(StaticBlacklist, req[t])
      /\ outlawed'[t] => ClientIp(req[t]) \in blacklist
  <2>1. /\ pc \in [Tasks -> Waiting \cup {"idle", "guard", "bareguard", "handler", "bare", "answered"}]
        /\ answer \in [Tasks -> Statuses \cup {None}]
        /\ outlawed \in [Tasks -> BOOLEAN]
    BY HistoryTypes DEF IInv, TypeOK
  <2>2. outlawed'[t] => ClientIp(req[t]) \in blacklist
    BY <1>1, <2>1
  <2>3. \/ /\ pc'[t] = Outside(t) /\ answer'[t] = answer[t]
           /\ Skipped(t) \/ (OnStatic(StaticWhitelist, req[t]) /\ ~OnStatic(StaticBlacklist, req[t]))
        \/ pc'[t] = "answered" /\ answer'[t] = 403
        \/ pc'[t] = "blacklist" /\ answer'[t] = answer[t] /\ ~OnStatic(StaticBlacklist, req[t])
    BY <1>2, <2>1
  <2> QED BY <1>3, <2>2, <2>3
<1>6. \A u \in Tasks \ {t} : Kept(u)
  BY <1>1, <1>2, HistoryTypes DEF IInv, TypeOK, Kept
<1>7. ErrorsCounted'
  <2>1. t \in MayErr
    BY <1>1 DEF MayErr
  <2> QED BY <1>1, <1>6, <2>1, ErrorsInv DEF Kept
<1>8. InStep(t)'
  <2>1. /\ charged[t] = <<>> /\ own[t] = <<>> /\ calls[t] = 0 /\ audit[t] = "none"
        /\ ~raised[t] /\ answer[t] = None
    BY <1>1 DEF IInv, InStep, Untouched, Refused
  <2>2. Untouched(t)' /\ Ranked(t)'
    BY <1>1, <1>5, <2>1 DEF Untouched, Ranked
  <2>3. Excused(t)'
    BY <1>1, <1>5, <2>1 DEF Excused, Past, Skipped, OpenFailure
  <2>4. Checked(t)'
    BY <1>1, <1>5, <2>1 DEF Checked, Guarded
  <2>5. Refused(t)'
    BY <1>1, <1>5, <2>1, TaskAssumption DEF Refused, Statuses
  <2>6. Banned(t)'
    BY <1>1, <1>5, <2>1 DEF Banned, Past, Skipped, OpenFailure, Waiting
  <2> QED BY <2>2, <2>3, <2>4, <2>5, <2>6 DEF InStep
<1> QED BY <1>1, <1>4, <1>6, <1>7, <1>8, OneTaskInv

LEMMA CheckBlacklistInv ==
    ASSUME IInv, NEW t \in Tasks, CheckBlacklist(t)
    PROVE  IInv'
<1>1. /\ UNCHANGED <<redis_fail_open, blacklist, whitelist, req, rule, errors, audit, charged,
                     own, calls, failed, raised, exempt, outlawed>>
      /\ pc[t] = "blacklist"
  BY DEF CheckBlacklist, shared, lists
<1>2. \/ /\ pc' = [pc EXCEPT ![t] = "answered"]
         /\ answer' = [answer EXCEPT ![t] = 403]
      \/ /\ pc' = [pc EXCEPT ![t] = "whitelist"] /\ answer' = answer
         /\ ClientIp(req[t]) \notin blacklist
  BY DEF CheckBlacklist, Goto, Respond
<1>3. /\ pc \in [Tasks -> Waiting \cup {"idle", "guard", "bareguard", "handler", "bare", "answered"}]
      /\ answer \in [Tasks -> Statuses \cup {None}]
      /\ 403 \in Statuses /\ "whitelist" \in Waiting
  BY DEF IInv, TypeOK, Statuses, Waiting
<1>4. TypeOK'
  <2>1. pc' \in [Tasks -> Waiting \cup {"idle", "guard", "bareguard", "handler", "bare", "answered"}]
    BY <1>2, <1>3
  <2>2. answer' \in [Tasks -> Statuses \cup {None}]
    BY <1>2, <1>3
  <2> QED BY <1>1, <2>1, <2>2 DEF IInv, TypeOK
<1>5. \/ pc'[t] = "answered" /\ answer'[t] = 403
      \/ pc'[t] = "whitelist" /\ answer'[t] = answer[t] /\ ClientIp(req[t]) \notin blacklist
  BY <1>2, <1>3
<1>6. \A u \in Tasks \ {t} : Kept(u)
  BY <1>1, <1>2, <1>3 DEF Kept
<1>7. ErrorsCounted'
  <2>1. t \in MayErr
    BY <1>1 DEF MayErr, Waiting
  <2> QED BY <1>1, <1>6, <2>1, ErrorsInv DEF Kept
<1>8. InStep(t)'
  <2>1. /\ charged[t] = <<>> /\ own[t] = <<>> /\ calls[t] = 0 /\ audit[t] = "none"
        /\ ~raised[t] /\ answer[t] = None
    BY <1>1 DEF IInv, InStep, Untouched, Refused, Waiting
  <2>2. Untouched(t)' /\ Ranked(t)' /\ Excused(t)'
    BY <1>1, <1>5, <2>1 DEF Untouched, Ranked, Excused, Past
  <2>3. Checked(t)'
    BY <1>1, <1>5, <2>1 DEF Checked, Guarded
  <2>4. Refused(t)'
    BY <1>1, <1>5, <2>1, TaskAssumption DEF Refused, Statuses
  <2>5. Banned(t)
    BY DEF IInv, InStep
  <2>6. Banned(t)'
    BY <1>1, <1>5, <2>1, <2>5 DEF Banned, Past, Skipped, Waiting
  <2> QED BY <2>2, <2>3, <2>4, <2>6 DEF InStep
<1> QED BY <1>1, <1>4, <1>6, <1>7, <1>8, OneTaskInv

LEMMA CheckWhitelistInv ==
    ASSUME IInv, NEW t \in Tasks, CheckWhitelist(t)
    PROVE  IInv'
<1>1. /\ UNCHANGED <<redis_fail_open, blacklist, whitelist, req, rule, errors, audit, charged,
                     own, calls, failed, raised, outlawed>>
      /\ pc[t] = "whitelist"
      /\ answer' = answer
  BY CallNextPlace DEF CheckWhitelist, Goto, shared, lists
<1>2. /\ exempt' = [exempt EXCEPT ![t] = ClientIp(req[t]) \in whitelist]
      /\ \/ pc' = [pc EXCEPT ![t] = Inside(t)] /\ ClientIp(req[t]) \in whitelist
         \/ pc' = [pc EXCEPT ![t] = "rules"]
  BY CallNextPlace DEF CheckWhitelist, Goto
<1>3. /\ pc \in [Tasks -> Waiting \cup {"idle", "guard", "bareguard", "handler", "bare", "answered"}]
      /\ exempt \in [Tasks -> BOOLEAN]
      /\ "rules" \in Waiting
  BY HistoryTypes DEF IInv, TypeOK, Waiting
<1>4. /\ Inside(t) \in {"guard", "handler"}
      /\ Inside(t) = "guard" <=> Guarded(t)
  BY DEF Inside
<1>5. TypeOK'
  <2>1. pc' \in [Tasks -> Waiting \cup {"idle", "guard", "bareguard", "handler", "bare", "answered"}]
    BY <1>2, <1>3, <1>4
  <2>2. exempt' \in [Tasks -> BOOLEAN]
    BY <1>2, <1>3
  <2> QED BY <1>1, <2>1, <2>2, HistoryTypes DEF IInv, TypeOK
<1>6. \/ pc'[t] = Inside(t) /\ exempt'[t]
      \/ pc'[t] = "rules"
  BY <1>2, <1>3
<1>7. \A u \in Tasks \ {t} : Kept(u)
  BY <1>1, <1>2, <1>3 DEF Kept
<1>8. ErrorsCounted'
  <2>1. t \in MayErr
    BY <1>1 DEF MayErr, Waiting
  <2> QED BY <1>1, <1>7, <2>1, ErrorsInv DEF Kept
<1>9. InStep(t)'
  <2>1. /\ charged[t] = <<>> /\ own[t] = <<>> /\ calls[t] = 0 /\ audit[t] = "none"
        /\ ~raised[t] /\ answer[t] = None
    BY <1>1 DEF IInv, InStep, Untouched, Refused, Waiting
  <2>2. Untouched(t)' /\ Ranked(t)'
    BY <1>1, <1>4, <1>6, <2>1 DEF Untouched, Ranked
  <2>3. Excused(t)'
    BY <1>1, <1>4, <1>6, <2>1 DEF Excused, Past
  <2>4. Checked(t)'
    BY <1>1, <1>4, <1>6, <2>1 DEF Checked, Guarded
  <2>5. Refused(t)'
    BY <1>1, <1>4, <1>6, <2>1, TaskAssumption DEF Refused, Statuses
  <2>6. Banned(t)
    BY DEF IInv, InStep
  <2>7. ~outlawed[t] /\ (Skipped(t) \/ ~OnStatic(StaticBlacklist, req[t]))
    BY <1>1, <2>6 DEF Banned, Waiting
  <2>8. Banned(t)'
    BY <1>1, <1>4, <1>6, <2>7 DEF Banned, Past, Skipped
  <2> QED BY <2>2, <2>3, <2>4, <2>5, <2>8 DEF InStep
<1> QED BY <1>1, <1>5, <1>7, <1>8, <1>9, OneTaskInv

LEMMA FetchRulesInv ==
    ASSUME IInv, NEW t \in Tasks, FetchRules(t)
    PROVE  IInv'
<1>1. /\ UNCHANGED <<redis_fail_open, blacklist, whitelist, req, errors, audit, charged,
                     own, calls, failed, raised, exempt, outlawed>>
      /\ pc[t] = "rules"
      /\ answer' = answer
  BY CallNextPlace DEF FetchRules, Goto, shared, lists
<1>2. PICK rules \in Fetched(req[t].path) :
         /\ rule' = [rule EXCEPT ![t] = FirstMatch(rules, req[t])]
         /\ IF FirstMatch(rules, req[t]) = None THEN CallNext(t, "bare") ELSE Goto(t, "limiter")
  BY DEF FetchRules
<1>3. PICK match : match = FirstMatch(rules, req[t])
  OBVIOUS
<1>4. /\ match \in RuleTable \cup {DefaultRule, None}
      /\ match = None => OtherMethods(req[t])
      /\ match # None => Prevails(match, req[t])
  BY <1>3, FirstMatchPrevails
<1>5. /\ rule' = [rule EXCEPT ![t] = match]
      /\ \/ match = None /\ pc' = [pc EXCEPT ![t] = Outside(t)]
         \/ match # None /\ pc' = [pc EXCEPT ![t] = "limiter"]
  BY <1>2, <1>3, CallNextPlace DEF Goto
<1>6. /\ pc \in [Tasks -> Waiting \cup {"idle", "guard", "bareguard", "handler", "bare", "answered"}]
      /\ rule \in [Tasks -> RuleTable \cup {DefaultRule, None}]
      /\ "limiter" \in Waiting
  BY DEF IInv, TypeOK, Waiting
<1>7. /\ Outside(t) \in {"bareguard", "bare"}
      /\ Outside(t) = "bareguard" <=> Guarded(t)
  BY DEF Outside
<1>8. TypeOK'
  <2>1. pc' \in [Tasks -> Waiting \cup {"idle", "guard", "bareguard", "handler", "bare", "answered"}]
    BY <1>5, <1>6, <1>7
  <2>2. rule' \in [Tasks -> RuleTable \cup {DefaultRule, None}]
    BY <1>4, <1>5, <1>6
  <2> QED BY <1>1, <2>1, <2>2, HistoryTypes DEF IInv, TypeOK
<1>9. /\ rule'[t] = match
      /\ \/ match = None /\ pc'[t] = Outside(t)
         \/ match # None /\ pc'[t] = "limiter"
  BY <1>5, <1>6
<1>10. \A u \in Tasks \ {t} : Kept(u)
  BY <1>1, <1>5, <1>6 DEF Kept
<1>11. ErrorsCounted'
  <2>1. t \in MayErr
    BY <1>1 DEF MayErr, Waiting
  <2> QED BY <1>1, <1>10, <2>1, ErrorsInv DEF Kept
<1>12. InStep(t)'
  <2>1. /\ charged[t] = <<>> /\ own[t] = <<>> /\ calls[t] = 0 /\ audit[t] = "none"
        /\ ~raised[t] /\ answer[t] = None
    BY <1>1 DEF IInv, InStep, Untouched, Refused, Waiting
  <2>2. Untouched(t)'
    BY <1>1, <1>7, <1>9, <2>1 DEF Untouched
  <2>3. Ranked(t)'
    BY <1>1, <1>4, <1>7, <1>9, <2>1 DEF Ranked, TopRule
  <2>4. Excused(t)'
    BY <1>1, <1>4, <1>7, <1>9, <2>1 DEF Excused, Past
  <2>5. Checked(t)'
    BY <1>1, <1>7, <1>9, <2>1 DEF Checked, Guarded
  <2>6. Refused(t)'
    BY <1>1, <1>7, <1>9, <2>1, TaskAssumption DEF Refused, Statuses
  <2>7. Banned(t)
    BY DEF IInv, InStep
  <2>8. ~outlawed[t] /\ (Skipped(t) \/ ~OnStatic(StaticBlacklist, req[t]))
    BY <1>1, <2>7 DEF Banned, Waiting
  <2>9. Banned(t)'
    BY <1>1, <1>7, <1>9, <2>8 DEF Banned, Past, Skipped
  <2> QED BY <2>2, <2>3, <2>4, <2>5, <2>6, <2>9 DEF InStep
<1> QED BY <1>1, <1>8, <1>10, <1>11, <1>12, OneTaskInv

\* limiter.check charges the rule that was found, once.
LEMMA ChargeOnce ==
    ASSUME IInv, NEW t \in Tasks, pc[t] = "limiter", Charge(t)
    PROVE  /\ rule[t] \in RuleTable \cup {DefaultRule}
           /\ charged' = [charged EXCEPT ![t] =
                             <<[key |-> RedisKey(rule[t], req[t]),
                                limit |-> EffectiveLimit(rule[t], req[t])]>>]
           /\ charged' \in [Tasks -> Seq([key : Keys, limit : Nat])]
<1>1. /\ charged[t] = <<>>
      /\ rule[t] \in RuleTable \cup {DefaultRule}
      /\ req[t] \in Requests
      /\ charged \in [Tasks -> Seq([key : Keys, limit : Nat])]
  BY DEF IInv, TypeOK, InStep, Untouched, Ranked, Waiting
<1>2. PICK c : c = [key |-> RedisKey(rule[t], req[t]), limit |-> EffectiveLimit(rule[t], req[t])]
  OBVIOUS
<1>3. c \in [key : Keys, limit : Nat]
  <2>1. RedisKey(rule[t], req[t]) \in Keys
    BY <1>1 DEF Keys
  <2>2. EffectiveLimit(rule[t], req[t]) \in Nat
    BY <1>1, LimitType
  <2> QED BY <1>2, <2>1, <2>2
<1>4. charged' = [charged EXCEPT ![t] = Append(charged[t], c)]
  BY <1>2 DEF Charge
<1>5. Append(charged[t], c) = <<c>> /\ <<c>> \in Seq([key : Keys, limit : Nat])
  BY <1>1, <1>3
<1>6. charged' = [charged EXCEPT ![t] = <<c>>]
  BY <1>4, <1>5
<1>7. charged' \in [Tasks -> Seq([key : Keys, limit : Nat])]
  BY <1>1, <1>5, <1>6
<1> QED BY <1>1, <1>2, <1>6, <1>7

LEMMA LimitInv ==
    ASSUME IInv, NEW t \in Tasks, Limit(t)
    PROVE  IInv'
<1>1. /\ UNCHANGED <<redis_fail_open, blacklist, whitelist, req, rule, errors,
                     own, calls, failed, raised, exempt, outlawed>>
      /\ pc[t] = "limiter"
      /\ Charge(t)
  BY DEF Limit, shared, lists
<1>2. \/ /\ CanAdmit(t)
         /\ pc' = [pc EXCEPT ![t] = Inside(t)] /\ answer' = answer /\ audit' = audit
      \/ /\ pc' = [pc EXCEPT ![t] = "answered"]
         /\ answer' = [answer EXCEPT ![t] = 429]
         /\ audit' = [audit EXCEPT ![t] = "pending"]
  BY CallNextPlace DEF Limit, Respond
<1>3. /\ pc \in [Tasks -> Waiting \cup {"idle", "guard", "bareguard", "handler", "bare", "answered"}]
      /\ answer \in [Tasks -> Statuses \cup {None}]
      /\ audit \in [Tasks -> {"none", "pending", "written", "lost"}]
      /\ charged \in [Tasks -> Seq([key : Keys, limit : Nat])]
  BY DEF IInv, TypeOK
<1>4. /\ Inside(t) \in {"guard", "handler"}
      /\ Inside(t) = "guard" <=> Guarded(t)
  BY DEF Inside
<1>5. PICK c : c = [key |-> RedisKey(rule[t], req[t]), limit |-> EffectiveLimit(rule[t], req[t])]
  OBVIOUS
<1>6. /\ charged' = [charged EXCEPT ![t] = <<c>>]
      /\ charged' \in [Tasks -> Seq([key : Keys, limit : Nat])]
  BY <1>1, <1>5, ChargeOnce
<1>7. TypeOK'
  <2>1. pc' \in [Tasks -> Waiting \cup {"idle", "guard", "bareguard", "handler", "bare", "answered"}]
    BY <1>2, <1>3, <1>4
  <2>2. answer' \in [Tasks -> Statuses \cup {None}]
    <3>1. answer \in [Tasks -> Statuses \cup {None}] /\ 429 \in Statuses
      BY <1>3 DEF Statuses
    <3>2. answer' = answer \/ answer' = [answer EXCEPT ![t] = 429]
      BY <1>2
    <3> QED BY <3>1, <3>2
  <2>3. audit' \in [Tasks -> {"none", "pending", "written", "lost"}]
    <3>1. audit \in [Tasks -> {"none", "pending", "written", "lost"}]
      BY <1>3
    <3>2. audit' = audit \/ audit' = [audit EXCEPT ![t] = "pending"]
      BY <1>2
    <3> QED BY <3>1, <3>2
  <2> QED BY <1>1, <1>6, <2>1, <2>2, <2>3 DEF IInv, TypeOK
<1>8. /\ charged'[t] = <<c>>
      /\ \/ CanAdmit(t) /\ pc'[t] = Inside(t) /\ answer'[t] = answer[t] /\ audit'[t] = audit[t]
         \/ pc'[t] = "answered" /\ answer'[t] = 429 /\ audit'[t] = "pending"
  BY <1>2, <1>3, <1>6
<1>9. \A u \in Tasks \ {t} : Kept(u)
  BY <1>1, <1>2, <1>3, <1>6 DEF Kept
<1>10. ErrorsCounted'
  <2>1. t \in MayErr
    BY <1>1 DEF MayErr, Waiting
  <2> QED BY <1>1, <1>9, <2>1, ErrorsInv DEF Kept
<1>11. InStep(t)'
  <2>1. /\ charged[t] = <<>> /\ own[t] = <<>> /\ calls[t] = 0 /\ audit[t] = "none"
        /\ ~raised[t] /\ answer[t] = None
    BY <1>1 DEF IInv, InStep, Untouched, Refused, Waiting
  <2>2. <<c>> # <<>> /\ <<c>>[1] = c /\ c.limit = EffectiveLimit(rule[t], req[t])
    BY <1>5
  <2>3. Untouched(t)'
    BY <1>1, <1>4, <1>8 DEF Untouched, Waiting
  <2>4. Ranked(t)'
    <3>1. TopRule(t)
      BY <1>1 DEF IInv, InStep, Ranked
    <3>2. TopRule(t)'
      BY <1>1, <3>1 DEF TopRule
    <3> QED BY <1>1, <1>4, <1>5, <1>8, <3>2 DEF Ranked
  <2>5. Excused(t)'
    <3>1. CASE pc'[t] = "answered"
      BY <1>1, <2>1, <3>1 DEF Excused, Past
    <3>2. CASE pc'[t] # "answered"
      <4>1. c.limit > 0 \/ rule[t].algorithm = "fixed_window"
        BY <1>8, <2>2, <3>2 DEF CanAdmit
      <4>2. c.limit = 0 => rule[t].algorithm = "fixed_window"
        BY <4>1
      <4> QED BY <1>1, <1>8, <2>2, <4>2 DEF Excused
    <3> QED BY <3>1, <3>2
  <2>6. Checked(t)'
    BY <1>1, <1>4, <1>8, <2>1 DEF Checked, Guarded
  <2>7. Refused(t)'
    BY <1>1, <1>4, <1>8, <2>1, TaskAssumption DEF Refused, Statuses
  <2>8. Banned(t)
    BY DEF IInv, InStep
  <2>9. ~outlawed[t] /\ (Skipped(t) \/ ~OnStatic(StaticBlacklist, req[t]))
    BY <1>1, <2>8 DEF Banned, Waiting
  <2>10. Banned(t)'
    BY <1>1, <2>9 DEF Banned, Skipped
  <2> QED BY <2>3, <2>4, <2>5, <2>6, <2>7, <2>10 DEF InStep
<1> QED BY <1>1, <1>7, <1>9, <1>10, <1>11, OneTaskInv

LEMMA FailInv ==
    ASSUME IInv, NEW t \in Tasks, Fail(t)
    PROVE  IInv'
<1>1. /\ UNCHANGED <<redis_fail_open, blacklist, whitelist, req, rule, audit,
                     own, calls, raised, exempt, outlawed>>
      /\ pc[t] \in Waiting
      /\ failed' = [failed EXCEPT ![t] = TRUE]
      /\ errors' = errors + 1
      /\ charged' = charged \/ (pc[t] = "limiter" /\ Charge(t))
  BY ExceptPlace DEF Fail, shared, lists
<1>2. \/ /\ redis_fail_open
         /\ pc' = [pc EXCEPT ![t] = Outside(t)] /\ answer' = answer
      \/ /\ pc' = [pc EXCEPT ![t] = "answered"]
         /\ answer' = [answer EXCEPT ![t] = 503]
  BY ExceptPlace DEF Fail
<1>3. /\ pc \in [Tasks -> Waiting \cup {"idle", "guard", "bareguard", "handler", "bare", "answered"}]
      /\ answer \in [Tasks -> Statuses \cup {None}] /\ 503 \in Statuses
      /\ failed \in [Tasks -> BOOLEAN]
      /\ charged \in [Tasks -> Seq([key : Keys, limit : Nat])]
  <2>1. 503 \in Statuses
    BY DEF Statuses
  <2> QED BY <2>1, HistoryTypes DEF IInv, TypeOK
<1>4. /\ Outside(t) \in {"bareguard", "bare"}
      /\ Outside(t) = "bareguard" <=> Guarded(t)
  BY DEF Outside
<1>5. PICK c : c = [key |-> RedisKey(rule[t], req[t]), limit |-> EffectiveLimit(rule[t], req[t])]
  OBVIOUS
<1>6. /\ \/ charged' = charged
         \/ charged' = [charged EXCEPT ![t] = <<c>>] /\ pc[t] = "limiter"
      /\ charged' \in [Tasks -> Seq([key : Keys, limit : Nat])]
  BY <1>1, <1>3, <1>5, ChargeOnce
<1>7. /\ charged'[t] = charged[t] \/ (charged'[t] = <<c>> /\ pc[t] = "limiter")
      /\ failed'[t]
      /\ \/ redis_fail_open /\ pc'[t] = Outside(t) /\ answer'[t] = answer[t]
         \/ pc'[t] = "answered" /\ answer'[t] = 503
  BY <1>1, <1>2, <1>3, <1>6
<1>8. \A u \in Tasks \ {t} : Kept(u)
  BY <1>1, <1>2, <1>3, <1>6 DEF Kept
<1>9. ErrorsCounted' /\ errors' \in 0 .. Cardinality(Tasks)
  <2>1. t \in MayErr /\ t \notin MayErr'
    BY <1>1, <1>4, <1>7 DEF MayErr, Waiting
  <2> QED BY <1>1, <1>8, <2>1, ErrorsInv DEF Kept
<1>10. TypeOK'
  <2>1. pc' \in [Tasks -> Waiting \cup {"idle", "guard", "bareguard", "handler", "bare", "answered"}]
    BY <1>2, <1>3, <1>4
  <2>2. answer' \in [Tasks -> Statuses \cup {None}]
    <3>1. answer \in [Tasks -> Statuses \cup {None}] /\ {429, 503} \subseteq Statuses
      BY DEF IInv, TypeOK, Statuses
    <3> QED BY <1>2, <3>1
  <2>3. failed' \in [Tasks -> BOOLEAN]
    BY <1>1, <1>3
  <2> QED BY <1>1, <1>6, <1>9, <2>1, <2>2, <2>3, HistoryTypes DEF IInv, TypeOK
<1>11. InStep(t)'
  <2>1. /\ charged[t] = <<>> /\ own[t] = <<>> /\ calls[t] = 0 /\ audit[t] = "none"
        /\ ~raised[t] /\ answer[t] = None
    BY <1>1 DEF IInv, InStep, Untouched, Refused, Waiting
  <2>2. Untouched(t)'
    BY <1>1, <1>4, <1>7 DEF Untouched, Waiting
  <2>3. Ranked(t)'
    <3>1. pc[t] = "limiter" => TopRule(t)
      BY <1>1 DEF IInv, InStep, Ranked
    <3>2. pc[t] = "limiter" => TopRule(t)'
      BY <1>1, <3>1 DEF TopRule
    <3>3. pc'[t] # "limiter"
      BY <1>4, <1>7
    <3> QED BY <1>1, <1>5, <1>7, <2>1, <3>2, <3>3 DEF Ranked
  <2>4. Excused(t)'
    BY <1>1, <1>4, <1>7, <2>1 DEF Excused, Past, OpenFailure
  <2>5. Checked(t)'
    BY <1>1, <1>4, <1>7, <2>1 DEF Checked, Guarded
  <2>6. Refused(t)'
    BY <1>1, <1>4, <1>7, <2>1, TaskAssumption DEF Refused, Statuses
  <2>7. Banned(t)
    BY DEF IInv, InStep
  <2>8. Banned(t)'
    BY <1>1, <1>4, <1>7, <2>1, <2>7 DEF Banned, Past, Skipped, OpenFailure
  <2> QED BY <2>2, <2>3, <2>4, <2>5, <2>6, <2>8 DEF InStep
<1> QED BY <1>1, <1>8, <1>9, <1>10, <1>11, OneTaskInv

LEMMA NoteOwn ==
    ASSUME IInv, NEW t \in Tasks, Guarded(t),
           NEW v \in {"admitted", "refused", "failed"}, Note(t, v)
    PROVE  /\ own' \in [Tasks -> Seq([key : OwnKeys, verdict : {"admitted", "refused", "failed"}])]
           /\ \A u \in Tasks \ {t} : own'[u] = own[u]
           /\ Len(own[t]) \in Nat
           /\ Len(own'[t]) = Len(own[t]) + 1
           /\ own'[t] # <<>>
           /\ \A i \in 1 .. Len(own[t]) : own'[t][i] = own[t][i]
           /\ own'[t][Len(own[t]) + 1].verdict = v
<1> DEFINE S == [key : OwnKeys, verdict : {"admitted", "refused", "failed"}]
<1>1. own \in [Tasks -> Seq(S)] /\ req[t] \in Requests
  BY DEF IInv, TypeOK
<1>2. PICK n : n = [key |-> OwnKey(Guards[req[t].path], req[t]), verdict |-> v]
  OBVIOUS
<1>3. OwnKey(Guards[req[t].path], req[t]) \in OwnKeys
  BY <1>1 DEF Guarded, OwnKeys
<1>4. n \in S /\ n.verdict = v
  BY <1>2, <1>3
<1>5. own' = [own EXCEPT ![t] = Append(own[t], n)]
  BY <1>2 DEF Note
<1> HIDE DEF S
<1>6. own[t] \in Seq(S)
  BY <1>1
<1>7. /\ Append(own[t], n) \in Seq(S)
      /\ Append(own[t], n) # <<>>
      /\ Len(Append(own[t], n)) = Len(own[t]) + 1
      /\ \A i \in 1 .. Len(own[t]) : Append(own[t], n)[i] = own[t][i]
      /\ Append(own[t], n)[Len(own[t]) + 1] = n
  BY <1>4, <1>6, AppendProperties
<1>8. own' \in [Tasks -> Seq(S)] /\ own'[t] = Append(own[t], n)
  BY <1>1, <1>5, <1>7
<1>9. \A u \in Tasks \ {t} : own'[u] = own[u]
  BY <1>1, <1>5
<1>10. Len(own[t]) \in Nat
  BY <1>6
<1> QED BY <1>4, <1>7, <1>8, <1>9, <1>10 DEF S

LEMMA GuardInv ==
    ASSUME IInv, NEW t \in Tasks, Guard(t)
    PROVE  IInv'
<1>1. /\ UNCHANGED <<redis_fail_open, blacklist, whitelist, req, rule, errors, audit, charged,
                     calls, failed, raised, exempt, outlawed>>
      /\ pc[t] \in {"guard", "bareguard"}
  BY DEF Guard, shared, lists
<1>2. PICK v \in {"admitted", "refused", "failed"} :
         /\ Note(t, v)
         /\ \/ /\ v = "admitted" \/ (v = "failed" /\ redis_fail_open)
               /\ answer' = answer
               /\ pc' = [pc EXCEPT ![t] = IF pc[t] = "guard" THEN "handler" ELSE "bare"]
            \/ /\ pc' = [pc EXCEPT ![t] = "answered"]
               /\ \E status \in {429, 503} : answer' = [answer EXCEPT ![t] = status]
  BY DEF Guard, Enter, Goto, Respond
<1>3. /\ pc \in [Tasks -> Waiting \cup {"idle", "guard", "bareguard", "handler", "bare", "answered"}]
      /\ answer \in [Tasks -> Statuses \cup {None}] /\ {429, 503} \subseteq Statuses
  BY DEF IInv, TypeOK, Statuses
<1>4. Checked(t) /\ Guarded(t) /\ Len(own[t]) = calls[t] /\ calls[t] \in {0, 1}
  BY <1>1 DEF IInv, InStep, Checked
<1>5. /\ own' \in [Tasks -> Seq([key : OwnKeys, verdict : {"admitted", "refused", "failed"}])]
      /\ \A u \in Tasks \ {t} : own'[u] = own[u]
      /\ Len(own'[t]) = calls[t] + 1
      /\ own'[t] # <<>>
      /\ \A i \in 1 .. calls[t] : own'[t][i] = own[t][i]
      /\ own'[t][calls[t] + 1].verdict = v
  <2>1. Note(t, v) /\ Guarded(t)
    BY <1>2, <1>4
  <2>2. /\ own' \in [Tasks -> Seq([key : OwnKeys, verdict : {"admitted", "refused", "failed"}])]
        /\ \A u \in Tasks \ {t} : own'[u] = own[u]
        /\ Len(own'[t]) = Len(own[t]) + 1
        /\ own'[t] # <<>>
        /\ \A i \in 1 .. Len(own[t]) : own'[t][i] = own[t][i]
        /\ own'[t][Len(own[t]) + 1].verdict = v
    BY <2>1, NoteOwn
  <2> QED BY <1>4, <2>2
<1>6. \/ /\ v = "admitted" \/ (v = "failed" /\ redis_fail_open)
         /\ answer'[t] = answer[t]
         /\ pc'[t] = IF pc[t] = "guard" THEN "handler" ELSE "bare"
      \/ pc'[t] = "answered" /\ answer'[t] \in {429, 503}
  BY <1>2, <1>3
<1>7. TypeOK'
  <2>1. pc' \in [Tasks -> Waiting \cup {"idle", "guard", "bareguard", "handler", "bare", "answered"}]
    BY <1>2, <1>3
  <2>2. answer' \in [Tasks -> Statuses \cup {None}]
    <3>1. answer \in [Tasks -> Statuses \cup {None}] /\ {429, 503} \subseteq Statuses
      BY <1>3
    <3> QED BY <1>2, <3>1
  <2> QED BY <1>1, <1>5, <2>1, <2>2 DEF IInv, TypeOK
<1>8. \A u \in Tasks \ {t} : Kept(u)
  <2>1. \A u \in Tasks \ {t} : pc'[u] = pc[u] /\ answer'[u] = answer[u]
    BY <1>2, <1>3
  <2> QED BY <1>1, <1>5, <2>1 DEF Kept
<1>9. ErrorsCounted'
  <2>1. t \in MayErr' => t \in MayErr
    BY <1>1, <1>6 DEF MayErr, Waiting
  <2> QED BY <1>1, <1>8, <2>1, ErrorsInv DEF Kept
<1>10. InStep(t)'
  <2>1. Excused(t) /\ Ranked(t) /\ Refused(t) /\ Banned(t)
    BY DEF IInv, InStep
  <2>2. Untouched(t)'
    BY <1>6 DEF Untouched, Waiting
  <2>3. Ranked(t)'
    <3>1. pc'[t] # "limiter"
      BY <1>6
    <3> QED BY <1>1, <2>1, <3>1 DEF Ranked, TopRule
  <2>4. Excused(t)'
    BY <1>1, <2>1 DEF Excused, Past, Skipped, OpenFailure
  <2>5. Checked(t)'
    <3>1. \A i \in 1 .. calls[t] : Passed(t, i)'
      BY <1>1, <1>4, <1>5 DEF Checked, Passed
    <3>2. pc'[t] # "answered" => Passed(t, calls[t] + 1)'
      BY <1>1, <1>5, <1>6 DEF Passed
    <3>3. calls[t] = 1 => raised[t]
      BY <1>1, <1>4 DEF Checked
    <3>4. pc[t] = "guard" => calls[t] = 0
      BY <1>4 DEF Checked
    <3>5. pc'[t] \in {"handler", "bare", "answered"} /\ (pc'[t] = "handler" => pc[t] = "guard")
      BY <1>1, <1>6
    <3>6. Guarded(t)' /\ calls' = calls /\ raised' = raised
      BY <1>1, <1>4 DEF Guarded
    <3> QED BY <1>4, <1>5, <3>1, <3>2, <3>3, <3>4, <3>5, <3>6 DEF Checked
  <2>6. Refused(t)'
    <3>1. answer[t] = None /\ audit[t] = "none"
      BY <1>1, <2>1 DEF Refused
    <3>2. ~raised[t] => calls[t] = 0
      BY <1>1, <1>4 DEF Checked
    <3> QED BY <1>1, <1>5, <1>6, <3>1, <3>2, TaskAssumption DEF Refused, Statuses
  <2>7. Banned(t)'
    BY <1>1, <1>6, <2>1 DEF Banned, Past, Skipped, OpenFailure, Waiting
  <2> QED BY <2>2, <2>3, <2>4, <2>5, <2>6, <2>7 DEF InStep
<1> QED BY <1>1, <1>7, <1>8, <1>9, <1>10, OneTaskInv

LEMMA HandleInv ==
    ASSUME IInv, NEW t \in Tasks, Handle(t)
    PROVE  IInv'
<1>1. /\ UNCHANGED <<redis_fail_open, blacklist, whitelist, req, rule, audit, charged,
                     own, failed, exempt, outlawed>>
      /\ pc[t] = "handler"
      /\ calls' = [calls EXCEPT ![t] = calls[t] + 1]
  BY DEF Handle, shared, lists
<1>2. \/ /\ pc' = [pc EXCEPT ![t] = "answered"]
         /\ answer' = [answer EXCEPT ![t] = 200]
         /\ UNCHANGED <<errors, raised>>
      \/ /\ pc' = [pc EXCEPT ![t] = Outside(t)] /\ answer' = answer
         /\ errors' = errors + 1 /\ raised' = [raised EXCEPT ![t] = TRUE]
      \/ /\ pc' = [pc EXCEPT ![t] = "answered"]
         /\ answer' = [answer EXCEPT ![t] = 503]
         /\ errors' = errors + 1 /\ raised' = [raised EXCEPT ![t] = TRUE]
  BY ExceptPlace DEF Handle, Respond
<1>3. /\ pc \in [Tasks -> Waiting \cup {"idle", "guard", "bareguard", "handler", "bare", "answered"}]
      /\ answer \in [Tasks -> Statuses \cup {None}] /\ {200, 503} \subseteq Statuses
      /\ raised \in [Tasks -> BOOLEAN]
      /\ calls \in [Tasks -> 0 .. 2]
  BY HistoryTypes DEF IInv, TypeOK, Statuses
<1>4. /\ Outside(t) \in {"bareguard", "bare"}
      /\ Outside(t) = "bareguard" <=> Guarded(t)
  BY DEF Outside
<1>5. Checked(t) /\ calls[t] = 0
  BY <1>1 DEF IInv, InStep, Checked
<1>6. /\ calls'[t] = 1
      /\ \/ pc'[t] = "answered" /\ answer'[t] = 200 /\ raised'[t] = raised[t]
         \/ pc'[t] = Outside(t) /\ answer'[t] = answer[t] /\ raised'[t]
         \/ pc'[t] = "answered" /\ answer'[t] = 503 /\ raised'[t]
  BY <1>1, <1>2, <1>3, <1>5
<1>7. \A u \in Tasks \ {t} : Kept(u)
  <2>1. \A u \in Tasks \ {t} : pc'[u] = pc[u] /\ answer'[u] = answer[u]
    BY <1>2, <1>3
  <2>2. \A u \in Tasks \ {t} : calls'[u] = calls[u] /\ raised'[u] = raised[u]
    BY <1>1, <1>2, <1>3
  <2> QED BY <1>1, <2>1, <2>2 DEF Kept
<1>8. ErrorsCounted' /\ errors' \in 0 .. Cardinality(Tasks)
  <2>1. t \in MayErr /\ t \notin MayErr'
    BY <1>1, <1>4, <1>6 DEF MayErr, Waiting
  <2>2. errors' = errors \/ errors' = errors + 1
    BY <1>2
  <2> QED BY <1>7, <2>1, <2>2, ErrorsInv DEF Kept
<1>9. TypeOK'
  <2>1. pc' \in [Tasks -> Waiting \cup {"idle", "guard", "bareguard", "handler", "bare", "answered"}]
    BY <1>2, <1>3, <1>4
  <2>2. answer' \in [Tasks -> Statuses \cup {None}]
    <3>1. answer \in [Tasks -> Statuses \cup {None}] /\ {200, 503} \subseteq Statuses
      BY <1>3
    <3> QED BY <1>2, <3>1
  <2>3. raised' \in [Tasks -> BOOLEAN]
    <3>1. raised \in [Tasks -> BOOLEAN]
      BY <1>3
    <3>2. raised' = raised \/ raised' = [raised EXCEPT ![t] = TRUE]
      BY <1>2
    <3> QED BY <3>1, <3>2
  <2>4. calls' \in [Tasks -> 0 .. 2]
    BY <1>1, <1>3, <1>5
  <2> QED BY <1>1, <1>8, <2>1, <2>2, <2>3, <2>4, HistoryTypes DEF IInv, TypeOK
<1>10. InStep(t)'
  <2>1. Excused(t) /\ Ranked(t) /\ Refused(t) /\ Banned(t)
    BY DEF IInv, InStep
  <2>2. Untouched(t)'
    BY <1>4, <1>6 DEF Untouched, Waiting
  <2>3. Ranked(t)'
    <3>1. pc'[t] # "limiter"
      BY <1>4, <1>6
    <3> QED BY <1>1, <2>1, <3>1 DEF Ranked, TopRule
  <2>4. Excused(t)'
    BY <1>1, <2>1 DEF Excused, Past, Skipped, OpenFailure
  <2>5. Checked(t)'
    <3>1. Guarded(t) => Len(own[t]) = 1 /\ Passed(t, 1)
      BY <1>1, <1>5 DEF Checked
    <3>2. ~Guarded(t) => own[t] = <<>>
      BY <1>5 DEF Checked
    <3>3. (Guarded(t)' <=> Guarded(t)) /\ (Passed(t, 1)' <=> Passed(t, 1))
      BY <1>1 DEF Guarded, Passed
    <3>4. own' = own /\ calls'[t] = 1
      BY <1>1, <1>6
    <3>5. pc'[t] \in {"answered", "bareguard", "bare"} /\ (pc'[t] = "bareguard" => Guarded(t))
          /\ (pc'[t] = "bare" => ~Guarded(t)) /\ (pc'[t] # "answered" => raised'[t])
      BY <1>4, <1>6
    <3> QED BY <3>1, <3>2, <3>3, <3>4, <3>5 DEF Checked
  <2>6. Refused(t)'
    <3>1. answer[t] = None /\ audit[t] = "none"
      BY <1>1, <2>1 DEF Refused
    <3> QED BY <1>1, <1>4, <1>6, <3>1, TaskAssumption DEF Refused, Statuses
  <2>7. Banned(t)'
    BY <1>1, <1>4, <1>6, <2>1 DEF Banned, Past, Skipped, OpenFailure, Waiting
  <2> QED BY <2>2, <2>3, <2>4, <2>5, <2>6, <2>7 DEF InStep
<1> QED BY <1>1, <1>7, <1>8, <1>9, <1>10, OneTaskInv

LEMMA HandleBareInv ==
    ASSUME IInv, NEW t \in Tasks, HandleBare(t)
    PROVE  IInv'
<1>1. /\ UNCHANGED <<redis_fail_open, blacklist, whitelist, req, rule, errors, audit, charged,
                     own, failed, exempt, outlawed>>
      /\ pc[t] = "bare"
      /\ calls' = [calls EXCEPT ![t] = calls[t] + 1]
      /\ pc' = [pc EXCEPT ![t] = "answered"]
  BY DEF HandleBare, Respond, shared, lists
<1>2. \/ answer' = [answer EXCEPT ![t] = 200] /\ raised' = raised
      \/ answer' = [answer EXCEPT ![t] = 500] /\ raised' = [raised EXCEPT ![t] = TRUE]
  BY DEF HandleBare, Respond
<1>3. /\ pc \in [Tasks -> Waiting \cup {"idle", "guard", "bareguard", "handler", "bare", "answered"}]
      /\ answer \in [Tasks -> Statuses \cup {None}] /\ {200, 500} \subseteq Statuses
      /\ raised \in [Tasks -> BOOLEAN]
      /\ calls \in [Tasks -> 0 .. 2]
  BY HistoryTypes DEF IInv, TypeOK, Statuses
<1>4. Checked(t) /\ (calls[t] = 0 \/ (calls[t] = 1 /\ raised[t]))
  BY <1>1 DEF IInv, InStep, Checked
<1>5. /\ calls'[t] = calls[t] + 1
      /\ pc'[t] = "answered"
      /\ answer'[t] \in {200, 500}
      /\ raised[t] => raised'[t]
  BY <1>1, <1>2, <1>3
<1>6. \A u \in Tasks \ {t} : Kept(u)
  <2>1. \A u \in Tasks \ {t} : answer'[u] = answer[u] /\ raised'[u] = raised[u]
    BY <1>2, <1>3
  <2>2. \A u \in Tasks \ {t} : calls'[u] = calls[u] /\ pc'[u] = pc[u]
    BY <1>1, <1>3
  <2> QED BY <1>1, <2>1, <2>2 DEF Kept
<1>7. ErrorsCounted'
  <2>1. t \notin MayErr'
    BY <1>5 DEF MayErr, Waiting
  <2> QED BY <1>1, <1>6, <2>1, ErrorsInv DEF Kept
<1>8. TypeOK'
  <2>1. pc' \in [Tasks -> Waiting \cup {"idle", "guard", "bareguard", "handler", "bare", "answered"}]
    BY <1>1, <1>3
  <2>2. answer' \in [Tasks -> Statuses \cup {None}]
    <3>1. answer \in [Tasks -> Statuses \cup {None}] /\ {200, 500} \subseteq Statuses
      BY <1>3
    <3> QED BY <1>2, <3>1
  <2>3. raised' \in [Tasks -> BOOLEAN]
    <3>1. raised \in [Tasks -> BOOLEAN]
      BY <1>3
    <3>2. raised' = raised \/ raised' = [raised EXCEPT ![t] = TRUE]
      BY <1>2
    <3> QED BY <3>1, <3>2
  <2>4. calls' \in [Tasks -> 0 .. 2]
    BY <1>1, <1>3, <1>4
  <2> QED BY <1>1, <2>1, <2>2, <2>3, <2>4, HistoryTypes DEF IInv, TypeOK
<1>9. InStep(t)'
  <2>1. Excused(t) /\ Ranked(t) /\ Refused(t) /\ Banned(t)
    BY DEF IInv, InStep
  <2>2. Untouched(t)'
    BY <1>5 DEF Untouched, Waiting
  <2>3. Ranked(t)'
    BY <1>1, <1>5, <2>1 DEF Ranked, TopRule
  <2>4. Excused(t)'
    BY <1>1, <2>1 DEF Excused, Past, Skipped, OpenFailure
  <2>5. Checked(t)'
    <3>1. Guarded(t) =>
              /\ Len(own[t]) = calls[t] + 1
              /\ \A i \in 1 .. calls[t] + 1 : Passed(t, i)
      <4>1. Guarded(t) => Len(own[t]) = calls[t] + 1 /\ Passed(t, calls[t] + 1)
                          /\ \A i \in 1 .. calls[t] : Passed(t, i)
        BY <1>1, <1>4 DEF Checked
      <4>2. \A i \in 1 .. calls[t] + 1 : i \in 1 .. calls[t] \/ i = calls[t] + 1
        BY <1>4
      <4> QED BY <4>1, <4>2
    <3>2. ~Guarded(t) => own[t] = <<>>
      BY <1>4 DEF Checked
    <3>3. (Guarded(t)' <=> Guarded(t)) /\ \A i : Passed(t, i)' <=> Passed(t, i)
      BY <1>1 DEF Guarded, Passed
    <3>4. own' = own /\ (calls'[t] = 2 => raised'[t])
      BY <1>1, <1>4, <1>5
    <3> QED BY <1>5, <3>1, <3>2, <3>3, <3>4 DEF Checked
  <2>6. Refused(t)'
    <3>1. audit[t] = "none"
      BY <1>1, <2>1 DEF Refused
    <3> QED BY <1>1, <1>5, <3>1 DEF Refused
  <2>7. Banned(t)'
    BY <1>1, <1>5, <2>1 DEF Banned, Past, Skipped, OpenFailure, Waiting
  <2> QED BY <2>2, <2>3, <2>4, <2>5, <2>6, <2>7 DEF InStep
<1> QED BY <1>1, <1>6, <1>7, <1>8, <1>9, OneTaskInv

LEMMA WriteAuditInv ==
    ASSUME IInv, NEW t \in Tasks, WriteAudit(t)
    PROVE  IInv'
<1>1. /\ UNCHANGED <<redis_fail_open, blacklist, whitelist, pc, req, rule, answer, errors,
                     charged, own, calls, failed, raised, exempt, outlawed>>
      /\ audit[t] = "pending"
      /\ \E end \in {"written", "lost"} : audit' = [audit EXCEPT ![t] = end]
  BY DEF WriteAudit, shared, lists
<1>2. audit \in [Tasks -> {"none", "pending", "written", "lost"}]
  BY DEF IInv, TypeOK
<1>3. /\ audit' \in [Tasks -> {"none", "pending", "written", "lost"}]
      /\ audit'[t] # "none"
      /\ \A u \in Tasks \ {t} : audit'[u] = audit[u]
  BY <1>1, <1>2
<1>4. TypeOK'
  BY <1>1, <1>3 DEF IInv, TypeOK
<1>5. \A u \in Tasks \ {t} : Kept(u)
  BY <1>1, <1>3 DEF Kept
<1>6. ErrorsCounted'
  BY <1>1 DEF IInv, ErrorsCounted, MayErr
<1>7. InStep(t)'
  <2>1. Untouched(t) /\ Excused(t) /\ Ranked(t) /\ Checked(t) /\ Refused(t) /\ Banned(t)
    BY DEF IInv, InStep
  <2>2. pc[t] = "answered"
    BY <1>1, <2>1 DEF Refused
  <2>3. Untouched(t)' /\ Ranked(t)' /\ Checked(t)'
    BY <1>1, <2>1, <2>2 DEF Untouched, Waiting, Ranked, TopRule, Checked, Guarded, Passed
  <2>4. Excused(t)' /\ Banned(t)'
    BY <1>1, <2>1 DEF Excused, Banned, Past, Skipped, OpenFailure
  <2>5. Refused(t)'
    BY <1>1, <1>3, <2>1, <2>2 DEF Refused
  <2> QED BY <2>3, <2>4, <2>5 DEF InStep
<1> QED BY <1>1, <1>4, <1>5, <1>6, <1>7, OneTaskInv

\* A change of the lists can only end a client's time on the blacklist.
LEMMA EditListsInv ==
    ASSUME IInv, EditLists
    PROVE  IInv'
<1>1. /\ UNCHANGED <<redis_fail_open, pc, req, rule, answer, errors, audit,
                     charged, own, calls, failed, raised, exempt>>
      /\ outlawed' = [t \in Tasks |-> outlawed[t] /\ ClientIp(req[t]) \in blacklist']
      /\ blacklist' \subseteq Listable /\ whitelist' \subseteq Listable
  BY DEF EditLists, IInv, TypeOK
<1>2. outlawed' \in [Tasks -> BOOLEAN]
  BY <1>1, HistoryTypes DEF IInv, TypeOK
<1>3. TypeOK'
  BY <1>1, <1>2, HistoryTypes DEF IInv, TypeOK
<1>4. ErrorsCounted'
  BY <1>1 DEF IInv, ErrorsCounted, MayErr
<1>5. ASSUME NEW t \in Tasks
      PROVE  InStep(t)'
  <2>1. Untouched(t) /\ Excused(t) /\ Ranked(t) /\ Checked(t) /\ Refused(t) /\ Banned(t)
    BY DEF IInv, InStep
  <2>2. outlawed'[t] => outlawed[t] /\ ClientIp(req[t]) \in blacklist'
    BY <1>1
  <2>3. Untouched(t)' /\ Ranked(t)' /\ Checked(t)' /\ Refused(t)'
    BY <1>1, <2>1 DEF Untouched, Ranked, TopRule, Checked, Guarded, Passed, Refused
  <2>4. Excused(t)'
    BY <1>1, <2>1 DEF Excused, Past, Skipped, OpenFailure
  <2>5. Banned(t)'
    BY <1>1, <2>1, <2>2 DEF Banned, Past, Skipped, OpenFailure
  <2> QED BY <2>3, <2>4, <2>5 DEF InStep
<1> QED BY <1>3, <1>4, <1>5 DEF IInv

LEMMA InitInv == Init => IInv
<1> SUFFICES ASSUME Init
             PROVE  IInv
  OBVIOUS
<1>1. /\ IsFiniteSet(MayErr) /\ MayErr = Tasks
      /\ Cardinality(Tasks) \in Nat
  BY TaskAssumption, FS_CardinalityType DEF Init, MayErr
<1>2. TypeOK
  <2>1. \A S : <<>> \in Seq(S)
    OBVIOUS
  <2>2. /\ charged \in [Tasks -> Seq([key : Keys, limit : Nat])]
        /\ own \in [Tasks -> Seq([key : OwnKeys, verdict : {"admitted", "refused", "failed"}])]
    BY <2>1 DEF Init
  <2>3. /\ failed \in [Tasks -> BOOLEAN] /\ raised \in [Tasks -> BOOLEAN]
        /\ exempt \in [Tasks -> BOOLEAN] /\ outlawed \in [Tasks -> BOOLEAN]
    BY DEF Init
  <2> QED BY <1>1, <2>2, <2>3, HistoryTypes DEF Init, TypeOK
<1>3. ErrorsCounted
  BY <1>1 DEF Init, ErrorsCounted
<1>4. ASSUME NEW t \in Tasks
      PROVE  InStep(t)
  <2>1. /\ pc[t] = "idle" /\ answer[t] = None /\ audit[t] = "none" /\ charged[t] = <<>>
        /\ own[t] = <<>> /\ calls[t] = 0 /\ ~raised[t] /\ ~outlawed[t]
    BY DEF Init
  <2>2. Untouched(t) /\ Excused(t) /\ Ranked(t) /\ Banned(t)
    BY <2>1 DEF Untouched, Excused, Ranked, Banned, Past, Waiting
  <2>3. Checked(t)
    BY <2>1 DEF Checked
  <2>4. Refused(t)
    BY <2>1, TaskAssumption DEF Refused, Statuses
  <2> QED BY <2>2, <2>3, <2>4 DEF InStep
<1> QED BY <1>2, <1>3, <1>4 DEF IInv

LEMMA NextInv == IInv /\ [Next]_vars => IInv'
<1> SUFFICES ASSUME IInv, [Next]_vars
             PROVE  IInv'
  OBVIOUS
<1>1. ASSUME NEW t \in Tasks, Step(t)
      PROVE  IInv'
  BY <1>1, ReceiveInv, CheckBlacklistInv, CheckWhitelistInv, FetchRulesInv, LimitInv, FailInv,
     GuardInv, HandleInv, HandleBareInv DEF Step
<1>2. ASSUME NEW t \in Tasks, WriteAudit(t)
      PROVE  IInv'
  BY <1>2, WriteAuditInv
<1>3. CASE EditLists
  BY <1>3, EditListsInv
<1>4. CASE UNCHANGED vars
  <2>1. UNCHANGED <<redis_fail_open, blacklist, whitelist, pc, req, rule, answer, errors, audit,
                    charged, own, calls, failed, raised, exempt, outlawed>>
    BY <1>4 DEF vars
  <2>2. TypeOK' /\ ErrorsCounted'
    BY <2>1 DEF IInv, TypeOK, ErrorsCounted, MayErr
  <2>3. \A t \in Tasks : Kept(t)
    BY <2>1 DEF Kept
  <2> QED BY <2>1, <2>2, <2>3, KeptInStep DEF IInv
<1> QED BY <1>1, <1>2, <1>3, <1>4 DEF Next

LEMMA SpecInv == Spec => []IInv
  BY InitInv, NextInv, PTL DEF Spec

-----------------------------------------------------------------------------
(* The theorems. *)

\* Every answer is one of the service's, every key charged is one of a rule, and
\* the counter of errors never exceeds the number of requests.
THEOREM TypeCorrect == Spec => []TypeOK
<1>1. IInv => TypeOK
  BY DEF IInv
<1> QED BY <1>1, SpecInv, PTL

\* A 403 of the middleware is given before anything is charged or called, a 429
\* or 503 before the handler was called unless it raised, and the 429s of the
\* middleware, no others, leave an audit entry.
THEOREM RefusalsAreFinal == Spec => []RefusalIsFinal
<1>1. IInv => RefusalIsFinal
  BY DEF IInv, InStep, Refused, RefusalIsFinal
<1> QED BY <1>1, SpecInv, PTL

\* Whatever the rules, lists and failures, dispatch calls no handler for a
\* request it has not charged, to the default where the path has no rule, but for
\* the service's named exceptions; and for none with a limit of 0 but through
\* fail-open and the fixed window.
THEOREM NobodyRidesFree == Spec => []NoFreeRide
<1>1. IInv => NoFreeRide
  BY DEF IInv, InStep, Excused, Past, OpenFailure, NoFreeRide
<1> QED BY <1>1, SpecInv, PTL

\* A client whose IP, as extract_client_ip finds it, was on the blacklist from
\* its request's arrival on reaches handlers of skipped paths only, but for a
\* static whitelist entry or fail-open.
THEOREM BlacklistHeld == Spec => []BlacklistHolds
<1>1. IInv => BlacklistHolds
  BY DEF IInv, InStep, Banned, Past, OpenFailure, BlacklistHolds
<1> QED BY <1>1, SpecInv, PTL

\* A request is charged once at most, to the key of a rule of the highest
\* priority among those of its path and method, or of the default where no rule
\* covers the path, for any rules and any order in which the database returns
\* equals.
THEOREM TopRuleCharged == Spec => []ChargedByTopRule
<1>1. IInv => ChargedByTopRule
  <2> SUFFICES ASSUME IInv, NEW t \in Tasks, charged[t] # <<>>
               PROVE  /\ Len(charged[t]) = 1
                      /\ charged[t][1].key = RedisKey(rule[t], req[t])
                      /\ TopRule(t)
    BY DEF ChargedByTopRule, TopRule
  <2>1. Ranked(t)
    BY DEF IInv, InStep
  <2>2. PICK c : charged[t] = <<c>> /\ c.key = RedisKey(rule[t], req[t])
    BY <2>1 DEF Ranked
  <2>3. Len(<<c>>) = 1 /\ <<c>>[1] = c
    OBVIOUS
  <2> QED BY <2>1, <2>2, <2>3 DEF Ranked
<1> QED BY <1>1, SpecInv, PTL

LEMMA UpTo ==
    ASSUME NEW n \in Nat
    PROVE  IsFiniteSet(1 .. n) /\ Cardinality(1 .. n) = n
  BY FS_Interval

\* A handler runs again only if it raised, and each run of one with a check of
\* its own has passed that check or met a failure with fail-open.
THEOREM HandlersRun == Spec => []HandlerRuns
<1>1. IInv => HandlerRuns
  <2> SUFFICES ASSUME IInv, NEW t \in Tasks
               PROVE  LET passed == {i \in DOMAIN own[t] :
                                        \/ own[t][i].verdict = "admitted"
                                        \/ own[t][i].verdict = "failed" /\ redis_fail_open}
                      IN  /\ calls[t] = 2 => raised[t]
                          /\ Guarded(t) =>
                                /\ calls[t] <= Cardinality(passed)
                                /\ Len(own[t]) <= calls[t] + 1
                                /\ Len(own[t]) = 2 => raised[t]
    BY DEF HandlerRuns, Guarded
  <2> DEFINE passed == {i \in DOMAIN own[t] :
                           \/ own[t][i].verdict = "admitted"
                           \/ own[t][i].verdict = "failed" /\ redis_fail_open}
  <2>1. Checked(t)
    BY DEF IInv, InStep
  <2>2. calls[t] \in 0 .. 2 /\ DOMAIN own[t] = 1 .. Len(own[t]) /\ Len(own[t]) \in Nat
    BY DEF IInv, TypeOK
  <2>3. CASE ~Guarded(t)
    BY <2>1, <2>3 DEF Checked
  <2>4. CASE Guarded(t)
    <3>1. /\ Len(own[t]) = calls[t] \/ (Len(own[t]) = calls[t] + 1 /\ (calls[t] = 1 => raised[t]))
          /\ \A i \in 1 .. calls[t] : Passed(t, i)
          /\ calls[t] = 2 => raised[t]
      BY <2>1, <2>4 DEF Checked
    <3>2. 1 .. calls[t] \subseteq passed
      BY <2>2, <3>1 DEF Passed
    <3>3. passed \subseteq 1 .. Len(own[t])
      BY <2>2
    <3>4. IsFiniteSet(1 .. Len(own[t]))
      BY <2>2, UpTo
    <3>5. IsFiniteSet(1 .. calls[t]) /\ Cardinality(1 .. calls[t]) = calls[t]
      BY <2>2, UpTo
    <3>6. IsFiniteSet(passed)
      BY <3>3, <3>4, FS_Subset
    <3>7. calls[t] <= Cardinality(passed)
      BY <3>2, <3>5, <3>6, FS_Subset
    <3>8. Len(own[t]) <= calls[t] + 1
      BY <2>2, <3>1
    <3>9. Len(own[t]) = 2 => raised[t]
      BY <2>2, <3>1
    <3> HIDE DEF passed
    <3> QED BY <2>4, <3>1, <3>8, <3>9, <3>7 DEF passed
  <2> QED BY <2>3, <2>4
<1> QED BY <1>1, SpecInv, PTL

=============================================================================
