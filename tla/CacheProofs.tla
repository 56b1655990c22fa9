----------------------------- MODULE CacheProofs ----------------------------
(***************************************************************************)
(* What Redis keeps for the service.  Of the rules: a change whose         *)
(* invalidation has ended is in force but for two named races.  Of the     *)
(* scripts: one call charges once, and raises for a cause.  Of the access  *)
(* lists: rows and keys agree.  For any number of paths, readers, changes, *)
(* calls, scripts, administrators and values.                              *)
(***************************************************************************)
EXTENDS RuleCache, ScriptCache, AccessLists, TLAPS

-----------------------------------------------------------------------------
(* The rules. *)

\* Every key the cursor has passed before the commit is known to be early.
PassedEarly ==
    \A c \in Changes : c \notin db => Paths \ left[c] \subseteq early[c]

\* Keys that SCAN returned wait for DELETE, and a loop that has ended has none,
\* nor keys to pass.
LoopInStep ==
    \A c \in Changes :
        /\ found[c] # {} => invalidation[c] \in {"delete", "failed"}
        /\ invalidation[c] = "ended" => left[c] = {}
        /\ transaction[c] = "none" => invalidation[c] = "none"

\* A copy without a committed change is still to be deleted, or is there by one
\* of the two races; the invalidation need not have ended.
Accounted(c, p) == p \in left[c] \cup found[c] \cup early[c] \/ c \in overtaken[p]

StaleAccounted ==
    \A c \in db, p \in Paths : cache[p] # None /\ c \notin cache[p] => Accounted(c, p)

IInv == TypeOK /\ PassedEarly /\ LoopInStep /\ StaleAccounted

LEMMA InitInv == Init => IInv
<1> SUFFICES ASSUME Init
             PROVE  IInv
  OBVIOUS
<1>1. TypeOK
  BY DEF Init, TypeOK
<1>2. PassedEarly /\ LoopInStep /\ StaleAccounted
  BY DEF Init, PassedEarly, LoopInStep, StaleAccounted
<1> QED BY <1>1, <1>2 DEF IInv

\* Reading leaves the change's task and the copies alone.
LEMMA ReadInv ==
    ASSUME IInv, NEW r \in Readers, NEW p \in Paths,
           Hit(r, p) \/ Miss(r, p) \/ Select(r) \/ Fail(r)
    PROVE  IInv'
<1>1. UNCHANGED <<db, cache, transaction, invalidating, overtaken>>
  BY DEF Hit, Miss, Select, Fail
<1>2. /\ pc' \in [Readers -> {"idle", "select", "store"}]
      /\ path' \in [Readers -> Paths]
      /\ rules' \in [Readers -> SUBSET Changes]
  <2>1. CASE Hit(r, p)
    <3>1. cache[p] \in SUBSET Changes
      BY <2>1 DEF Hit, IInv, TypeOK
    <3>2. rules' = [rules EXCEPT ![r] = cache[p]]
      BY <2>1 DEF Hit
    <3>3. rules' \in [Readers -> SUBSET Changes]
      BY <3>1, <3>2 DEF IInv, TypeOK
    <3> QED BY <2>1, <3>3 DEF Hit, IInv, TypeOK
  <2>2. CASE Miss(r, p)
    BY <2>2 DEF Miss, Goto, IInv, TypeOK
  <2>3. CASE Select(r)
    BY <2>3 DEF Select, Goto, IInv, TypeOK
  <2>4. CASE Fail(r)
    BY <2>4 DEF Fail, Goto, IInv, TypeOK
  <2> QED BY <2>1, <2>2, <2>3, <2>4
<1>3. TypeOK'
  BY <1>1, <1>2 DEF invalidating, IInv, TypeOK
<1>4. (PassedEarly /\ LoopInStep /\ StaleAccounted)'
  BY <1>1 DEF invalidating, IInv, PassedEarly, LoopInStep, StaleAccounted, Accounted
<1> QED BY <1>3, <1>4 DEF IInv

\* A copy stored late is accounted for by the scans that have passed its key.
LEMMA StoreInv ==
    ASSUME IInv, NEW r \in Readers, Store(r)
    PROVE  IInv'
<1>1. UNCHANGED <<db, path, rules, transaction, invalidation, left, found, early>>
  BY DEF Store, invalidating
<1>2. TypeOK'
  BY <1>1 DEF Store, Goto, IInv, TypeOK
<1>3. PassedEarly' /\ LoopInStep'
  BY <1>1 DEF IInv, PassedEarly, LoopInStep
<1>4. ASSUME NEW c \in db, NEW p \in Paths, cache'[p] # None, c \notin cache'[p]
      PROVE  Accounted(c, p)'
  <2>1. CASE p = path[r]
    <3>1. overtaken'[p] = {d \in Changes : p \notin left[d]}
      BY <2>1 DEF Store, IInv, TypeOK
    <3>2. c \in Changes
      BY DEF IInv, TypeOK
    <3> QED BY <1>1, <3>1, <3>2 DEF Accounted
  <2>2. CASE p # path[r]
    <3>1. cache'[p] = cache[p] /\ overtaken'[p] = overtaken[p]
      BY <2>2 DEF Store, IInv, TypeOK
    <3>2. Accounted(c, p)
      BY <1>4, <3>1 DEF IInv, StaleAccounted
    <3> QED BY <1>1, <3>1, <3>2 DEF Accounted
  <2> QED BY <2>1, <2>2
<1>5. StaleAccounted'
  BY <1>1, <1>4 DEF StaleAccounted
<1> QED BY <1>2, <1>3, <1>5 DEF IInv

\* A change that commits finds every copy still to be passed, or passed early.
LEMMA TransactionInv ==
    ASSUME IInv, NEW c \in Changes, Write(c) \/ Commit(c) \/ Rollback(c)
    PROVE  IInv'
<1>1. UNCHANGED <<cache, reading, left, found, early, overtaken>>
  BY DEF Write, Commit, Rollback, invalidating
<1>2. db' \subseteq db \cup {c} /\ db \subseteq db' /\ db' \subseteq Changes
  BY DEF Write, Commit, Rollback, IInv, TypeOK
<1>3. /\ transaction' \in [Changes -> {"none", "open", "committed", "rolledback"}]
      /\ invalidation' \in [Changes -> {"none", "scan", "delete", "ended", "failed"}]
  BY DEF Write, Commit, Rollback, invalidating, IInv, TypeOK
<1>4. TypeOK'
  BY <1>1, <1>2, <1>3 DEF reading, IInv, TypeOK
<1>5. PassedEarly'
  BY <1>1, <1>2 DEF IInv, PassedEarly
<1>6. StaleAccounted'
  <2> SUFFICES ASSUME NEW d \in db', NEW p \in Paths, cache'[p] # None, d \notin cache'[p]
               PROVE  Accounted(d, p)'
    BY DEF StaleAccounted
  <2>1. d \in db => Accounted(d, p)
    BY <1>1 DEF IInv, StaleAccounted
  <2>2. d \notin db => Accounted(d, p)
    BY <1>2 DEF IInv, PassedEarly, Accounted
  <2> QED BY <1>1, <2>1, <2>2 DEF Accounted
<1>7. LoopInStep'
  <2>1. \A d \in Changes : transaction'[d] = "none" =>
            transaction[d] = "none" /\ invalidation'[d] = invalidation[d]
    BY DEF Write, Commit, Rollback, invalidating, IInv, TypeOK
  <2>2. \A d \in Changes :
            invalidation'[d] = invalidation[d]
              \/ (transaction[d] = "none" /\ invalidation'[d] = "scan")
    BY DEF Write, Commit, Rollback, invalidating, IInv, TypeOK
  <2>3. \A d \in Changes : transaction[d] = "none" => found[d] = {}
    BY DEF IInv, LoopInStep
  <2> QED BY <1>1, <2>1, <2>2, <2>3 DEF IInv, LoopInStep
<1> QED BY <1>4, <1>5, <1>6, <1>7 DEF IInv

\* A batch leaves what is still to be passed: what of it exists is found, the
\* rest has no copy, and before the commit all of it is early.
LEMMA ScanInv ==
    ASSUME IInv, NEW c \in Changes, Scan(c)
    PROVE  IInv'
<1>1. UNCHANGED <<db, cache, reading, transaction, overtaken>> /\ invalidation[c] = "scan"
  BY DEF Scan
<1>2. PICK batch \in (SUBSET left[c]) \ {{}} :
         LET present == {p \in batch : cache[p] # None}
         IN  /\ left' = [left EXCEPT ![c] = Rest(c, batch)]
             /\ found' = [found EXCEPT ![c] = present]
             /\ early' = [early EXCEPT ![c] = IF c \in db THEN @ ELSE @ \cup batch]
             /\ invalidation' = [invalidation EXCEPT ![c] =
                   IF present = {} THEN AfterBatch(c, batch) ELSE "delete"]
  BY DEF Scan
<1>3. found[c] = {} /\ left[c] \subseteq Paths /\ batch \subseteq Paths
  BY <1>1 DEF IInv, TypeOK, LoopInStep
<1>4. /\ left'[c] = left[c] \ batch
      /\ found'[c] = {p \in batch : cache[p] # None}
      /\ early'[c] = IF c \in db THEN early[c] ELSE early[c] \cup batch
      /\ invalidation'[c] \in {"ended", "scan", "delete"}
      /\ invalidation'[c] = "ended" => left[c] = batch
      /\ found'[c] # {} => invalidation'[c] = "delete"
  BY <1>2 DEF IInv, TypeOK, Rest, AfterBatch
<1>5. \A d \in Changes \ {c} :
          /\ left'[d] = left[d]
          /\ found'[d] = found[d]
          /\ early'[d] = early[d]
          /\ invalidation'[d] = invalidation[d]
  BY <1>2 DEF IInv, TypeOK
<1>6. TypeOK'
  <2>1. /\ left' \in [Changes -> SUBSET Paths]
        /\ found' \in [Changes -> SUBSET Paths]
    BY <1>2, <1>3 DEF IInv, TypeOK, Rest
  <2>2. early' \in [Changes -> SUBSET Paths]
    BY <1>2, <1>3 DEF IInv, TypeOK
  <2>3. invalidation' \in [Changes -> {"none", "scan", "delete", "ended", "failed"}]
    BY <1>2 DEF IInv, TypeOK, AfterBatch
  <2>4. \A d \in Changes : (found'[d] \cup early'[d]) \cap left'[d] = {}
    BY <1>4, <1>5 DEF IInv, TypeOK
  <2> QED BY <1>1, <2>1, <2>2, <2>3, <2>4 DEF reading, IInv, TypeOK
<1>7. PassedEarly'
  BY <1>1, <1>4, <1>5 DEF IInv, PassedEarly
<1>8. LoopInStep'
  BY <1>1, <1>4, <1>5 DEF IInv, LoopInStep
<1>9. ASSUME NEW d \in db, NEW p \in Paths, cache[p] # None, Accounted(d, p)
      PROVE  Accounted(d, p)'
  <2>1. CASE d = c
    BY <1>1, <1>3, <1>4, <1>9, <2>1 DEF Accounted
  <2>2. CASE d # c
    BY <1>1, <1>5, <1>9, <2>2 DEF IInv, TypeOK, Accounted
  <2> QED BY <2>1, <2>2
<1>10. StaleAccounted'
  BY <1>1, <1>9 DEF IInv, StaleAccounted
<1> QED BY <1>6, <1>7, <1>8, <1>10 DEF IInv

\* DELETE removes the copies it was to remove.
LEMMA DeleteInv ==
    ASSUME IInv, NEW c \in Changes, Delete(c)
    PROVE  IInv'
<1>1. /\ UNCHANGED <<db, reading, transaction, left, early, overtaken>>
      /\ cache' = [p \in Paths |-> IF p \in found[c] THEN None ELSE cache[p]]
      /\ found' = [found EXCEPT ![c] = {}]
      /\ invalidation[c] = "delete"
      /\ invalidation' = [invalidation EXCEPT ![c] = AfterBatch(c, {})]
  BY DEF Delete
<1>2. TypeOK'
  <2>1. cache' \in [Paths -> (SUBSET Changes) \cup {None}]
    BY <1>1 DEF IInv, TypeOK
  <2>2. /\ found' \in [Changes -> SUBSET Paths]
        /\ invalidation' \in [Changes -> {"none", "scan", "delete", "ended", "failed"}]
    BY <1>1 DEF AfterBatch, IInv, TypeOK
  <2>3. \A d \in Changes : found'[d] \subseteq found[d]
    BY <1>1 DEF IInv, TypeOK
  <2>4. \A d \in Changes : (found'[d] \cup early[d]) \cap left[d] = {}
    BY <2>3 DEF IInv, TypeOK
  <2> QED BY <1>1, <2>1, <2>2, <2>4 DEF reading, IInv, TypeOK
<1>3. PassedEarly'
  BY <1>1 DEF IInv, PassedEarly
<1>4. LoopInStep'
  BY <1>1 DEF AfterBatch, IInv, TypeOK, LoopInStep
<1>5. ASSUME NEW d \in db, NEW p \in Paths, cache'[p] # None, d \notin cache'[p]
      PROVE  Accounted(d, p)'
  <2>1. p \notin found[c] /\ cache'[p] = cache[p]
    BY <1>1, <1>5
  <2>2. Accounted(d, p)
    BY <1>5, <2>1 DEF IInv, StaleAccounted
  <2>3. p \in found[d] => p \in found'[d]
    BY <1>1, <2>1 DEF IInv, TypeOK
  <2> QED BY <1>1, <2>2, <2>3 DEF Accounted
<1>6. StaleAccounted'
  BY <1>1, <1>5 DEF StaleAccounted
<1> QED BY <1>2, <1>3, <1>4, <1>6 DEF IInv

LEMMA InvalidationFailsInv ==
    ASSUME IInv, NEW c \in Changes, InvalidationFails(c)
    PROVE  IInv'
<1>1. /\ UNCHANGED <<db, cache, reading, transaction, left, found, early, overtaken>>
      /\ invalidation[c] \in {"scan", "delete"}
      /\ invalidation' = [invalidation EXCEPT ![c] = "failed"]
  BY DEF InvalidationFails
<1>2. TypeOK'
  BY <1>1 DEF reading, IInv, TypeOK
<1>3. LoopInStep'
  BY <1>1 DEF IInv, TypeOK, LoopInStep
<1>4. PassedEarly' /\ StaleAccounted'
  BY <1>1 DEF IInv, PassedEarly, StaleAccounted, Accounted
<1> QED BY <1>2, <1>3, <1>4 DEF IInv

LEMMA ExpireInv ==
    ASSUME IInv, NEW p \in Paths, Expire(p)
    PROVE  IInv'
<1>1. /\ UNCHANGED <<db, reading, transaction, invalidating, overtaken>>
      /\ cache' = [cache EXCEPT ![p] = None]
  BY DEF Expire
<1>2. TypeOK'
  <2>1. cache' \in [Paths -> (SUBSET Changes) \cup {None}]
    BY <1>1 DEF IInv, TypeOK
  <2> QED BY <1>1, <2>1 DEF reading, invalidating, IInv, TypeOK
<1>3. PassedEarly' /\ LoopInStep'
  BY <1>1 DEF invalidating, IInv, PassedEarly, LoopInStep
<1>4. StaleAccounted'
  BY <1>1 DEF invalidating, IInv, TypeOK, StaleAccounted, Accounted
<1> QED BY <1>2, <1>3, <1>4 DEF IInv

LEMMA NextInv == IInv /\ [Next]_vars => IInv'
<1> SUFFICES ASSUME IInv, [Next]_vars
             PROVE  IInv'
  OBVIOUS
<1>1. CASE \E r \in Readers : ReaderStep(r) \/ \E p \in Paths : Hit(r, p) \/ Miss(r, p)
  <2> PICK r \in Readers : ReaderStep(r) \/ \E p \in Paths : Hit(r, p) \/ Miss(r, p)
    BY <1>1
  <2>1. path[r] \in Paths
    BY DEF IInv, TypeOK
  <2> QED BY <2>1, ReadInv, StoreInv DEF ReaderStep
<1>2. CASE \E c \in Changes : Write(c) \/ Commit(c) \/ Rollback(c) \/ Invalidate(c)
  BY <1>2, TransactionInv, ScanInv, DeleteInv, InvalidationFailsInv DEF Invalidate
<1>3. CASE \E p \in Paths : Expire(p)
  BY <1>3, ExpireInv
<1>4. CASE UNCHANGED vars
  BY <1>4 DEF vars, reading, invalidating, IInv, TypeOK, PassedEarly, LoopInStep,
     StaleAccounted, Accounted
<1> QED BY <1>1, <1>2, <1>3, <1>4 DEF Next

LEMMA SpecInv == Spec => []IInv
  BY InitInv, NextInv, PTL DEF Spec

\* Copies and readers hold changes, and no key that SCAN has returned or passed
\* early is one its cursor has still to pass.
THEOREM TypeCorrect == Spec => []TypeOK
<1>1. IInv => TypeOK
  BY DEF IInv
<1> QED BY <1>1, SpecInv, PTL

\* Once _invalidate_rule_cache has run to its end, a copy without the committed
\* change is there because SCAN passed its key before get_db's commit, or because
\* _get_rules stored it after SCAN had passed, and for no other reason.
THEOREM ChangesInForce == Spec => []ChangeInForce
<1>1. IInv => ChangeInForce
  <2> SUFFICES ASSUME IInv, NEW c \in db, NEW p \in Paths, invalidation[c] = "ended",
                      cache[p] # None, c \notin cache[p]
               PROVE  p \in early[c] \/ c \in overtaken[p]
    BY DEF ChangeInForce
  <2>1. c \in Changes
    BY DEF IInv, TypeOK
  <2>2. left[c] = {} /\ found[c] = {}
    BY <2>1 DEF IInv, LoopInStep
  <2>3. Accounted(c, p)
    BY DEF IInv, StaleAccounted
  <2> QED BY <2>2, <2>3 DEF Accounted
<1> QED BY <1>1, SpecInv, PTL

-----------------------------------------------------------------------------
(* The scripts. *)

\* A call has not charged before its EVALSHA is answered, and what it has
\* charged its place accounts for.
ChargeInStep(t) ==
    /\ call[t] \in Loading \cup Running => executed[t] = 0
    /\ call[t] = "done" => executed[t] = 1
    /\ call[t] = "failed" /\ executed[t] = 1 => cut[t]

\* Between a call's own reload and its retry only a flush loses the script.
CauseInStep(t) ==
    /\ call[t] = "retry" => script[t] \in loaded \/ flushed[t]
    /\ call[t] = "failed" => cut[t] \/ flushed[t]

CallInv == ScriptTypeOK /\ \A t \in Tasks : ChargeInStep(t) /\ CauseInStep(t)

LEMMA ScriptInitInv == ScriptInit => CallInv
  BY DEF ScriptInit, CallInv, ScriptTypeOK, ChargeInStep, CauseInStep, Loading, Running

\* What init_redis does leaves the calls alone, and only adds to the server's
\* cache.
LEMMA PreloadInv ==
    ASSUME CallInv, Serve \/ \E s \in Scripts : Preload(s) \/ PreloadFails(s)
    PROVE  CallInv'
<1>1. UNCHANGED callVars /\ loaded \subseteq loaded' /\ loaded' \subseteq Scripts
  BY DEF Serve, Preload, PreloadFails, CallInv, ScriptTypeOK
<1>2. shas' \subseteq Scripts /\ pending' \subseteq Scripts /\ phase' \in {"starting", "serving"}
  BY DEF Serve, Preload, PreloadFails, CallInv, ScriptTypeOK
<1>3. ScriptTypeOK'
  BY <1>1, <1>2 DEF callVars, CallInv, ScriptTypeOK
<1>4. \A t \in Tasks : ChargeInStep(t)' /\ CauseInStep(t)'
  BY <1>1 DEF callVars, CallInv, ChargeInStep, CauseInStep
<1> QED BY <1>3, <1>4 DEF CallInv

\* A step of one call leaves every other call's place, script and history
\* alone, and takes nothing out of the server's cache.
LEMMA OtherCallsInStep ==
    ASSUME CallInv, NEW t \in Tasks, NEW u \in Tasks, loaded \subseteq loaded',
           call'[u] = call[u], script'[u] = script[u], executed'[u] = executed[u],
           cut'[u] = cut[u], flushed'[u] = flushed[u]
    PROVE  ChargeInStep(u)' /\ CauseInStep(u)'
  BY DEF CallInv, ChargeInStep, CauseInStep

LEMMA BeginInv ==
    ASSUME CallInv, NEW t \in Tasks, NEW s \in Scripts, Begin(t, s)
    PROVE  CallInv'
<1>1. ScriptTypeOK'
  BY DEF Begin, service, CallInv, ScriptTypeOK, Loading, Running
<1>2. ASSUME NEW u \in Tasks
      PROVE  ChargeInStep(u)' /\ CauseInStep(u)'
  <2>1. CASE u = t
    BY <2>1 DEF Begin, CallInv, ScriptTypeOK, ChargeInStep, CauseInStep, Loading, Running
  <2>2. CASE u # t
    BY <2>2, OtherCallsInStep DEF Begin, CallInv, ScriptTypeOK
  <2> QED BY <2>1, <2>2
<1> QED BY <1>1, <1>2 DEF CallInv

LEMMA LoadInv ==
    ASSUME CallInv, NEW t \in Tasks, Load(t)
    PROVE  CallInv'
<1>1. ScriptTypeOK'
  BY DEF Load, AfterLoad, CallInv, ScriptTypeOK, Loading, Running
<1>2. ASSUME NEW u \in Tasks
      PROVE  ChargeInStep(u)' /\ CauseInStep(u)'
  <2>1. CASE u = t
    BY <2>1 DEF Load, AfterLoad, CallInv, ScriptTypeOK, ChargeInStep, CauseInStep, Loading, Running
  <2>2. CASE u # t
    BY <2>2, OtherCallsInStep DEF Load, CallInv, ScriptTypeOK
  <2> QED BY <2>1, <2>2
<1> QED BY <1>1, <1>2 DEF CallInv

LEMMA RunInv ==
    ASSUME CallInv, NEW t \in Tasks, Run(t)
    PROVE  CallInv'
<1>1. executed[t] = 0
  BY DEF Run, CallInv, ChargeInStep
<1>2. ScriptTypeOK'
  BY <1>1 DEF Run, service, CallInv, ScriptTypeOK
<1>3. ASSUME NEW u \in Tasks
      PROVE  ChargeInStep(u)' /\ CauseInStep(u)'
  <2>1. CASE u = t
    BY <1>1, <2>1 DEF Run, CallInv, ScriptTypeOK, ChargeInStep, CauseInStep, Loading, Running
  <2>2. CASE u # t
    BY <2>2, OtherCallsInStep DEF Run, CallInv, ScriptTypeOK
  <2> QED BY <2>1, <2>2
<1> QED BY <1>2, <1>3 DEF CallInv

LEMMA NoScriptInv ==
    ASSUME CallInv, NEW t \in Tasks, NoScript(t)
    PROVE  CallInv'
<1>1. ScriptTypeOK'
  BY DEF NoScript, AfterError, service, CallInv, ScriptTypeOK, Loading, Running
<1>2. ASSUME NEW u \in Tasks
      PROVE  ChargeInStep(u)' /\ CauseInStep(u)'
  <2>1. CASE u = t
    BY <2>1 DEF NoScript, AfterError, CallInv, ScriptTypeOK, ChargeInStep, CauseInStep, Loading, Running
  <2>2. CASE u # t
    BY <2>2, OtherCallsInStep DEF NoScript, CallInv, ScriptTypeOK
  <2> QED BY <2>1, <2>2
<1> QED BY <1>1, <1>2 DEF CallInv

LEMMA CutInv ==
    ASSUME CallInv, NEW t \in Tasks, NEW ran \in BOOLEAN, Cut(t, ran)
    PROVE  CallInv'
<1>1. executed[t] = 0 /\ call'[t] = "failed" /\ cut'[t] = TRUE
  BY DEF Cut, AfterError, CallInv, ScriptTypeOK, ChargeInStep
<1>2. executed' \in [Tasks -> 0 .. 1] /\ loaded \subseteq loaded' /\ loaded' \subseteq Scripts
  BY <1>1 DEF Cut, CallInv, ScriptTypeOK
<1>3. ScriptTypeOK'
  BY <1>1, <1>2 DEF Cut, AfterError, service, CallInv, ScriptTypeOK
<1>4. ASSUME NEW u \in Tasks
      PROVE  ChargeInStep(u)' /\ CauseInStep(u)'
  <2>1. CASE u = t
    BY <1>1, <2>1 DEF ChargeInStep, CauseInStep, Loading, Running
  <2>2. CASE u # t
    BY <1>2, <2>2, OtherCallsInStep DEF Cut, CallInv, ScriptTypeOK
  <2> QED BY <2>1, <2>2
<1> QED BY <1>3, <1>4 DEF CallInv

LEMMA EndInv ==
    ASSUME CallInv, NEW t \in Tasks, End(t)
    PROVE  CallInv'
<1>1. ScriptTypeOK'
  BY DEF End, service, CallInv, ScriptTypeOK
<1>2. ASSUME NEW u \in Tasks
      PROVE  ChargeInStep(u)' /\ CauseInStep(u)'
  <2>1. CASE u = t
    BY <2>1 DEF End, CallInv, ScriptTypeOK, ChargeInStep, CauseInStep, Loading, Running
  <2>2. CASE u # t
    BY <2>2, OtherCallsInStep DEF End, CallInv, ScriptTypeOK
  <2> QED BY <2>1, <2>2
<1> QED BY <1>1, <1>2 DEF CallInv

\* A flush gives every call its cause; a restart ends them all.
LEMMA SurroundingsInv ==
    ASSUME CallInv, Flush \/ Restart
    PROVE  CallInv'
<1>1. CASE Flush
  <2>1. ScriptTypeOK'
    BY <1>1 DEF Flush, service, CallInv, ScriptTypeOK
  <2>2. \A t \in Tasks : ChargeInStep(t)' /\ CauseInStep(t)'
    BY <1>1 DEF Flush, CallInv, ChargeInStep, CauseInStep
  <2> QED BY <2>1, <2>2 DEF CallInv
<1>2. CASE Restart
  <2>1. ScriptTypeOK'
    BY <1>2 DEF Restart, CallInv, ScriptTypeOK
  <2>2. \A t \in Tasks : ChargeInStep(t)' /\ CauseInStep(t)'
    BY <1>2 DEF Restart, CallInv, ChargeInStep, CauseInStep, Loading, Running
  <2> QED BY <2>1, <2>2 DEF CallInv
<1> QED BY <1>1, <1>2

LEMMA ScriptNextInv == CallInv /\ [ScriptNext]_scriptVars => CallInv'
<1> SUFFICES ASSUME CallInv, [ScriptNext]_scriptVars
             PROVE  CallInv'
  OBVIOUS
<1>1. CASE Serve \/ \E s \in Scripts : Preload(s) \/ PreloadFails(s)
  BY <1>1, PreloadInv
<1>2. CASE \E t \in Tasks : Step(t) \/ \E s \in Scripts : Begin(t, s)
  <2> PICK t \in Tasks : Step(t) \/ \E s \in Scripts : Begin(t, s)
    BY <1>2
  <2> QED BY BeginInv, LoadInv, RunInv, NoScriptInv, CutInv, EndInv DEF Step
<1>3. CASE Flush \/ Restart
  BY <1>3, SurroundingsInv
<1>4. CASE UNCHANGED scriptVars
  BY <1>4 DEF scriptVars, service, CallInv, ScriptTypeOK, ChargeInStep, CauseInStep
<1> QED BY <1>1, <1>2, <1>3, <1>4 DEF ScriptNext

LEMMA ScriptSpecInv == ScriptSpec => []CallInv
  BY ScriptInitInv, ScriptNextInv, PTL DEF ScriptSpec

\* A call never runs its script more than once, and the caches hold scripts.
THEOREM ScriptTypeCorrect == ScriptSpec => []ScriptTypeOK
<1>1. CallInv => ScriptTypeOK
  BY DEF CallInv
<1> QED BY <1>1, ScriptSpecInv, PTL

\* Whatever evalsha_with_fallback meets, a missing script, a flush between its
\* reload and its retry, a lost reply, a restart of the service, it charges at
\* most once, and exactly once when it returns.
THEOREM ChargesAreOnce == ScriptSpec => []ChargedOnce
<1>1. CallInv => ChargedOnce
  <2> SUFFICES ASSUME CallInv, NEW t \in Tasks
               PROVE  /\ executed[t] <= 1
                      /\ call[t] = "done" => executed[t] = 1
                      /\ call[t] = "failed" /\ executed[t] = 1 => cut[t]
    BY DEF ChargedOnce
  <2>1. executed[t] \in 0 .. 1
    BY DEF CallInv, ScriptTypeOK
  <2>2. ChargeInStep(t)
    BY DEF CallInv
  <2> QED BY <2>1, <2>2 DEF ChargeInStep
<1> QED BY <1>1, ScriptSpecInv, PTL

\* evalsha_with_fallback raises for a failed connection or for a flush after its
\* own reload, and for nothing else.
THEOREM ErrorsHaveCause == ScriptSpec => []ErrorNeedsCause
<1>1. CallInv => ErrorNeedsCause
  BY DEF CallInv, CauseInStep, ErrorNeedsCause
<1> QED BY <1>1, ScriptSpecInv, PTL

-----------------------------------------------------------------------------
(* The access lists. *)

\* What the key of a value may be beside its row.
Matches(r, key) ==
    CASE r = NoRow          -> key = "none"
      [] r.kind = "forever" -> key = "forever"
      [] r.kind = "timed"   -> key \in {"timed", "none"}

Active(a, v) == step[a] # "idle" /\ value[a] = v

\* Requests on one value exclude each other, unless two were removals.
Alone ==
    \A v \in Values \ doubled : \A a, b \in Admins :
        Active(a, v) /\ Active(b, v) => a = b

\* An addition finds no row until it commits its own; a removal has the row it
\* has loaded until it deletes it.
RowsInStep ==
    \A v \in Values \ doubled : \A a \in Admins : Active(a, v) =>
        rows[v] = IF step[a] \in Adding THEN NoRow ELSE row[a]

\* The key before and after a request has written it, and at rest.
KeyInStep(v) ==
    /\ (\A a \in Admins : ~Active(a, v)) => Matches(rows[v], keys[v])
    /\ \A a \in Admins : Active(a, v) =>
          /\ step[a] \in {"set", "delete"} => keys[v] = "none"
          /\ step[a] \in {"insert", "unset"} => Matches(row[a], keys[v])

KeysInStep == \A v \in Values \ (fault \cup doubled) : KeyInStep(v)

ListsInv == ListsTypeOK /\ Alone /\ RowsInStep /\ KeysInStep

LEMMA NoRowIsNone == NoRow \notin Rows
  BY BoundAssumption DEF NoRow, Rows

LEMMA NoRowNoKey == \A key : Matches(NoRow, key) <=> key = "none"
  BY DEF Matches, NoRow

LEMMA ListsInitInv == ListsInit => ListsInv
<1> SUFFICES ASSUME ListsInit
             PROVE  ListsInv
  OBVIOUS
<1>1. ListsTypeOK
  BY BoundAssumption DEF ListsInit, ListsTypeOK
<1>2. \A a \in Admins, v \in Values : ~Active(a, v)
  BY DEF ListsInit, Active
<1>3. Alone /\ RowsInStep
  BY <1>2 DEF Alone, RowsInStep
<1>4. KeysInStep
  BY <1>2, NoRowNoKey DEF ListsInit, KeysInStep, KeyInStep
<1> QED BY <1>1, <1>3, <1>4 DEF ListsInv

LEMMA AddInv ==
    ASSUME ListsInv, NEW a \in Admins, NEW v \in Values, NEW kind \in Kinds, Add(a, v, kind)
    PROVE  ListsInv'
<1>1. lastId[v] + 1 \in 1 .. MaxId
  BY BoundAssumption DEF Add, ListsInv, ListsTypeOK
<1>2. ListsTypeOK'
  BY <1>1, NoRowIsNone DEF Add, GoOn, ListsInv, ListsTypeOK, Rows, Adding, Removing
<1>3. \A b \in Admins : v \notin doubled => ~Active(b, v)
  BY NoRowIsNone DEF Add, ListsInv, ListsTypeOK, RowsInStep, Active, Adding, Removing
<1>4. \A b \in Admins, w \in Values :
          Active(b, w)' <=> (b = a /\ w = v) \/ (b # a /\ Active(b, w))
  BY DEF Add, GoOn, ListsInv, ListsTypeOK, Active
<1>5. ~(\E w \in Values : Active(a, w))
  BY DEF Add, Active
<1>6. Alone'
  BY <1>3, <1>4, <1>5 DEF Add, ListsInv, Alone
<1>7. RowsInStep'
  <2> SUFFICES ASSUME NEW w \in Values \ doubled', NEW b \in Admins, Active(b, w)'
               PROVE  rows'[w] = IF step'[b] \in Adding THEN NoRow ELSE row'[b]
    BY DEF RowsInStep
  <2>1. CASE b = a
    BY <1>4, <1>5, <2>1 DEF Add, GoOn, ListsInv, ListsTypeOK, Adding
  <2>2. CASE b # a
    BY <1>4, <2>2 DEF Add, GoOn, ListsInv, ListsTypeOK, RowsInStep
  <2> QED BY <2>1, <2>2
<1>8. ASSUME NEW w \in Values \ (fault \cup doubled)
      PROVE  KeyInStep(w)'
  <2>1. KeyInStep(w)
    BY DEF ListsInv, KeysInStep
  <2>2. CASE w = v
    <3>1. rows[w] = NoRow /\ keys[w] = "none"
      BY <1>3, <2>1, <2>2, NoRowNoKey DEF Add, KeyInStep
    <3>2. \A b \in Admins : Active(b, w)' => b = a
      BY <1>3, <1>4, <2>2
    <3>3. step'[a] = "set"
      BY DEF Add, GoOn, ListsInv, ListsTypeOK
    <3>4. Active(a, w)'
      BY <1>4, <2>2
    <3> QED BY <3>1, <3>2, <3>3, <3>4 DEF Add, KeyInStep
  <2>3. CASE w # v
    <3>1. \A b \in Admins : Active(b, w)' <=> Active(b, w)
      BY <1>4, <1>5, <2>3
    <3>2. \A b \in Admins : Active(b, w) => step'[b] = step[b] /\ row'[b] = row[b]
      BY <1>5 DEF Add, GoOn, ListsInv, ListsTypeOK
    <3> QED BY <2>1, <3>1, <3>2 DEF Add, KeyInStep
  <2> QED BY <2>2, <2>3
<1>9. KeysInStep'
  BY <1>8 DEF KeysInStep, Add
<1> QED BY <1>2, <1>6, <1>7, <1>9 DEF ListsInv

LEMMA RemoveInv ==
    ASSUME ListsInv, NEW a \in Admins, NEW v \in Values, Remove(a, v)
    PROVE  ListsInv'
<1>1. ListsTypeOK'
  BY NoRowIsNone DEF Remove, GoOn, ListsInv, ListsTypeOK, Adding, Removing
<1>2. \A b \in Admins : v \notin doubled' => ~Active(b, v)
  BY NoRowIsNone DEF Remove, ListsInv, ListsTypeOK, RowsInStep, Active, Adding, Removing
<1>3. \A b \in Admins, w \in Values :
          Active(b, w)' <=> (b = a /\ w = v) \/ (b # a /\ Active(b, w))
  BY DEF Remove, GoOn, ListsInv, ListsTypeOK, Active
<1>4. ~(\E w \in Values : Active(a, w))
  BY DEF Remove, Active
<1>5. doubled \subseteq doubled' /\ fault' = fault
  BY DEF Remove
<1>6. Alone'
  BY <1>2, <1>3, <1>4, <1>5 DEF ListsInv, Alone
<1>7. RowsInStep'
  <2> SUFFICES ASSUME NEW w \in Values \ doubled', NEW b \in Admins, Active(b, w)'
               PROVE  rows'[w] = IF step'[b] \in Adding THEN NoRow ELSE row'[b]
    BY DEF RowsInStep
  <2>1. CASE b = a
    BY <1>3, <1>4, <2>1 DEF Remove, GoOn, ListsInv, ListsTypeOK, Adding
  <2>2. CASE b # a
    BY <1>3, <1>5, <2>2 DEF Remove, GoOn, ListsInv, ListsTypeOK, RowsInStep
  <2> QED BY <2>1, <2>2
<1>8. ASSUME NEW w \in Values \ (fault' \cup doubled')
      PROVE  KeyInStep(w)'
  <2>1. KeyInStep(w)
    BY <1>5 DEF ListsInv, KeysInStep
  <2>2. CASE w = v
    <3>1. Matches(rows[w], keys[w])
      BY <1>2, <2>1, <2>2 DEF KeyInStep
    <3>2. \A b \in Admins : Active(b, w)' <=> b = a
      BY <1>2, <1>3, <2>2
    <3>3. step'[a] = "unset" /\ row'[a] = rows[w]
      BY <2>2 DEF Remove, GoOn, ListsInv, ListsTypeOK
    <3> QED BY <3>1, <3>2, <3>3 DEF Remove, KeyInStep
  <2>3. CASE w # v
    <3>1. \A b \in Admins : Active(b, w)' <=> Active(b, w)
      BY <1>3, <1>4, <2>3
    <3>2. \A b \in Admins : Active(b, w) => step'[b] = step[b] /\ row'[b] = row[b]
      BY <1>4 DEF Remove, GoOn, ListsInv, ListsTypeOK
    <3> QED BY <2>1, <3>1, <3>2 DEF Remove, KeyInStep
  <2> QED BY <2>2, <2>3
<1>9. KeysInStep'
  BY <1>8 DEF KeysInStep
<1> QED BY <1>1, <1>6, <1>7, <1>9 DEF ListsInv

\* A request that has begun its second write: only its own key has changed.
LEMMA SetKeyInv ==
    ASSUME ListsInv, NEW a \in Admins, SetKey(a)
    PROVE  ListsInv'
<1>1. step' = [step EXCEPT ![a] = "insert"] /\ step[a] = "set"
  BY DEF SetKey, GoOn
<1>2. value[a] \in Values /\ row[a] \in Rows
  BY <1>1, NoRowIsNone DEF ListsInv, ListsTypeOK
<1>3. ListsTypeOK'
  BY <1>1, <1>2, NoRowIsNone DEF SetKey, ListsInv, ListsTypeOK, Rows, Adding, Removing
<1>4. \A b \in Admins, w \in Values : Active(b, w)' <=> Active(b, w)
  BY <1>1 DEF SetKey, ListsInv, ListsTypeOK, Active
<1>5. Alone'
  BY <1>4 DEF SetKey, ListsInv, Alone
<1>6. RowsInStep'
  BY <1>1, <1>4 DEF SetKey, ListsInv, ListsTypeOK, RowsInStep, Adding
<1>7. ASSUME NEW w \in Values \ (fault \cup doubled)
      PROVE  KeyInStep(w)'
  <2>1. KeyInStep(w)
    BY DEF ListsInv, KeysInStep
  <2>2. CASE w = value[a]
    <3>1. Active(a, w)
      BY <1>1, <2>2 DEF Active
    <3>2. \A b \in Admins : Active(b, w)' => b = a
      BY <1>4, <3>1 DEF ListsInv, Alone
    <3>3. keys'[w] = row[a].kind
      BY <2>2 DEF SetKey, ListsInv, ListsTypeOK
    <3>4. Matches(row[a], keys'[w])
      BY <1>2, <3>3, NoRowIsNone DEF Matches, Rows, Kinds
    <3>5. step'[a] = "insert" /\ row' = row
      BY <1>1 DEF SetKey, ListsInv, ListsTypeOK
    <3>6. Active(a, w)'
      BY <1>4, <3>1
    <3> QED BY <3>2, <3>4, <3>5, <3>6 DEF KeyInStep
  <2>3. CASE w # value[a]
    <3>1. \A b \in Admins : Active(b, w) => step'[b] = step[b]
      BY <1>1, <2>3 DEF ListsInv, ListsTypeOK, Active
    <3>2. keys'[w] = keys[w]
      BY <2>3 DEF SetKey, ListsInv, ListsTypeOK
    <3>3. rows' = rows /\ row' = row
      BY DEF SetKey
    <3> QED BY <1>4, <2>1, <3>1, <3>2, <3>3 DEF KeyInStep
  <2> QED BY <2>2, <2>3
<1>8. KeysInStep'
  BY <1>7 DEF KeysInStep, SetKey
<1> QED BY <1>3, <1>5, <1>6, <1>8 DEF ListsInv

LEMMA UnsetInv ==
    ASSUME ListsInv, NEW a \in Admins, Unset(a)
    PROVE  ListsInv'
<1>1. step' = [step EXCEPT ![a] = "delete"] /\ step[a] = "unset"
  BY DEF Unset, GoOn
<1>2. ListsTypeOK'
  BY <1>1, NoRowIsNone DEF Unset, ListsInv, ListsTypeOK, Adding, Removing
<1>3. \A b \in Admins, w \in Values : Active(b, w)' <=> Active(b, w)
  BY <1>1 DEF Unset, ListsInv, ListsTypeOK, Active
<1>4. Alone'
  BY <1>3 DEF Unset, ListsInv, Alone
<1>5. RowsInStep'
  BY <1>1, <1>3 DEF Unset, ListsInv, ListsTypeOK, RowsInStep, Adding
<1>6. ASSUME NEW w \in Values \ (fault \cup doubled)
      PROVE  KeyInStep(w)'
  <2>1. KeyInStep(w)
    BY DEF ListsInv, KeysInStep
  <2>2. CASE w = value[a]
    <3>1. Active(a, w)
      BY <1>1, <2>2 DEF Active
    <3>2. \A b \in Admins : Active(b, w)' => b = a
      BY <1>3, <3>1 DEF ListsInv, Alone
    <3>3. keys'[w] = "none" /\ step'[a] = "delete"
      BY <1>1, <2>2 DEF Unset, ListsInv, ListsTypeOK
    <3>4. Active(a, w)'
      BY <1>3, <3>1
    <3> QED BY <3>2, <3>3, <3>4 DEF KeyInStep
  <2>3. CASE w # value[a]
    <3>1. \A b \in Admins : Active(b, w) => step'[b] = step[b]
      BY <1>1, <2>3 DEF ListsInv, ListsTypeOK, Active
    <3>2. keys'[w] = keys[w]
      BY <2>3 DEF Unset, ListsInv, ListsTypeOK
    <3>3. rows' = rows /\ row' = row
      BY DEF Unset
    <3> QED BY <1>3, <2>1, <3>1, <3>2, <3>3 DEF KeyInStep
  <2> QED BY <2>2, <2>3
<1>7. KeysInStep'
  BY <1>6 DEF KeysInStep, Unset
<1> QED BY <1>2, <1>4, <1>5, <1>7 DEF ListsInv

\* A commit ends the request, and its row is then what its key already says.
LEMMA CommitInv ==
    ASSUME ListsInv, NEW a \in Admins, CommitAdd(a) \/ CommitRemove(a)
    PROVE  ListsInv'
<1>1. /\ step' = [step EXCEPT ![a] = "idle"]
      /\ step[a] \in {"insert", "delete"}
      /\ UNCHANGED <<keys, lastId, value, row, fault, doubled>>
  BY DEF CommitAdd, CommitRemove, GoOn
<1>2. /\ value[a] \in Values
      /\ row[a] \in Rows
  BY <1>1, NoRowIsNone DEF ListsInv, ListsTypeOK
<1>3. rows' \in [Values -> Rows \cup {NoRow}]
  BY <1>2 DEF CommitAdd, CommitRemove, ListsInv, ListsTypeOK
<1>4. ListsTypeOK'
  BY <1>1, <1>3, NoRowIsNone DEF ListsInv, ListsTypeOK, Adding, Removing
<1>5. \A w \in Values : w # value[a] => rows'[w] = rows[w]
  BY DEF CommitAdd, CommitRemove, ListsInv, ListsTypeOK
<1>6. \A b \in Admins, w \in Values : Active(b, w)' <=> b # a /\ Active(b, w)
  BY <1>1 DEF ListsInv, ListsTypeOK, Active
<1>7. Active(a, value[a])
  BY <1>1 DEF Active
<1>8. Alone'
  BY <1>1, <1>6 DEF ListsInv, Alone
<1>9. \A w \in Values \ doubled, b \in Admins : Active(b, w)' => w # value[a]
  BY <1>2, <1>6, <1>7 DEF ListsInv, Alone
<1>10. \A b \in Admins : b # a => step'[b] = step[b]
  BY <1>1 DEF ListsInv, ListsTypeOK
<1>11. RowsInStep'
  <2> SUFFICES ASSUME NEW w \in Values \ doubled', NEW b \in Admins, Active(b, w)'
               PROVE  rows'[w] = IF step'[b] \in Adding THEN NoRow ELSE row'[b]
    BY DEF RowsInStep
  <2> QED BY <1>1, <1>5, <1>6, <1>9, <1>10 DEF ListsInv, RowsInStep
<1>12. ASSUME NEW w \in Values \ (fault \cup doubled)
       PROVE  KeyInStep(w)'
  <2>1. KeyInStep(w)
    BY DEF ListsInv, KeysInStep
  <2>2. CASE w = value[a]
    <3>1. \A b \in Admins : ~Active(b, w)'
      BY <1>1, <1>9, <2>2
    <3>2. CASE CommitAdd(a)
      <4>1. rows'[w] = row[a] /\ step[a] = "insert"
        BY <2>2, <3>2 DEF CommitAdd, ListsInv, ListsTypeOK
      <4>2. Matches(row[a], keys[w])
        BY <1>7, <2>1, <2>2, <4>1 DEF KeyInStep
      <4> QED BY <1>1, <3>1, <4>1, <4>2 DEF KeyInStep
    <3>3. CASE CommitRemove(a)
      <4>1. step[a] = "delete"
        BY <3>3 DEF CommitRemove
      <4>2. rows[w] = row[a]
        BY <1>7, <2>2, <4>1 DEF ListsInv, RowsInStep, Adding
      <4>3. rows'[w] = NoRow
        BY <2>2, <3>3, <4>2 DEF CommitRemove, ListsInv, ListsTypeOK
      <4>4. keys[w] = "none"
        BY <1>7, <2>1, <2>2, <4>1 DEF KeyInStep
      <4> QED BY <1>1, <3>1, <4>3, <4>4, NoRowNoKey DEF KeyInStep
    <3> QED BY <3>2, <3>3
  <2>3. CASE w # value[a]
    <3>1. \A b \in Admins : Active(b, w)' <=> Active(b, w)
      BY <1>6, <2>3 DEF Active
    <3>2. \A b \in Admins : Active(b, w) => step'[b] = step[b]
      BY <1>10, <2>3 DEF Active
    <3> QED BY <1>1, <1>5, <2>1, <2>3, <3>1, <3>2 DEF KeyInStep
  <2> QED BY <2>2, <2>3
<1>13. KeysInStep'
  BY <1>1, <1>12 DEF KeysInStep
<1> QED BY <1>4, <1>8, <1>11, <1>13 DEF ListsInv

\* A failure ends the request; before its first write it leaves all as it was,
\* later it is charged to fault.
LEMMA AbortInv ==
    ASSUME ListsInv, NEW a \in Admins, Abort(a)
    PROVE  ListsInv'
<1>1. /\ step' = [step EXCEPT ![a] = "idle"]
      /\ step[a] # "idle"
      /\ UNCHANGED <<rows, lastId, value, row, doubled>>
  BY DEF Abort, GoOn
<1>2. /\ value[a] \in Values
      /\ row[a] \in Rows
  BY <1>1, NoRowIsNone DEF ListsInv, ListsTypeOK
<1>3. /\ keys' \in [Values -> Kinds \cup {"none"}]
      /\ \A w \in Values : w # value[a] => keys'[w] = keys[w]
  BY <1>2 DEF Abort, ListsInv, ListsTypeOK, Rows
<1>4. /\ fault \subseteq fault'
      /\ fault' \subseteq fault \cup {value[a]}
      /\ value[a] \in fault' \/ (keys' = keys /\ step[a] \in {"set", "unset"})
  BY DEF Abort
<1>5. ListsTypeOK'
  BY <1>1, <1>2, <1>3, <1>4 DEF ListsInv, ListsTypeOK
<1>6. \A b \in Admins, w \in Values : Active(b, w)' <=> b # a /\ Active(b, w)
  BY <1>1 DEF ListsInv, ListsTypeOK, Active
<1>7. Active(a, value[a])
  BY <1>1 DEF Active
<1>8. Alone'
  BY <1>1, <1>6 DEF ListsInv, Alone
<1>9. \A w \in Values \ doubled, b \in Admins : Active(b, w)' => w # value[a]
  BY <1>2, <1>6, <1>7 DEF ListsInv, Alone
<1>10. \A b \in Admins : b # a => step'[b] = step[b]
  BY <1>1 DEF ListsInv, ListsTypeOK
<1>11. RowsInStep'
  <2> SUFFICES ASSUME NEW w \in Values \ doubled', NEW b \in Admins, Active(b, w)'
               PROVE  rows'[w] = IF step'[b] \in Adding THEN NoRow ELSE row'[b]
    BY DEF RowsInStep
  <2> QED BY <1>1, <1>6, <1>10 DEF ListsInv, RowsInStep
<1>12. ASSUME NEW w \in Values \ (fault' \cup doubled')
       PROVE  KeyInStep(w)'
  <2>1. KeyInStep(w)
    BY <1>1, <1>4 DEF ListsInv, KeysInStep
  <2>2. CASE w = value[a]
    <3>1. \A b \in Admins : ~Active(b, w)'
      BY <1>1, <1>9, <2>2
    <3>2. keys' = keys /\ step[a] \in {"set", "unset"}
      BY <1>4, <2>2
    <3>3. CASE step[a] = "set"
      <4>1. rows[w] = NoRow
        BY <1>1, <1>7, <2>2, <3>3 DEF ListsInv, RowsInStep, Adding
      <4>2. keys[w] = "none"
        BY <1>7, <2>1, <2>2, <3>3 DEF KeyInStep
      <4> QED BY <1>1, <3>1, <3>2, <4>1, <4>2, NoRowNoKey DEF KeyInStep
    <3>4. CASE step[a] = "unset"
      <4>1. rows[w] = row[a]
        BY <1>1, <1>7, <2>2, <3>4 DEF ListsInv, RowsInStep, Adding
      <4>2. Matches(row[a], keys[w])
        BY <1>7, <2>1, <2>2, <3>4 DEF KeyInStep
      <4> QED BY <1>1, <3>1, <3>2, <4>1, <4>2 DEF KeyInStep
    <3> QED BY <3>2, <3>3, <3>4
  <2>3. CASE w # value[a]
    <3>1. \A b \in Admins : Active(b, w)' <=> Active(b, w)
      BY <1>6, <2>3 DEF Active
    <3>2. \A b \in Admins : Active(b, w) => step'[b] = step[b]
      BY <1>10, <2>3 DEF Active
    <3> QED BY <1>1, <1>3, <2>1, <2>3, <3>1, <3>2 DEF KeyInStep
  <2> QED BY <2>2, <2>3
<1>13. KeysInStep'
  BY <1>12 DEF KeysInStep
<1> QED BY <1>5, <1>8, <1>11, <1>13 DEF ListsInv

\* A key with a deadline may be gone at any time: it matches its row either way.
LEMMA ExpireKeyInv ==
    ASSUME ListsInv, NEW v \in Values, ExpireKey(v)
    PROVE  ListsInv'
<1>1. UNCHANGED <<rows, lastId, step, value, row, fault, doubled>>
  BY DEF ExpireKey, request
<1>2. ListsTypeOK'
  BY <1>1 DEF ExpireKey, ListsInv, ListsTypeOK
<1>3. Alone' /\ RowsInStep'
  BY <1>1 DEF ListsInv, Alone, RowsInStep, Active
<1>4. ASSUME NEW w \in Values \ (fault \cup doubled)
      PROVE  KeyInStep(w)'
  <2>1. KeyInStep(w)
    BY DEF ListsInv, KeysInStep
  <2>2. keys'[w] = keys[w] \/ (keys[w] = "timed" /\ keys'[w] = "none")
    BY DEF ExpireKey, ListsInv, ListsTypeOK
  <2>3. ASSUME NEW r \in Rows \cup {NoRow}, Matches(r, keys[w])
        PROVE  Matches(r, keys'[w])
    <3>1. r = NoRow \/ (r # NoRow /\ r.kind = "forever") \/ (r # NoRow /\ r.kind = "timed")
      BY DEF Rows, Kinds
    <3> QED BY <2>2, <2>3, <3>1 DEF Matches
  <2>4. rows[w] \in Rows \cup {NoRow} /\ \A b \in Admins : row[b] \in Rows \cup {NoRow}
    BY DEF ListsInv, ListsTypeOK
  <2>5. \A b \in Admins : Active(b, w)' <=> Active(b, w)
    BY <1>1 DEF Active
  <2>6. keys[w] = "none" => keys'[w] = "none"
    BY <2>2
  <2>7. (\A b \in Admins : ~Active(b, w)) => Matches(rows[w], keys'[w])
    BY <2>1, <2>3, <2>4 DEF KeyInStep
  <2>8. ASSUME NEW b \in Admins, Active(b, w)
        PROVE  /\ step[b] \in {"set", "delete"} => keys'[w] = "none"
               /\ step[b] \in {"insert", "unset"} => Matches(row[b], keys'[w])
    BY <2>1, <2>3, <2>4, <2>6, <2>8 DEF KeyInStep
  <2> QED BY <1>1, <2>5, <2>7, <2>8 DEF KeyInStep
<1>5. KeysInStep'
  BY <1>1, <1>4 DEF KeysInStep
<1> QED BY <1>2, <1>3, <1>5 DEF ListsInv

LEMMA LoseInv == ListsInv /\ Lose => ListsInv'
<1> SUFFICES ASSUME ListsInv, Lose
             PROVE  ListsInv'
  OBVIOUS
<1>1. UNCHANGED <<rows, lastId, step, value, row, doubled>>
  BY DEF Lose, request
<1>2. ListsTypeOK'
  BY <1>1 DEF Lose, ListsInv, ListsTypeOK
<1>3. Alone' /\ RowsInStep'
  BY <1>1 DEF ListsInv, Alone, RowsInStep, Active
<1>4. KeysInStep'
  BY DEF Lose, KeysInStep
<1> QED BY <1>2, <1>3, <1>4 DEF ListsInv

LEMMA ListsNextInv == ListsInv /\ [ListsNext]_listVars => ListsInv'
<1> SUFFICES ASSUME ListsInv, [ListsNext]_listVars
             PROVE  ListsInv'
  OBVIOUS
<1>1. ASSUME NEW a \in Admins, NEW v \in Values, NEW kind \in Kinds, Add(a, v, kind)
      PROVE  ListsInv'
  BY <1>1, AddInv
<1>2. ASSUME NEW a \in Admins, NEW v \in Values, Remove(a, v)
      PROVE  ListsInv'
  BY <1>2, RemoveInv
<1>3. ASSUME NEW a \in Admins, SetKey(a)
      PROVE  ListsInv'
  BY <1>3, SetKeyInv
<1>4. ASSUME NEW a \in Admins, CommitAdd(a) \/ CommitRemove(a)
      PROVE  ListsInv'
  BY <1>4, CommitInv
<1>5. ASSUME NEW a \in Admins, Unset(a)
      PROVE  ListsInv'
  BY <1>5, UnsetInv
<1>6. ASSUME NEW a \in Admins, Abort(a)
      PROVE  ListsInv'
  BY <1>6, AbortInv
<1>7. ASSUME NEW v \in Values, ExpireKey(v)
      PROVE  ListsInv'
  BY <1>7, ExpireKeyInv
<1>8. CASE UNCHANGED listVars
  BY <1>8 DEF listVars, request, ListsInv, ListsTypeOK, Alone, RowsInStep, KeysInStep, KeyInStep, Active
<1> QED BY <1>1, <1>2, <1>3, <1>4, <1>5, <1>6, <1>7, <1>8, LoseInv DEF ListsNext

LEMMA ListsSpecInv == ListsSpec => []ListsInv
  BY ListsInitInv, ListsNextInv, PTL DEF ListsSpec

\* The committed rows, the keys and every request under way have their types,
\* and a request that is under way has a row: add_blacklist has built it,
\* remove_blacklist has found it or answered 404.
THEOREM ListsTypeCorrect == ListsSpec => []ListsTypeOK
<1>1. ListsInv => ListsTypeOK
  BY DEF ListsInv
<1> QED BY <1>1, ListsSpecInv, PTL

\* For any number of administrators adding and removing any values, whatever
\* fails between a handler's write in Redis and get_db's commit: a value with no
\* request under way has the key its row asks for, unless one of the three named
\* accidents has happened to it.
THEOREM RowsAndKeysInStep == ListsSpec => []RowsAndKeysAgree
<1>1. ListsInv => RowsAndKeysAgree
  <2> SUFFICES ASSUME ListsInv, NEW v \in Values, Settled(v), v \notin fault \cup doubled
               PROVE  CASE rows[v] = NoRow          -> keys[v] = "none"
                        [] rows[v].kind = "forever" -> keys[v] = "forever"
                        [] rows[v].kind = "timed"   -> keys[v] \in {"timed", "none"}
    BY DEF RowsAndKeysAgree
  <2>1. \A a \in Admins : ~Active(a, v)
    BY DEF Settled, Active
  <2>2. Matches(rows[v], keys[v])
    BY <2>1 DEF ListsInv, KeysInStep, KeyInStep
  <2> QED BY <2>2 DEF Matches
<1> QED BY <1>1, ListsSpecInv, PTL

=============================================================================
