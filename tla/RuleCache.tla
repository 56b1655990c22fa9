----------------------------- MODULE RuleCache ------------------------------
(***************************************************************************)
(* The rules in PostgreSQL and their cached copies in Redis, one key for   *)
(* every path.  _get_rules reads a copy or fills it from the database; an  *)
(* administrator's change commits in one task while another, started       *)
(* before the commit, deletes the copies as SCAN finds them.               *)
(*                                                                         *)
(* A list of rules is represented by the set of changes it reflects.       *)
(***************************************************************************)
EXTENDS Naturals

CONSTANTS Paths,      \* request paths
          Readers,    \* tasks in _get_rules
          Changes,    \* creations, updates and deletions of rules
          None        \* no copy

VARIABLES db,         \* the changes committed
          cache,      \* cache[p]: the copy at rl:rules:cache:<md5 of p>
          pc, path, rules,    \* _get_rules: place, path, and rules read
          transaction,        \* of the admin's request
          invalidation,       \* the task _invalidate_rule_cache of a change
          left,       \* keys SCAN's cursor has still to pass
          found,      \* keys the last SCAN returned
          early,      \* history: keys passed before the change committed
          overtaken   \* history: changes whose scan had passed the key when
                      \* its copy was stored

reading == <<pc, path, rules>>
invalidating == <<invalidation, left, found, early>>
vars == <<db, cache, reading, transaction, invalidating, overtaken>>

Init ==
    /\ db = {}
    /\ cache = [p \in Paths |-> None]
    /\ pc = [r \in Readers |-> "idle"]
    /\ path \in [Readers -> Paths]
    /\ rules = [r \in Readers |-> {}]
    /\ transaction = [c \in Changes |-> "none"]
    /\ invalidation = [c \in Changes |-> "none"]
    /\ left = [c \in Changes |-> Paths]
    /\ found = [c \in Changes |-> {}]
    /\ early = [c \in Changes |-> {}]
    /\ overtaken = [p \in Paths |-> {}]

-----------------------------------------------------------------------------
(* _get_rules *)

Goto(r, place) == pc' = [pc EXCEPT ![r] = place]

\* Mutant: a hit stores the copy anew, for another 30 seconds.
HitRenews(r, p) ==
    /\ pc[r] = "idle"
    /\ cache[p] # None
    /\ path' = [path EXCEPT ![r] = p]
    /\ rules' = [rules EXCEPT ![r] = cache[p]]
    /\ Goto(r, "store")
    /\ UNCHANGED <<db, cache, transaction, invalidating, overtaken>>

Hit(r, p) ==
    /\ pc[r] = "idle"
    /\ cache[p] # None
    /\ path' = [path EXCEPT ![r] = p]
    /\ rules' = [rules EXCEPT ![r] = cache[p]]
    /\ UNCHANGED <<db, cache, pc, transaction, invalidating, overtaken>>

Miss(r, p) ==
    /\ pc[r] = "idle"
    /\ cache[p] = None
    /\ path' = [path EXCEPT ![r] = p]
    /\ Goto(r, "select")
    /\ UNCHANGED <<db, cache, rules, transaction, invalidating, overtaken>>

Select(r) ==
    /\ pc[r] = "select"
    /\ rules' = [rules EXCEPT ![r] = db]
    /\ Goto(r, "store")
    /\ UNCHANGED <<db, cache, path, transaction, invalidating, overtaken>>

\* SETEX
Store(r) ==
    /\ pc[r] = "store"
    /\ cache' = [cache EXCEPT ![path[r]] = rules[r]]
    /\ overtaken' = [overtaken EXCEPT ![path[r]] =
                        {c \in Changes : path[r] \notin left[c]}]
    /\ Goto(r, "idle")
    /\ UNCHANGED <<db, path, rules, transaction, invalidating>>

\* The database or Redis fails the call, and the middleware takes over.
Fail(r) ==
    /\ pc[r] \in {"select", "store"}
    /\ Goto(r, "idle")
    /\ UNCHANGED <<db, cache, path, rules, transaction, invalidating, overtaken>>

-----------------------------------------------------------------------------
(* A change: the handler writes, starts the invalidation and returns; then   *)
(* get_db commits or rolls back.                                             *)

Write(c) ==
    /\ transaction[c] = "none"
    /\ transaction' = [transaction EXCEPT ![c] = "open"]
    /\ invalidation' = [invalidation EXCEPT ![c] = "scan"]
    /\ UNCHANGED <<db, cache, reading, left, found, early, overtaken>>

Commit(c) ==
    /\ transaction[c] = "open"
    /\ transaction' = [transaction EXCEPT ![c] = "committed"]
    /\ db' = db \cup {c}
    /\ UNCHANGED <<cache, reading, invalidating, overtaken>>

Rollback(c) ==
    /\ transaction[c] = "open"
    /\ transaction' = [transaction EXCEPT ![c] = "rolledback"]
    /\ UNCHANGED <<db, cache, reading, invalidating, overtaken>>

-----------------------------------------------------------------------------
(* _invalidate_rule_cache *)

\* Mutants: a cursor that stays where it is; a loop that ends with the first
\* batch.
RestAgain(c, batch) == left[c]
AfterBatchEnd(c, batch) == "ended"

Rest(c, batch) == left[c] \ batch
AfterBatch(c, batch) == IF left[c] = batch THEN "ended" ELSE "scan"

\* The cursor passes some keys and returns those that exist.
Scan(c) ==
    /\ invalidation[c] = "scan"
    /\ \E batch \in (SUBSET left[c]) \ {{}} :
          LET present == {p \in batch : cache[p] # None}
          IN  /\ left' = [left EXCEPT ![c] = Rest(c, batch)]
              /\ found' = [found EXCEPT ![c] = present]
              /\ early' = [early EXCEPT ![c] =
                              IF c \in db THEN @ ELSE @ \cup batch]
              /\ invalidation' = [invalidation EXCEPT ![c] =
                    IF present = {} THEN AfterBatch(c, batch) ELSE "delete"]
    /\ UNCHANGED <<db, cache, reading, transaction, overtaken>>

Delete(c) ==
    /\ invalidation[c] = "delete"
    /\ cache' = [p \in Paths |-> IF p \in found[c] THEN None ELSE cache[p]]
    /\ found' = [found EXCEPT ![c] = {}]
    /\ invalidation' = [invalidation EXCEPT ![c] = AfterBatch(c, {})]
    /\ UNCHANGED <<db, reading, transaction, left, early, overtaken>>

\* except Exception: pass, or the task is lost.
InvalidationFails(c) ==
    /\ invalidation[c] \in {"scan", "delete"}
    /\ invalidation' = [invalidation EXCEPT ![c] = "failed"]
    /\ UNCHANGED <<db, cache, reading, transaction, left, found, early, overtaken>>

-----------------------------------------------------------------------------
\* The copy's 30 seconds are over, or Redis lost it.
Expire(p) ==
    /\ cache[p] # None
    /\ cache' = [cache EXCEPT ![p] = None]
    /\ UNCHANGED <<db, reading, transaction, invalidating, overtaken>>

ReaderStep(r) == Select(r) \/ Store(r) \/ Fail(r)
Invalidate(c) == Scan(c) \/ Delete(c) \/ InvalidationFails(c)

Next ==
    \/ \E r \in Readers : ReaderStep(r) \/ \E p \in Paths : Hit(r, p) \/ Miss(r, p)
    \/ \E c \in Changes : Write(c) \/ Commit(c) \/ Rollback(c) \/ Invalidate(c)
    \/ \E p \in Paths : Expire(p)

\* Statements and commands end, answered or not, and Redis expires keys.
Fairness ==
    /\ \A r \in Readers : WF_vars(ReaderStep(r))
    /\ \A p \in Paths : WF_vars(Expire(p))

Spec == Init /\ [][Next]_vars /\ Fairness

-----------------------------------------------------------------------------
TypeOK ==
    /\ db \subseteq Changes
    /\ cache \in [Paths -> (SUBSET Changes) \cup {None}]
    /\ pc \in [Readers -> {"idle", "select", "store"}]
    /\ path \in [Readers -> Paths]
    /\ rules \in [Readers -> SUBSET Changes]
    /\ transaction \in [Changes -> {"none", "open", "committed", "rolledback"}]
    /\ invalidation \in [Changes -> {"none", "scan", "delete", "ended", "failed"}]
    /\ left \in [Changes -> SUBSET Paths]
    /\ found \in [Changes -> SUBSET Paths]
    /\ early \in [Changes -> SUBSET Paths]
    /\ overtaken \in [Paths -> SUBSET Changes]
    /\ \A c \in Changes : (found[c] \cup early[c]) \cap left[c] = {}

\* Once the invalidation of a committed change has run to its end, a copy
\* without the change is there for one of two races only: the scan passed its
\* key before the change was committed, or the copy was stored after the scan
\* had passed, from a SELECT before the commit.
ChangeInForce ==
    \A c \in db, p \in Paths :
        invalidation[c] = "ended" /\ cache[p] # None /\ c \notin cache[p] =>
            p \in early[c] \/ c \in overtaken[p]

\* However invalidations fail or lose their races, every copy becomes, and
\* remains, what the database says: no reader keeps an old copy alive.
EventuallyInForce == <>[](\A p \in Paths : cache[p] \in {None, db})

=============================================================================
