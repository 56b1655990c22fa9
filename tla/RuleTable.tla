------------------------------ MODULE RuleTable ------------------------------
(***************************************************************************)
(* The rows of rate_limit_rules under the handlers of the admin API, the   *)
(* seeding of the demo rules by every process that starts, and the audit   *)
(* entries that refer to a rule.  Transactions are READ COMMITTED: a       *)
(* handler reads what is committed, writes only the columns it has set to  *)
(* another value, and keeps what it wrote locked until get_db commits.     *)
(***************************************************************************)
EXTENDS Naturals, Sequences, FiniteSets

CONSTANTS Requests,    \* requests to the admin API, each handled once
          Asks,        \* what they ask: [kind, body]
          Processes,   \* processes that start, or start again
          DemoRules,   \* the demo rules, in the order they are inserted
          Entries,     \* entries of the audit log
          MaxId,       \* bound: rules inserted
          None         \* no request, no rule, a column that is null or not given

Columns == {"name", "method", "enabled"}
NoValues == [c \in Columns |-> None]
NoRow == NoValues

ASSUME AskAssumption ==
    /\ MaxId \in Nat
    /\ None \notin 1 .. MaxId
    /\ \A a \in Asks : /\ a.kind \in {"post", "put", "patch", "delete"}
                       /\ a.kind \in {"post", "put"} => a.body.name # None

\* The demo rules have names, all different.
ASSUME DemoAssumption ==
    /\ Len(DemoRules) \in Nat /\ DOMAIN DemoRules = 1 .. Len(DemoRules)
    /\ \A k \in DOMAIN DemoRules :
          DOMAIN DemoRules[k] = Columns /\ DemoRules[k].name # None
    /\ \A j, k \in DOMAIN DemoRules : DemoRules[j].name = DemoRules[k].name => j = k

VARIABLES rows,      \* rows[i]: the committed rule with id i
          lastId,    \* the sequence the ids come from
          pc, ask, target, loaded,   \* a request: place, ask, id of its rule,
                                     \* and the rule as loaded
          nulled,    \* the entries a deletion has loaded to clear their rule_id
          seeding, missing, first,   \* seed_demo_rules: place, positions of the
                                     \* rules to insert, and the id before theirs
          entry,     \* entry[e]: its rule_id; 0 if it is not in the log
          asked,     \* history: the rules, had each request on its commit
                     \* written every column it was given
          shared,    \* history: columns of a rule given by two requests that
                     \* overlapped in time
          disturbed  \* history: a request has changed a demo name while a
                     \* seeding was under way

handling == <<pc, ask, target, loaded, nulled>>
seeds == <<seeding, missing, first>>
vars == <<rows, lastId, handling, seeds, entry, asked, shared, disturbed>>

Ids == 1 .. MaxId
DemoNames == {DemoRules[k].name : k \in DOMAIN DemoRules}

Init ==
    /\ rows = [i \in Ids |-> NoRow]
    /\ lastId = 0
    /\ pc = [r \in Requests |-> "idle"]
    /\ ask = [r \in Requests |-> None]
    /\ target = [r \in Requests |-> 0]
    /\ loaded = [r \in Requests |-> NoValues]
    /\ nulled = [r \in Requests |-> {}]
    /\ seeding = [p \in Processes |-> "idle"]
    /\ missing = [p \in Processes |-> {}]
    /\ first = [p \in Processes |-> 0]
    /\ entry = [e \in Entries |-> 0]
    /\ asked = rows
    /\ shared = {}
    /\ disturbed = FALSE

-----------------------------------------------------------------------------
(* What a request writes. *)

\* model_dump of a POST or PUT; exclude_none of a PATCH, of which enable and
\* disable are the case of one column.
Given(a) ==
    CASE a.kind = "patch"  -> {c \in Columns : a.body[c] # None}
      [] a.kind = "delete" -> {}
      [] OTHER             -> Columns

\* The attributes after setattr.
Object(r) ==
    [c \in Columns |-> IF c \in Given(ask[r]) THEN ask[r].body[c] ELSE loaded[r][c]]

\* Mutant: an UPDATE of every column.
ChangedAll(r) == Columns

\* The columns flush writes.
Changed(r) == {c \in Columns : Object(r)[c] # loaded[r][c]}

Written(r, row) == [c \in Columns |-> IF c \in Changed(r) THEN Object(r)[c] ELSE row[c]]

-----------------------------------------------------------------------------
(* Locks. *)

Present(i) == rows[i] # NoRow

\* Mutant: names without a unique index.
TakenNever(n, i) == FALSE

\* Name n is that of a row other than i.
Taken(n, i) == \E j \in Ids \ {i} : rows[j].name = n
InTable(n) == Taken(n, 0)

Writes(r, i) == pc[r] = "flushed" /\ target[r] = i /\ Changed(r) # {}

\* The names an open transaction puts into the unique index or takes out of it.
Indexed(r) ==
    IF pc[r] = "flushed" /\ "name" \in Changed(r)
    THEN {ask[r].body.name, rows[target[r]].name} ELSE {}

Names(p) == {DemoRules[k].name : k \in missing[p]}
Seeded(p) == IF seeding[p] = "flushed" THEN Names(p) ELSE {}

\* An insertion waits for the transactions that hold one of its names.
Free(names) ==
    /\ \A r \in Requests : Indexed(r) \cap names = {}
    /\ \A p \in Processes : Seeded(p) \cap names = {}

-----------------------------------------------------------------------------
(* Requests of administrators. *)

Goto(r, place) == pc' = [pc EXCEPT ![r] = place]

\* The response is sent, or the exception raised; the session is gone.
Leave(r) ==
    /\ Goto(r, "done")
    /\ ask' = [ask EXCEPT ![r] = None]
    /\ target' = [target EXCEPT ![r] = 0]
    /\ loaded' = [loaded EXCEPT ![r] = NoValues]
    /\ nulled' = [nulled EXCEPT ![r] = {}]

Post(r, a) ==
    /\ pc[r] = "idle"
    /\ a.kind = "post"
    /\ ask' = [ask EXCEPT ![r] = a]
    /\ Goto(r, "loaded")
    /\ UNCHANGED <<rows, lastId, target, loaded, nulled, seeds, entry, asked,
                   shared, disturbed>>

\* db.get, of a rule that exists; a 404 changes nothing.
Load(r, a, i) ==
    /\ pc[r] = "idle"
    /\ a.kind # "post"
    /\ Present(i)
    /\ ask' = [ask EXCEPT ![r] = a]
    /\ target' = [target EXCEPT ![r] = i]
    /\ loaded' = [loaded EXCEPT ![r] = rows[i]]
    /\ Goto(r, "loaded")
    /\ shared' = shared \cup
          {<<i, c>> : c \in {d \in Given(a) : \E q \in Requests :
              target[q] = i /\ d \in Given(ask[q])}}
    /\ UNCHANGED <<rows, lastId, nulled, seeds, entry, asked, disturbed>>

\* flush and refresh.  They wait for the row and for the name, and raise if the
\* name is taken or the row has gone.
Flush(r) ==
    LET names  == IF "name" \in Changed(r) THEN {ask[r].body.name} ELSE {}
        post   == ask[r].kind = "post"
        raises == (\E n \in names : Taken(n, target[r])) \/ (~post /\ ~Present(target[r]))
    IN  /\ pc[r] = "loaded"
        /\ ask[r].kind # "delete"
        /\ Changed(r) # {} => \A q \in Requests : ~Writes(q, target[r])
        /\ Free(names)
        /\ IF raises
           THEN Leave(r) /\ UNCHANGED lastId
           ELSE /\ Goto(r, "flushed")
                /\ IF post
                   THEN /\ lastId < MaxId
                        /\ lastId' = lastId + 1
                        /\ target' = [target EXCEPT ![r] = lastId']
                   ELSE UNCHANGED <<lastId, target>>
                /\ UNCHANGED <<ask, loaded, nulled>>
        /\ UNCHANGED <<rows, seeds, entry, asked, shared, disturbed>>

Disturbs(names) ==
    disturbed' = (disturbed \/ (names \cap DemoNames # {}
                                /\ \E p \in Processes : seeding[p] # "idle"))

Commit(r) ==
    LET i     == target[r]
        fresh == ask[r].kind = "post"
    IN  /\ pc[r] = "flushed"
        /\ rows' = [rows EXCEPT ![i] =
                       IF Changed(r) = {} THEN @ ELSE Written(r, @)]
        /\ asked' = [asked EXCEPT ![i] =
                        IF ~fresh /\ @ = NoRow THEN NoRow
                        ELSE [c \in Columns |-> IF c \in Given(ask[r])
                                                THEN ask[r].body[c] ELSE @[c]]]
        /\ Disturbs(Indexed(r))
        /\ Leave(r)
        /\ UNCHANGED <<lastId, seeds, entry, shared>>

\* The deletion's flush, within get_db's commit: first it loads the entries of
\* the rule, then it clears their rule_id and deletes the row; a row that has
\* gone is no error.
LoadEntries(r) ==
    /\ pc[r] = "loaded"
    /\ ask[r].kind = "delete"
    /\ nulled' = [nulled EXCEPT ![r] = {e \in Entries : entry[e] = target[r]}]
    /\ Goto(r, "deleting")
    /\ UNCHANGED <<rows, lastId, ask, target, loaded, seeds, entry, asked, shared,
                   disturbed>>

\* Mutant: a foreign key that leaves the entries alone.
OnDeleteNothing(i) == {}

\* ON DELETE SET NULL
OnDelete(i) == {e \in Entries : entry[e] = i}

CommitDelete(r) ==
    LET i == target[r]
    IN  /\ pc[r] = "deleting"
        /\ \A q \in Requests : ~Writes(q, i)
        /\ rows' = [rows EXCEPT ![i] = NoRow]
        /\ asked' = [asked EXCEPT ![i] = NoRow]
        /\ entry' = [e \in Entries |->
                        IF e \in nulled[r] \cup OnDelete(i) THEN None ELSE entry[e]]
        /\ Disturbs({rows[i].name})
        /\ Leave(r)
        /\ UNCHANGED <<lastId, seeds, shared>>

\* The database fails the request, or the process stops: all is rolled back.
Fail(r) ==
    /\ pc[r] \in {"loaded", "flushed", "deleting"}
    /\ Leave(r)
    /\ UNCHANGED <<rows, lastId, seeds, entry, asked, shared, disturbed>>

-----------------------------------------------------------------------------
(* seed_demo_rules *)

Move(p, place) == seeding' = [seeding EXCEPT ![p] = place]

\* Mutant: a table with any demo rule passes for seeded.
AbsentIfNone == IF \E n \in DemoNames : InTable(n) THEN {} ELSE DOMAIN DemoRules

Absent == {k \in DOMAIN DemoRules : ~InTable(DemoRules[k].name)}

\* SELECT name
ReadNames(p) ==
    /\ seeding[p] = "idle"
    /\ missing' = [missing EXCEPT ![p] = Absent]
    /\ Move(p, "read")
    /\ disturbed' = (disturbed /\ \E q \in Processes : seeding[q] # "idle")
    /\ UNCHANGED <<rows, lastId, handling, first, entry, asked, shared>>

Quit(p) ==
    /\ Move(p, "idle")
    /\ missing' = [missing EXCEPT ![p] = {}]
    /\ first' = [first EXCEPT ![p] = 0]
    /\ UNCHANGED <<lastId, handling, entry, shared, disturbed>>

\* Nothing to create; or a name that has been taken meanwhile fails the whole
\* insertion, and the failure is logged and swallowed.
SeedNothing(p) ==
    /\ seeding[p] = "read"
    /\ Free(Names(p))
    /\ Names(p) = {} \/ \E n \in Names(p) : InTable(n)
    /\ Quit(p)
    /\ UNCHANGED <<rows, asked>>

Insert(p) ==
    /\ seeding[p] = "read"
    /\ Names(p) # {}
    /\ Free(Names(p))
    /\ \A n \in Names(p) : ~InTable(n)
    /\ lastId + Cardinality(missing[p]) <= MaxId
    /\ first' = [first EXCEPT ![p] = lastId]
    /\ lastId' = lastId + Cardinality(missing[p])
    /\ Move(p, "flushed")
    /\ UNCHANGED <<rows, handling, missing, entry, asked, shared, disturbed>>

\* The ids are given in the order of the rules.
IdOf(p, k) == first[p] + Cardinality({j \in missing[p] : j <= k})

SeedCommit(p) ==
    LET seeded(table) ==
            [i \in Ids |-> IF \E k \in missing[p] : IdOf(p, k) = i
                           THEN DemoRules[CHOOSE k \in missing[p] : IdOf(p, k) = i]
                           ELSE table[i]]
    IN  /\ seeding[p] = "flushed"
        /\ rows' = seeded(rows)
        /\ asked' = seeded(asked)
        /\ Quit(p)

SeedFail(p) ==
    /\ seeding[p] # "idle"
    /\ Quit(p)
    /\ UNCHANGED <<rows, asked>>

-----------------------------------------------------------------------------
\* _log_violation: an entry for the default rule, or for a rule that is still
\* there when the foreign key is checked; else the entry is lost.
Log(e, i) ==
    /\ entry[e] = 0
    /\ i # None => /\ Present(i)
                   /\ \A r \in Requests : Writes(r, i) => "name" \notin Changed(r)
    /\ entry' = [entry EXCEPT ![e] = i]
    /\ UNCHANGED <<rows, lastId, handling, seeds, asked, shared, disturbed>>

Next ==
    \/ \E r \in Requests, a \in Asks : Post(r, a) \/ \E i \in Ids : Load(r, a, i)
    \/ \E r \in Requests :
          Flush(r) \/ Commit(r) \/ LoadEntries(r) \/ CommitDelete(r) \/ Fail(r)
    \/ \E p \in Processes :
          ReadNames(p) \/ SeedNothing(p) \/ Insert(p) \/ SeedCommit(p) \/ SeedFail(p)
    \/ \E e \in Entries, i \in Ids \cup {None} : Log(e, i)

Spec == Init /\ [][Next]_vars

-----------------------------------------------------------------------------
\* Rows have names, which are unique, as the index demands, and ids given out.
RowsOK ==
    /\ DOMAIN rows = Ids /\ DOMAIN asked = Ids
    /\ \A i \in Ids :
          /\ DOMAIN rows[i] = Columns /\ DOMAIN asked[i] = Columns
          /\ Present(i) => i <= lastId /\ rows[i].name # None
          /\ asked[i] # NoRow => asked[i].name # None
    /\ \A i, j \in Ids : Present(i) /\ rows[i].name = rows[j].name => i = j

TypeOK ==
    /\ RowsOK
    /\ lastId \in 0 .. MaxId
    /\ pc \in [Requests -> {"idle", "loaded", "flushed", "deleting", "done"}]
    /\ ask \in [Requests -> Asks \cup {None}]
    /\ target \in [Requests -> 0 .. MaxId]
    /\ DOMAIN loaded = Requests
    /\ nulled \in [Requests -> SUBSET Entries]
    /\ seeding \in [Processes -> {"idle", "read", "flushed"}]
    /\ missing \in [Processes -> SUBSET DOMAIN DemoRules]
    /\ first \in [Processes -> 0 .. MaxId]
    /\ entry \in [Entries -> 0 .. MaxId \cup {None}]
    /\ disturbed \in BOOLEAN

\* A rule says what the requests committed on it asked for, in the order of
\* their commits: no update brings back an old value of a column it was not
\* given.  Excepted are the columns given by two requests at a time, where the
\* slower leaves alone a column it was given the value it had loaded.
RowAsAsked ==
    \A i \in Ids :
        /\ Present(i) <=> asked[i] # NoRow
        /\ Present(i) => \A c \in Columns :
              <<i, c>> \notin shared => rows[i][c] = asked[i][c]

\* An entry of the audit log names a rule that exists, or none, whenever the
\* entry was written during the rule's deletion.
EntriesNameRules == \A e \in Entries : entry[e] \in Ids => Present(entry[e])

\* A seeding that ends without a failure of the database leaves every demo rule
\* in the table, also if it lost a race against another process; unless an
\* administrator has created, renamed or deleted one of them meanwhile.
SeedingComplete ==
    [][\A p \in Processes :
          (SeedNothing(p) \/ SeedCommit(p)) /\ ~disturbed =>
              \A n \in DemoNames : InTable(n)']_vars

=============================================================================
