-------------------------- MODULE RuleTableProofs ---------------------------
(***************************************************************************)
(* The rows of rate_limit_rules keep unique names and say what was asked   *)
(* of them, audit entries name rules that exist, and a seeding leaves the  *)
(* demo rules in the table: for any requests, processes and entries.       *)
(***************************************************************************)
EXTENDS RuleTable, FiniteSetTheorems, TLAPS

\* Transactions that insert a rule, and one that gives a row a name.
Fresh(r) == pc[r] = "flushed" /\ ask[r].kind = "post"
Renames(r) == pc[r] = "flushed" /\ "name" \in Changed(r)
SeedIds(p) ==
    IF seeding[p] = "flushed" THEN first[p] + 1 .. first[p] + Cardinality(missing[p]) ELSE {}

\* What a request knows in each place.
Placed(r) ==
    /\ DOMAIN loaded[r] = Columns
    /\ pc[r] \in {"idle", "done"} => target[r] = 0 /\ loaded[r] = NoValues
    /\ pc[r] \in {"loaded", "flushed", "deleting"} =>
          /\ ask[r] \in Asks
          /\ ask[r].kind = "post" => loaded[r] = NoValues /\ (target[r] = 0 \/ Fresh(r))
          /\ ask[r].kind # "post" \/ Fresh(r) => target[r] \in 1 .. lastId
    /\ pc[r] = "flushed" => ask[r].kind # "delete"
    /\ pc[r] = "deleting" => ask[r].kind = "delete"
    /\ pc[r] = "flushed" /\ ~Fresh(r) /\ Changed(r) # {} => Present(target[r])

\* Rules to be inserted have ids of their own, without rows.
InsertsApart ==
    /\ \A r \in Requests : Fresh(r) =>
          ~Present(target[r]) /\ \A q \in Requests : target[q] = target[r] => q = r
    /\ \A p \in Processes :
          /\ SeedIds(p) \subseteq 1 .. lastId
          /\ \A i \in SeedIds(p) : ~Present(i) /\ \A q \in Requests : target[q] # i
          /\ \A q \in Processes : q # p => SeedIds(p) \cap SeedIds(q) = {}

\* A name that an open transaction has put into the index is there once.
NamesApart ==
    /\ \A r \in Requests : Renames(r) =>
          /\ ~Taken(ask[r].body.name, target[r])
          /\ \A q \in Requests : Renames(q) /\ ask[q].body.name = ask[r].body.name => q = r
          /\ \A p \in Processes : ask[r].body.name \notin Seeded(p)
    /\ \A p \in Processes :
          /\ \A n \in Seeded(p) : ~InTable(n)
          /\ \A q \in Processes : q # p => Seeded(p) \cap Seeded(q) = {}

\* Two requests that are given the same column of a row share it, and a column
\* that is not shared is still as loaded.
SharedNoted ==
    \A r, q \in Requests : r # q /\ target[r] = target[q] /\ target[r] # 0 =>
        \A c \in Given(ask[r]) \cap Given(ask[q]) : <<target[r], c>> \in shared

AsLoaded ==
    \A r \in Requests : target[r] # 0 /\ Present(target[r]) =>
        \A c \in Given(ask[r]) :
            <<target[r], c>> \notin shared => loaded[r][c] = rows[target[r]][c]

\* Undisturbed, a seeding finds what it read: every demo rule is in the table or
\* about to be inserted, and none of the latter is in the table unless all are.
SeedingKnows ==
    \A p \in Processes : seeding[p] # "idle" /\ ~disturbed =>
        /\ \A n \in DemoNames : InTable(n) \/ n \in Names(p)
        /\ \/ \A n \in Names(p) : ~InTable(n)
           \/ \A n \in DemoNames : InTable(n)

IInv ==
    /\ TypeOK
    /\ \A r \in Requests : Placed(r)
    /\ InsertsApart
    /\ NamesApart
    /\ RowAsAsked
    /\ SharedNoted
    /\ AsLoaded
    /\ EntriesNameRules
    /\ SeedingKnows

-----------------------------------------------------------------------------
(* What a request is given, changes and writes. *)

LEMMA ChangedIsGiven ==
    ASSUME NEW r \in Requests
    PROVE  /\ Given(ask[r]) \subseteq Columns
           /\ \A c \in Columns : c \in Changed(r) <=>
                 c \in Given(ask[r]) /\ ask[r].body[c] # loaded[r][c]
<1>1. Given(ask[r]) \subseteq Columns
  BY DEF Given
<1>2. ASSUME NEW c \in Columns
      PROVE  c \in Changed(r) <=> c \in Given(ask[r]) /\ ask[r].body[c] # loaded[r][c]
  BY DEF Changed, Object
<1> QED BY <1>1, <1>2

LEMMA GivenName ==
    ASSUME NEW a \in Asks, "name" \in Given(a)
    PROVE  a.body.name # None
<1>1. CASE a.kind = "patch"
  BY <1>1 DEF Given
<1>2. CASE a.kind = "delete"
  BY <1>2 DEF Given
<1>3. CASE a.kind \in {"post", "put"}
  BY <1>3, AskAssumption
<1> QED BY <1>1, <1>2, <1>3, AskAssumption

LEMMA WrittenColumns ==
    ASSUME NEW r \in Requests, NEW row
    PROVE  /\ DOMAIN Written(r, row) = Columns
           /\ \A c \in Columns \ Changed(r) : Written(r, row)[c] = row[c]
           /\ \A c \in Changed(r) : Written(r, row)[c] = ask[r].body[c]
<1>1. DOMAIN Written(r, row) = Columns
  BY DEF Written
<1>2. ASSUME NEW c \in Columns, c \notin Changed(r)
      PROVE  Written(r, row)[c] = row[c]
  BY <1>2 DEF Written
<1>3. ASSUME NEW c \in Changed(r)
      PROVE  Written(r, row)[c] = ask[r].body[c]
  <2>1. c \in Columns /\ Object(r)[c] = ask[r].body[c]
    BY <1>3, ChangedIsGiven DEF Changed, Object
  <2> QED BY <1>3, <2>1 DEF Written
<1> QED BY <1>1, <1>2, <1>3

LEMMA NoRowColumns ==
    /\ DOMAIN NoRow = Columns
    /\ \A c \in Columns : NoRow[c] = None
    /\ NoRow.name = None
    /\ "name" \in Columns
  BY DEF NoRow, NoValues, Columns

\* A request that keeps what it was asked and has loaded keeps its changes.
LEMMA Kept ==
    ASSUME NEW r \in Requests, ask'[r] = ask[r], loaded'[r] = loaded[r]
    PROVE  /\ Given(ask[r])' = Given(ask[r])
           /\ Changed(r)' = Changed(r)
<1>1. Given(ask[r])' = Given(ask[r])
  BY DEF Given
<1> QED BY <1>1 DEF Changed, Object

\* A name is taken by a row that has it.
LEMMA NameHolder ==
    ASSUME TypeOK, NEW n, n # None, NEW i
    PROVE  Taken(n, i) <=> \E j \in Ids \ {i} : Present(j) /\ rows[j].name = n
<1>1. ASSUME NEW j \in Ids, rows[j].name = n
      PROVE  Present(j)
  BY <1>1, NoRowColumns DEF Present
<1> QED BY <1>1 DEF Taken

-----------------------------------------------------------------------------
(* Steps that leave the rows alone. *)

LEMMA RowsKept ==
    ASSUME IInv, UNCHANGED <<rows, asked, entry>>, lastId' \in 0 .. MaxId,
           lastId <= lastId', shared \subseteq shared'
    PROVE  /\ RowsOK' /\ RowAsAsked' /\ EntriesNameRules'
           /\ \A i : Present(i)' = Present(i)
           /\ \A n, i : Taken(n, i)' = Taken(n, i)
           /\ \A n : InTable(n)' = InTable(n)
<1>1. /\ \A i : Present(i)' = Present(i)
      /\ \A n, i : Taken(n, i)' = Taken(n, i)
      /\ \A n : InTable(n)' = InTable(n)
  BY DEF Present, Taken, InTable
<1>2. RowsOK'
  <2>1. /\ DOMAIN rows' = Ids /\ DOMAIN asked' = Ids
        /\ \A i \in Ids : DOMAIN rows'[i] = Columns /\ DOMAIN asked'[i] = Columns
        /\ \A i \in Ids : asked'[i] # NoRow => asked'[i].name # None
        /\ \A i, j \in Ids : Present(i)' /\ rows'[i].name = rows'[j].name => i = j
    BY <1>1 DEF IInv, TypeOK, RowsOK
  <2>2. ASSUME NEW i \in Ids, Present(i)'
        PROVE  i <= lastId' /\ rows'[i].name # None
    <3>1. Present(i) /\ i <= lastId /\ rows[i].name # None
      BY <1>1, <2>2 DEF IInv, TypeOK, RowsOK
    <3>2. lastId \in Nat /\ lastId' \in Nat /\ i \in Nat
      BY AskAssumption DEF IInv, TypeOK, Ids
    <3> QED BY <3>1, <3>2
  <2> QED BY <2>1, <2>2 DEF RowsOK
<1>3. RowAsAsked'
  BY <1>1 DEF IInv, RowAsAsked
<1>4. EntriesNameRules'
  BY <1>1 DEF IInv, EntriesNameRules
<1> QED BY <1>1, <1>2, <1>3, <1>4

\* What keeps the demo rules' presence keeps what seedings know.
LEMMA SeedingKept ==
    ASSUME IInv, UNCHANGED <<seeding, missing>>,
           ~disturbed' /\ (\E p \in Processes : seeding[p] # "idle") =>
               ~disturbed /\ \A n \in DemoNames : InTable(n)' = InTable(n)
    PROVE  SeedingKnows'
<1>1. \A p \in Processes : Names(p)' = Names(p)
  BY DEF Names
<1>2. \A p \in Processes : Names(p) \subseteq DemoNames
  BY DEF Names, DemoNames, IInv, TypeOK
<1> QED BY <1>1, <1>2 DEF IInv, SeedingKnows

-----------------------------------------------------------------------------
(* The end of a request. *)

LEMMA LeaveTypes ==
    ASSUME IInv, NEW r \in Requests, Leave(r)
    PROVE  /\ pc' \in [Requests -> {"idle", "loaded", "flushed", "deleting", "done"}]
           /\ ask' \in [Requests -> Asks \cup {None}]
           /\ target' \in [Requests -> 0 .. MaxId]
           /\ DOMAIN loaded' = Requests
           /\ nulled' \in [Requests -> SUBSET Entries]
           /\ pc'[r] = "done" /\ target'[r] = 0 /\ loaded'[r] = NoValues
           /\ \A q \in Requests \ {r} : /\ pc'[q] = pc[q] /\ ask'[q] = ask[q]
                                        /\ target'[q] = target[q]
                                        /\ loaded'[q] = loaded[q]
<1>1. 0 \in 0 .. MaxId
  BY AskAssumption
<1>2. /\ pc \in [Requests -> {"idle", "loaded", "flushed", "deleting", "done"}]
      /\ ask \in [Requests -> Asks \cup {None}]
      /\ target \in [Requests -> 0 .. MaxId]
      /\ DOMAIN loaded = Requests
      /\ nulled \in [Requests -> SUBSET Entries]
  BY DEF IInv, TypeOK
<1>3. /\ pc' = [pc EXCEPT ![r] = "done"]
      /\ ask' = [ask EXCEPT ![r] = None]
      /\ target' = [target EXCEPT ![r] = 0]
      /\ loaded' = [loaded EXCEPT ![r] = NoValues]
      /\ nulled' = [nulled EXCEPT ![r] = {}]
  BY DEF Leave, Goto
<1> QED BY <1>1, <1>2, <1>3

\* A request that ends disturbs no other, if it makes rows absent that nobody
\* writes, and gives names and columns that it was asked to give.
LEMMA LeaveInv ==
    ASSUME IInv, NEW r \in Requests, Leave(r), UNCHANGED <<lastId, seeds, shared>>,
           \A q \in Requests \ {r} : Writes(q, target[q]) /\ Present(target[q])
                                         => Present(target[q])',
           \A i \in Ids : Present(i)' => Present(i) \/ (i = target[r] /\ Fresh(r)),
           \A i \in Ids : Present(i)' =>
               \/ rows'[i].name = rows[i].name
               \/ i = target[r] /\ Renames(r) /\ rows'[i].name = ask[r].body.name,
           \A i \in Ids, c \in Columns : Present(i)' =>
               rows'[i][c] = rows[i][c] \/ (i = target[r] /\ c \in Given(ask[r])),
           RowsOK'
    PROVE  /\ \A q \in Requests : Placed(q)'
           /\ InsertsApart' /\ NamesApart' /\ SharedNoted' /\ AsLoaded'
<1>1. /\ pc'[r] = "done" /\ target'[r] = 0 /\ loaded'[r] = NoValues
      /\ \A q \in Requests \ {r} : /\ pc'[q] = pc[q] /\ ask'[q] = ask[q]
                                   /\ target'[q] = target[q] /\ loaded'[q] = loaded[q]
  BY LeaveTypes
<1>2. ASSUME NEW q \in Requests, q # r
      PROVE  /\ Given(ask[q])' = Given(ask[q]) /\ Changed(q)' = Changed(q)
             /\ Fresh(q)' = Fresh(q) /\ Renames(q)' = Renames(q)
  BY <1>1, <1>2, Kept DEF Fresh, Renames
<1>3. ~Fresh(r)' /\ ~Renames(r)'
  BY <1>1 DEF Fresh, Renames
<1>4. ASSUME NEW q \in Requests
      PROVE  Placed(q)'
  <2>1. CASE q = r
    BY <1>1, <2>1, NoRowColumns DEF Placed, Fresh, NoRow
  <2>2. CASE q # r
    <3>1. Placed(q)
      BY DEF IInv
    <3>2. pc[q] = "flushed" /\ ~Fresh(q) /\ Changed(q) # {} => Present(target[q])'
      BY <2>2, <3>1 DEF Writes, Placed
    <3> QED BY <1>1, <1>2, <2>2, <3>1, <3>2 DEF Placed
  <2> QED BY <2>1, <2>2
<1>5. \A q \in Requests : Placed(q) /\ target[q] \in 0 .. MaxId
  BY DEF IInv, TypeOK
<1>6. \A p \in Processes : SeedIds(p)' = SeedIds(p) /\ Seeded(p)' = Seeded(p)
  BY DEF SeedIds, Seeded, Names, seeds
<1>7. InsertsApart'
  <2>1. ASSUME NEW q \in Requests, Fresh(q)'
        PROVE  ~Present(target[q])' /\ \A u \in Requests : target'[u] = target'[q] => u = q
    <3>1. q # r /\ Fresh(q)
      BY <1>2, <1>3, <2>1
    <3>2. target[q] \in Ids /\ target'[q] = target[q] /\ target[q] # 0
      BY <1>1, <1>5, <3>1, AskAssumption DEF Placed, Fresh, Ids, IInv, TypeOK
    <3>3. ~Present(target[q]) /\ \A u \in Requests : target[u] = target[q] => u = q
      BY <3>1 DEF IInv, InsertsApart
    <3>4. ~Present(target[q])'
      BY <3>1, <3>2, <3>3 DEF Present
    <3>5. \A u \in Requests : target'[u] = target'[q] => u = q
      BY <1>1, <3>2, <3>3
    <3> QED BY <3>4, <3>5
  <2>2. ASSUME NEW p \in Processes
        PROVE  /\ SeedIds(p)' \subseteq 1 .. lastId'
               /\ \A i \in SeedIds(p)' : ~Present(i)' /\ \A q \in Requests : target'[q] # i
               /\ \A q \in Processes : q # p => SeedIds(p)' \cap SeedIds(q)' = {}
    <3>1. /\ SeedIds(p) \subseteq 1 .. lastId
          /\ \A i \in SeedIds(p) : ~Present(i) /\ \A q \in Requests : target[q] # i
          /\ \A q \in Processes : q # p => SeedIds(p) \cap SeedIds(q) = {}
      BY DEF IInv, InsertsApart
    <3>2. ASSUME NEW i \in SeedIds(p)
          PROVE  ~Present(i)' /\ \A q \in Requests : target'[q] # i
      <4>1. i \in Ids /\ i # 0
        BY <3>1, AskAssumption DEF Ids, IInv, TypeOK
      <4> QED BY <1>1, <3>1, <4>1
    <3> QED BY <1>6, <3>1, <3>2
  <2> QED BY <2>1, <2>2 DEF InsertsApart
<1>8. ASSUME NEW n, n # None, NEW i,
             Renames(r) => ask[r].body.name # n
      PROVE  Taken(n, i)' => Taken(n, i)
  <2>1. ASSUME NEW j \in Ids, rows'[j].name = n
        PROVE  rows[j].name = n
    <3>1. Present(j)'
      BY <1>8, <2>1, NoRowColumns DEF Present
    <3> QED BY <1>8, <2>1, <3>1
  <2> QED BY <2>1 DEF Taken
<1>9. NamesApart'
  <2>1. ASSUME NEW q \in Requests, Renames(q)'
        PROVE  /\ ~Taken(ask[q].body.name, target[q])'
               /\ \A u \in Requests :
                     Renames(u)' /\ ask'[u].body.name = ask'[q].body.name => u = q
               /\ \A p \in Processes : ask'[q].body.name \notin Seeded(p)'
    <3>1. q # r /\ Renames(q)
      BY <1>2, <1>3, <2>1
    <3>2. ask[q].body.name # None
      BY <1>5, <3>1, ChangedIsGiven, GivenName, NoRowColumns DEF Renames, Placed
    <3>3. /\ ~Taken(ask[q].body.name, target[q])
          /\ \A u \in Requests : Renames(u) /\ ask[u].body.name = ask[q].body.name => u = q
          /\ \A p \in Processes : ask[q].body.name \notin Seeded(p)
      BY <3>1 DEF IInv, NamesApart
    <3>4. ~Taken(ask[q].body.name, target[q])'
      <4>1. ask'[q] = ask[q] /\ target'[q] = target[q]
        BY <1>1, <3>1
      <4>2. PICK n, i : n = ask[q].body.name /\ i = target[q]
        OBVIOUS
      <4>3. ~Taken(n, i)'
        <5>1. n # None /\ ~Taken(n, i) /\ (Renames(r) => ask[r].body.name # n)
          BY <3>1, <3>2, <3>3, <4>2
        <5> QED BY <1>8, <5>1
      <4> QED BY <4>1, <4>2, <4>3 DEF Taken
    <3>5. \A u \in Requests : Renames(u)' /\ ask'[u].body.name = ask'[q].body.name => u = q
      BY <1>1, <1>2, <1>3, <3>1, <3>3
    <3>6. \A p \in Processes : ask'[q].body.name \notin Seeded(p)'
      BY <1>1, <1>6, <3>1, <3>3
    <3> QED BY <3>4, <3>5, <3>6
  <2>2. ASSUME NEW p \in Processes
        PROVE  /\ \A n \in Seeded(p)' : ~InTable(n)'
               /\ \A q \in Processes : q # p => Seeded(p)' \cap Seeded(q)' = {}
    <3>1. ASSUME NEW n \in Seeded(p)
          PROVE  ~InTable(n)'
      <4>1. n # None
        BY <3>1, DemoAssumption DEF Seeded, Names, IInv, TypeOK
      <4>2. Renames(r) => ask[r].body.name # n
        BY <3>1 DEF IInv, NamesApart
      <4>3. ~Taken(n, 0)
        BY <3>1 DEF IInv, NamesApart, InTable
      <4> QED BY <1>8, <4>1, <4>2, <4>3 DEF InTable
    <3> QED BY <1>6, <3>1 DEF IInv, NamesApart
  <2> QED BY <2>1, <2>2 DEF NamesApart
<1>10. SharedNoted'
  <2> SUFFICES ASSUME NEW q \in Requests, NEW u \in Requests, q # u,
                      target'[q] = target'[u], target'[q] # 0,
                      NEW c \in Given(ask'[q]) \cap Given(ask'[u])
               PROVE  <<target'[q], c>> \in shared'
    BY DEF SharedNoted, Given
  <2> QED BY <1>1 DEF IInv, SharedNoted
<1>11. AsLoaded'
  <2> SUFFICES ASSUME NEW q \in Requests, target'[q] # 0, Present(target[q])',
                      NEW c \in Given(ask[q])', <<target'[q], c>> \notin shared'
               PROVE  loaded'[q][c] = rows'[target'[q]][c]
    BY DEF AsLoaded
  <2>1. q # r /\ target'[q] = target[q] /\ target[q] \in Ids
    BY <1>1, <1>5, AskAssumption DEF Ids
  <2>2. c \in Given(ask[q]) /\ c \in Columns /\ loaded'[q] = loaded[q]
    BY <1>1, <1>2, <2>1, ChangedIsGiven
  <2>3. Present(target[q])
    <3>1. CASE Fresh(r) /\ target[q] = target[r]
      BY <2>1, <3>1 DEF IInv, InsertsApart
    <3> QED BY <2>1, <3>1 DEF Present
  <2>4. loaded[q][c] = rows[target[q]][c]
    BY <2>1, <2>2, <2>3 DEF IInv, AsLoaded
  <2>5. ~(target[q] = target[r] /\ c \in Given(ask[r]))
    BY <2>1, <2>2 DEF IInv, SharedNoted
  <2>6. rows'[target[q]][c] = rows[target[q]][c]
    BY <2>1, <2>2, <2>5 DEF Present
  <2> QED BY <2>1, <2>2, <2>4, <2>6
<1> QED BY <1>4, <1>7, <1>9, <1>10, <1>11

-----------------------------------------------------------------------------
(* A request on its way to its commit. *)

LEMMA OpenInv ==
    ASSUME IInv, NEW r \in Requests,
           \A q \in Requests \ {r} : /\ pc'[q] = pc[q] /\ ask'[q] = ask[q]
                                     /\ target'[q] = target[q] /\ loaded'[q] = loaded[q],
           UNCHANGED <<rows, asked, entry, seeds, disturbed>>,
           lastId <= lastId', shared \subseteq shared', TypeOK', Placed(r)',
           \/ Fresh(r)' /\ lastId' = lastId + 1 /\ target'[r] = lastId'
           \/ ~Fresh(r)' /\ target'[r] = target[r]
           \/ ~Fresh(r)' /\ Present(target'[r]),
           Renames(r)' => /\ ~Taken(ask'[r].body.name, target'[r])
                          /\ \A q \in Requests : ask'[r].body.name \notin Indexed(q)
                          /\ \A p \in Processes : ask'[r].body.name \notin Seeded(p),
           \A q \in Requests : q # r /\ target'[r] = target[q] /\ target'[r] # 0 =>
               \A c \in Given(ask'[r]) \cap Given(ask[q]) : <<target'[r], c>> \in shared',
           target'[r] # 0 /\ Present(target'[r]) =>
               \A c \in Given(ask'[r]) : <<target'[r], c>> \notin shared' =>
                   loaded'[r][c] = rows[target'[r]][c]
    PROVE  IInv'
<1>1. /\ \A q \in Requests : Placed(q) /\ target[q] \in 0 .. MaxId
      /\ lastId \in 0 .. MaxId /\ lastId' \in 0 .. MaxId /\ MaxId \in Nat
      /\ \A q \in Requests : target'[q] \in 0 .. MaxId
  BY AskAssumption DEF IInv, TypeOK
<1>2. /\ RowsOK' /\ RowAsAsked' /\ EntriesNameRules'
      /\ \A i : Present(i)' = Present(i)
      /\ \A n, i : Taken(n, i)' = Taken(n, i)
      /\ \A n : InTable(n)' = InTable(n)
  BY <1>1, RowsKept
<1>3. ASSUME NEW q \in Requests, q # r
      PROVE  /\ Given(ask[q])' = Given(ask[q]) /\ Changed(q)' = Changed(q)
             /\ Fresh(q)' = Fresh(q) /\ Renames(q)' = Renames(q)
  BY <1>3, Kept DEF Fresh, Renames
<1>4. \A p \in Processes : SeedIds(p)' = SeedIds(p) /\ Seeded(p)' = Seeded(p)
  BY DEF SeedIds, Seeded, Names, seeds
<1>5. ASSUME NEW q \in Requests
      PROVE  Placed(q)'
  <2>1. CASE q # r
    <3>1. Placed(q) /\ 1 .. lastId \subseteq 1 .. lastId'
      BY <1>1
    <3>2. pc[q] = "flushed" /\ ~Fresh(q) /\ Changed(q) # {} => Present(target[q])'
      BY <2>1, <3>1 DEF Placed, Present
    <3> QED BY <1>3, <2>1, <3>1, <3>2 DEF Placed
  <2> QED BY <2>1
<1>6. ASSUME NEW q \in Requests, q # r, Fresh(q)
      PROVE  target[q] \in 1 .. lastId /\ ~Present(target[q]) /\ target[q] # target'[r]
  <2>1. target[q] \in 1 .. lastId /\ ~Present(target[q]) /\ target[r] # target[q]
    BY <1>1, <1>6 DEF Placed, Fresh, IInv, InsertsApart
  <2> QED BY <1>1, <2>1
<1>7. ASSUME NEW p \in Processes
      PROVE  target'[r] \notin SeedIds(p) /\ SeedIds(p) \subseteq 1 .. lastId
  BY <1>1 DEF IInv, InsertsApart
<1>8. InsertsApart'
  <2>1. ASSUME NEW q \in Requests, Fresh(q)'
        PROVE  ~Present(target[q])' /\ \A u \in Requests : target'[u] = target'[q] => u = q
    <3>1. CASE q = r
      <4>1. target'[r] = lastId + 1 /\ target'[r] \in Ids
        BY <1>1, <2>1, <3>1 DEF Ids
      <4>2. ~Present(target'[r])
        BY <1>1, <4>1 DEF IInv, TypeOK, RowsOK
      <4>3. ASSUME NEW u \in Requests, u # r
            PROVE  target'[u] # target'[r]
        <5>1. target[u] <= lastId
          BY <1>1 DEF Placed, Fresh, IInv, TypeOK
        <5> QED BY <1>1, <4>1, <4>3, <5>1
      <4> QED BY <3>1, <4>2, <4>3 DEF Present
    <3>2. CASE q # r
      <4>1. Fresh(q)
        BY <1>3, <2>1, <3>2
      <4>2. ~Present(target[q])'
        BY <1>6, <3>2, <4>1 DEF Present
      <4> QED BY <1>6, <3>2, <4>1, <4>2 DEF IInv, InsertsApart
    <3> QED BY <3>1, <3>2
  <2>2. ASSUME NEW p \in Processes
        PROVE  /\ SeedIds(p)' \subseteq 1 .. lastId'
               /\ \A i \in SeedIds(p)' : ~Present(i)' /\ \A q \in Requests : target'[q] # i
               /\ \A q \in Processes : q # p => SeedIds(p)' \cap SeedIds(q)' = {}
    <3>1. /\ SeedIds(p) \subseteq 1 .. lastId
          /\ \A i \in SeedIds(p) : ~Present(i) /\ \A q \in Requests : target[q] # i
          /\ \A q \in Processes : q # p => SeedIds(p) \cap SeedIds(q) = {}
      BY DEF IInv, InsertsApart
    <3>2. 1 .. lastId \subseteq 1 .. lastId'
      BY <1>1
    <3>3. \A i \in SeedIds(p) : ~Present(i)' /\ \A q \in Requests : target'[q] # i
      BY <1>2, <1>7, <3>1
    <3> QED BY <1>4, <3>1, <3>2, <3>3
  <2> QED BY <2>1, <2>2 DEF InsertsApart
<1>9. NamesApart'
  <2>1. ASSUME NEW q \in Requests, Renames(q)'
        PROVE  /\ ~Taken(ask[q].body.name, target[q])'
               /\ \A u \in Requests :
                     Renames(u)' /\ ask'[u].body.name = ask'[q].body.name => u = q
               /\ \A p \in Processes : ask'[q].body.name \notin Seeded(p)'
    <3>1. ~Taken(ask[q].body.name, target[q])'
      <4>1. ~Taken(ask'[q].body.name, target'[q])
        BY <1>3, <2>1 DEF IInv, NamesApart
      <4>2. PICK n, i : n = ask'[q].body.name /\ i = target'[q]
        OBVIOUS
      <4>3. ~Taken(n, i)'
        BY <1>2, <4>1, <4>2
      <4> QED BY <4>2, <4>3 DEF Taken
    <3>2. \A u \in Requests \ {r} : Renames(u)' /\ Renames(r)'
                                        => ask'[u].body.name # ask'[r].body.name
      BY <1>3 DEF Renames, Indexed
    <3>3. \A u \in Requests : Renames(u)' /\ ask'[u].body.name = ask'[q].body.name => u = q
      <4>1. CASE q = r
        BY <2>1, <3>2, <4>1
      <4>2. CASE q # r
        BY <1>3, <2>1, <3>2, <4>2 DEF IInv, NamesApart
      <4> QED BY <4>1, <4>2
    <3>4. \A p \in Processes : ask'[q].body.name \notin Seeded(p)'
      BY <1>3, <1>4, <2>1 DEF IInv, NamesApart
    <3> QED BY <3>1, <3>3, <3>4
  <2>2. ASSUME NEW p \in Processes
        PROVE  /\ \A n \in Seeded(p)' : ~InTable(n)'
               /\ \A q \in Processes : q # p => Seeded(p)' \cap Seeded(q)' = {}
    BY <1>2, <1>4 DEF IInv, NamesApart
  <2> QED BY <2>1, <2>2 DEF NamesApart
<1>10. SharedNoted'
  <2> SUFFICES ASSUME NEW q \in Requests, NEW u \in Requests, q # u,
                      target'[q] = target'[u], target'[q] # 0,
                      NEW c \in Given(ask'[q]) \cap Given(ask'[u])
               PROVE  <<target'[q], c>> \in shared'
    BY DEF SharedNoted, Given
  <2>1. CASE q # r /\ u # r
    <3>1. ask'[q] = ask[q] /\ ask'[u] = ask[u] /\ target'[q] = target[q] /\ target'[u] = target[u]
      BY <2>1
    <3> QED BY <3>1 DEF IInv, SharedNoted
  <2>2. CASE q = r
    BY <2>2
  <2>3. CASE u = r
    BY <2>3
  <2> QED BY <2>1, <2>2, <2>3
<1>11. AsLoaded'
  <2> SUFFICES ASSUME NEW q \in Requests, target'[q] # 0, Present(target[q])',
                      NEW c \in Given(ask'[q]), <<target'[q], c>> \notin shared'
               PROVE  loaded'[q][c] = rows'[target'[q]][c]
    BY DEF AsLoaded, Given
  <2>1. Present(target'[q])
    BY DEF Present
  <2>2. CASE q = r
    BY <2>1, <2>2
  <2>3. CASE q # r
    <3>1. ask'[q] = ask[q] /\ target'[q] = target[q] /\ loaded'[q] = loaded[q]
      BY <2>3
    <3> QED BY <2>1, <3>1 DEF IInv, AsLoaded
  <2> QED BY <2>2, <2>3
<1>12. SeedingKnows'
  BY <1>2, SeedingKept DEF seeds
<1> QED BY <1>2, <1>5, <1>8, <1>9, <1>10, <1>11, <1>12 DEF IInv

-----------------------------------------------------------------------------
(* One lemma for each action of a request. *)

LEMMA InitInv == Init => IInv
<1> SUFFICES ASSUME Init
             PROVE  IInv
  OBVIOUS
<1>1. \A i \in Ids : ~Present(i) /\ rows[i] = NoRow /\ asked[i] = NoRow
  BY DEF Init, Present
<1>2. RowsOK
  BY <1>1, NoRowColumns DEF Init, RowsOK, Present
<1>3. TypeOK
  <2>1. lastId \in 0 .. MaxId /\ target \in [Requests -> 0 .. MaxId]
        /\ first \in [Processes -> 0 .. MaxId] /\ entry \in [Entries -> 0 .. MaxId \cup {None}]
    BY AskAssumption DEF Init
  <2>2. /\ pc \in [Requests -> {"idle", "loaded", "flushed", "deleting", "done"}]
        /\ ask \in [Requests -> Asks \cup {None}]
        /\ DOMAIN loaded = Requests
        /\ nulled \in [Requests -> SUBSET Entries]
    BY DEF Init
  <2>3. /\ seeding \in [Processes -> {"idle", "read", "flushed"}]
        /\ missing \in [Processes -> SUBSET DOMAIN DemoRules]
        /\ disturbed \in BOOLEAN
    BY DEF Init
  <2> QED BY <1>2, <2>1, <2>2, <2>3 DEF TypeOK
<1>4. \A r \in Requests : Placed(r) /\ ~Fresh(r) /\ ~Renames(r) /\ target[r] = 0
  BY NoRowColumns DEF Init, Placed, Fresh, Renames, NoRow
<1>5. \A p \in Processes : SeedIds(p) = {} /\ Seeded(p) = {} /\ seeding[p] = "idle"
  BY DEF Init, SeedIds, Seeded
<1>6. InsertsApart /\ NamesApart /\ SharedNoted /\ AsLoaded /\ SeedingKnows
  BY <1>4, <1>5 DEF InsertsApart, NamesApart, SharedNoted, AsLoaded, SeedingKnows
<1>7. RowAsAsked
  BY <1>1 DEF RowAsAsked
<1>8. EntriesNameRules
  BY DEF EntriesNameRules, Init, Ids
<1> QED BY <1>3, <1>4, <1>6, <1>7, <1>8 DEF IInv

LEMMA PostInv ==
    ASSUME IInv, NEW r \in Requests, NEW a \in Asks, Post(r, a)
    PROVE  IInv'
<1>1. /\ pc[r] = "idle" /\ a.kind = "post"
      /\ ask' = [ask EXCEPT ![r] = a]
      /\ pc' = [pc EXCEPT ![r] = "loaded"]
      /\ UNCHANGED <<rows, lastId, target, loaded, nulled, seeds, entry, asked, shared, disturbed>>
  BY DEF Post, Goto
<1>2. Placed(r) /\ target[r] = 0 /\ loaded[r] = NoValues
  BY <1>1 DEF IInv, Placed
<1>3. TypeOK'
  <2>1. RowsOK'
    BY <1>1, RowsKept DEF IInv, TypeOK
  <2>2. /\ ask' \in [Requests -> Asks \cup {None}]
        /\ pc' \in [Requests -> {"idle", "loaded", "flushed", "deleting", "done"}]
    BY <1>1 DEF IInv, TypeOK
  <2> QED BY <1>1, <2>1, <2>2 DEF IInv, TypeOK, seeds
<1>4. /\ pc'[r] = "loaded" /\ ask'[r] = a /\ target'[r] = 0 /\ loaded'[r] = NoValues
      /\ \A q \in Requests \ {r} : /\ pc'[q] = pc[q] /\ ask'[q] = ask[q]
                                   /\ target'[q] = target[q] /\ loaded'[q] = loaded[q]
  BY <1>1, <1>2 DEF IInv, TypeOK
<1>5. Placed(r)' /\ ~Fresh(r)' /\ ~Renames(r)'
  BY <1>1, <1>4, NoRowColumns DEF Placed, Fresh, Renames, NoRow
<1>6. lastId <= lastId'
  BY <1>1 DEF IInv, TypeOK
<1> QED BY <1>1, <1>2, <1>3, <1>4, <1>5, <1>6, OpenInv

LEMMA LoadInv ==
    ASSUME IInv, NEW r \in Requests, NEW a \in Asks, NEW i \in Ids, Load(r, a, i)
    PROVE  IInv'
<1>1. /\ pc[r] = "idle" /\ a.kind # "post" /\ Present(i)
      /\ ask' = [ask EXCEPT ![r] = a]
      /\ target' = [target EXCEPT ![r] = i]
      /\ loaded' = [loaded EXCEPT ![r] = rows[i]]
      /\ pc' = [pc EXCEPT ![r] = "loaded"]
      /\ UNCHANGED <<rows, lastId, nulled, seeds, entry, asked, disturbed>>
  BY DEF Load, Goto
<1>2. /\ shared \subseteq shared'
      /\ \A q \in Requests, c \in Given(a) :
            target[q] = i /\ c \in Given(ask[q]) => <<i, c>> \in shared'
  BY DEF Load
<1>3. i \in 1 .. lastId /\ i \in 0 .. MaxId /\ DOMAIN rows[i] = Columns
  BY <1>1, AskAssumption DEF IInv, TypeOK, RowsOK, Ids
<1>4. lastId <= lastId' /\ lastId' \in 0 .. MaxId
  BY <1>1 DEF IInv, TypeOK
<1>5. TypeOK'
  <2>1. RowsOK'
    BY <1>1, <1>2, <1>4, RowsKept
  <2>2. /\ ask' \in [Requests -> Asks \cup {None}]
        /\ pc' \in [Requests -> {"idle", "loaded", "flushed", "deleting", "done"}]
    BY <1>1 DEF IInv, TypeOK
  <2>3. target' \in [Requests -> 0 .. MaxId] /\ DOMAIN loaded' = Requests
    BY <1>1, <1>3 DEF IInv, TypeOK
  <2> QED BY <1>1, <2>1, <2>2, <2>3 DEF IInv, TypeOK, seeds
<1>6. /\ pc'[r] = "loaded" /\ ask'[r] = a /\ target'[r] = i /\ loaded'[r] = rows[i]
      /\ \A q \in Requests \ {r} : /\ pc'[q] = pc[q] /\ ask'[q] = ask[q]
                                   /\ target'[q] = target[q] /\ loaded'[q] = loaded[q]
  BY <1>1 DEF IInv, TypeOK
<1>7. Placed(r)' /\ ~Fresh(r)' /\ ~Renames(r)'
  BY <1>1, <1>3, <1>6 DEF Placed, Fresh, Renames
<1> QED BY <1>1, <1>2, <1>4, <1>5, <1>6, <1>7, OpenInv

LEMMA LoadEntriesInv ==
    ASSUME IInv, NEW r \in Requests, LoadEntries(r)
    PROVE  IInv'
<1>1. /\ pc[r] = "loaded" /\ ask[r].kind = "delete"
      /\ nulled' = [nulled EXCEPT ![r] = {e \in Entries : entry[e] = target[r]}]
      /\ pc' = [pc EXCEPT ![r] = "deleting"]
      /\ UNCHANGED <<rows, lastId, ask, target, loaded, seeds, entry, asked, shared, disturbed>>
  BY DEF LoadEntries, Goto
<1>2. lastId <= lastId' /\ lastId' \in 0 .. MaxId
  BY <1>1 DEF IInv, TypeOK
<1>3. TypeOK'
  <2>1. RowsOK'
    BY <1>1, <1>2, RowsKept
  <2>2. /\ pc' \in [Requests -> {"idle", "loaded", "flushed", "deleting", "done"}]
        /\ nulled' \in [Requests -> SUBSET Entries]
    BY <1>1 DEF IInv, TypeOK
  <2> QED BY <1>1, <2>1, <2>2 DEF IInv, TypeOK, seeds
<1>4. /\ pc'[r] = "deleting"
      /\ \A q \in Requests \ {r} : pc'[q] = pc[q]
  BY <1>1 DEF IInv, TypeOK
<1>5. Placed(r)' /\ ~Fresh(r)' /\ ~Renames(r)'
  <2>1. Placed(r) /\ ~Fresh(r)
    BY <1>1 DEF IInv, Fresh
  <2> QED BY <1>1, <1>4, <2>1 DEF Placed, Fresh, Renames
<1>6. Given(ask[r]) = {}
  BY <1>1 DEF Given
<1> QED BY <1>1, <1>2, <1>3, <1>4, <1>5, <1>6, OpenInv

\* A request that ends without a commit.
LEMMA LeaveAloneInv ==
    ASSUME IInv, NEW r \in Requests, Leave(r),
           UNCHANGED <<rows, lastId, seeds, entry, asked, shared, disturbed>>
    PROVE  IInv'
<1>1. lastId <= lastId' /\ lastId' \in 0 .. MaxId /\ shared \subseteq shared'
  BY DEF IInv, TypeOK
<1>2. /\ RowsOK' /\ RowAsAsked' /\ EntriesNameRules'
      /\ \A i : Present(i)' = Present(i)
      /\ \A n : InTable(n)' = InTable(n)
  BY <1>1, RowsKept
<1>3. TypeOK'
  BY <1>2, LeaveTypes DEF IInv, TypeOK, seeds
<1>4. \A q \in Requests \ {r} : Present(target[q]) => Present(target[q])'
  BY LeaveTypes DEF Present
<1>5. /\ \A q \in Requests : Placed(q)'
      /\ InsertsApart' /\ NamesApart' /\ SharedNoted' /\ AsLoaded'
  BY <1>2, <1>4, LeaveInv
<1>6. SeedingKnows'
  BY <1>2, SeedingKept DEF seeds
<1> QED BY <1>2, <1>3, <1>5, <1>6 DEF IInv

LEMMA FailInv ==
    ASSUME IInv, NEW r \in Requests, Fail(r)
    PROVE  IInv'
  BY LeaveAloneInv DEF Fail

LEMMA FlushInv ==
    ASSUME IInv, NEW r \in Requests, Flush(r)
    PROVE  IInv'
<1> DEFINE names == IF "name" \in Changed(r) THEN {ask[r].body.name} ELSE {}
           post  == ask[r].kind = "post"
<1>1. /\ pc[r] = "loaded" /\ ask[r].kind # "delete" /\ Free(names)
      /\ UNCHANGED <<rows, seeds, entry, asked, shared, disturbed>>
  BY DEF Flush
<1>2. Placed(r) /\ ask[r] \in Asks
  BY <1>1 DEF IInv, Placed
<1>3. CASE Leave(r) /\ UNCHANGED lastId
  BY <1>1, <1>3, LeaveAloneInv
<1>4. CASE /\ ~(\E n \in names : Taken(n, target[r])) /\ (post \/ Present(target[r]))
           /\ Goto(r, "flushed")
           /\ \/ post /\ lastId < MaxId /\ lastId' = lastId + 1
                      /\ target' = [target EXCEPT ![r] = lastId']
              \/ ~post /\ UNCHANGED <<lastId, target>>
           /\ UNCHANGED <<ask, loaded, nulled>>
  <2>1. /\ pc' = [pc EXCEPT ![r] = "flushed"]
        /\ pc \in [Requests -> {"idle", "loaded", "flushed", "deleting", "done"}]
        /\ target \in [Requests -> 0 .. MaxId]
        /\ lastId \in 0 .. MaxId /\ MaxId \in Nat
    BY <1>4, AskAssumption DEF Goto, IInv, TypeOK
  <2>2. /\ pc'[r] = "flushed"
        /\ \A q \in Requests \ {r} : pc'[q] = pc[q] /\ target'[q] = target[q]
    BY <1>4, <2>1
  <2>3. lastId <= lastId' /\ lastId' \in 0 .. MaxId
    BY <1>4, <2>1
  <2>4. target' \in [Requests -> 0 .. MaxId]
    BY <1>4, <2>1, <2>3
  <2>5. TypeOK'
    <3>1. RowsOK'
      BY <1>1, <2>3, RowsKept
    <3>2. pc' \in [Requests -> {"idle", "loaded", "flushed", "deleting", "done"}]
      BY <2>1
    <3> QED BY <1>1, <1>4, <2>3, <2>4, <3>1, <3>2 DEF IInv, TypeOK, seeds
  <2>6. \/ post /\ Fresh(r)' /\ lastId' = lastId + 1 /\ target'[r] = lastId'
        \/ ~post /\ ~Fresh(r)' /\ target'[r] = target[r] /\ Present(target[r])
    BY <1>4, <2>1, <2>2 DEF Fresh
  <2>7. Placed(r)'
    <3>1. Changed(r)' = Changed(r)
      BY <1>4, Kept
    <3>2. target'[r] \in 1 .. lastId'
      <4>1. CASE post
        BY <2>1, <2>6, <4>1
      <4>2. CASE ~post
        <5>1. target[r] \in 1 .. lastId
          BY <1>1, <1>2, <4>2 DEF Placed
        <5> QED BY <2>1, <2>3, <2>6, <4>2, <5>1
      <4> QED BY <4>1, <4>2
    <3>3. ~Fresh(r)' => Present(target[r])'
      BY <1>1, <2>6 DEF Present
    <3>4. DOMAIN loaded'[r] = Columns /\ ask'[r] \in Asks /\ ask'[r] = ask[r]
          /\ (post => loaded'[r] = NoValues)
      BY <1>1, <1>2, <1>4 DEF Placed
    <3>5. post <=> Fresh(r)'
      BY <2>6
    <3> QED BY <1>1, <2>2, <3>2, <3>3, <3>4, <3>5 DEF Placed
  <2>8. ASSUME Renames(r)'
        PROVE  /\ ~Taken(ask'[r].body.name, target'[r])
               /\ \A q \in Requests : ask'[r].body.name \notin Indexed(q)
               /\ \A p \in Processes : ask'[r].body.name \notin Seeded(p)
    <3>1. "name" \in Changed(r) /\ ask'[r] = ask[r]
      BY <1>4, <2>8, Kept DEF Renames
    <3>2. ~Taken(ask[r].body.name, target[r])
      BY <1>4, <3>1
    <3>3. ~Taken(ask[r].body.name, target'[r])
      <4>1. CASE post
        <5>1. target[r] = 0 /\ target[r] \notin Ids
          BY <1>1, <1>2, <4>1 DEF Placed, Fresh, Ids
        <5> QED BY <3>2, <5>1 DEF Taken
      <4>2. CASE ~post
        BY <2>6, <3>2, <4>2
      <4> QED BY <4>1, <4>2
    <3> QED BY <1>1, <3>1, <3>3 DEF Free
  <2>9. ASSUME NEW q \in Requests, q # r, target'[r] = target[q], target'[r] # 0
        PROVE  \A c \in Given(ask'[r]) \cap Given(ask[q]) : <<target'[r], c>> \in shared'
    <3>1. CASE post
      <4>1. target[q] <= lastId
        <5>1. Placed(q) /\ target[q] \in 0 .. MaxId
          BY DEF IInv, TypeOK
        <5> QED BY <2>1, <5>1 DEF Placed, IInv, TypeOK, Fresh
      <4> QED BY <2>1, <2>6, <2>9, <3>1, <4>1
    <3>2. CASE ~post
      BY <1>1, <1>4, <2>6, <2>9, <3>2 DEF IInv, SharedNoted
    <3> QED BY <3>1, <3>2
  <2>10. ASSUME target'[r] # 0, Present(target'[r])
         PROVE  \A c \in Given(ask'[r]) : <<target'[r], c>> \notin shared' =>
                    loaded'[r][c] = rows[target'[r]][c]
    <3>1. CASE post
      <4>1. lastId + 1 \in Ids
        BY <1>4, <2>1, <3>1 DEF Ids
      <4> QED BY <2>1, <2>6, <2>10, <3>1, <4>1 DEF IInv, TypeOK, RowsOK
    <3>2. CASE ~post
      BY <1>1, <1>4, <2>6, <2>10, <3>2 DEF IInv, AsLoaded
    <3> QED BY <3>1, <3>2
  <2>11. \A q \in Requests \ {r} : /\ pc'[q] = pc[q] /\ ask'[q] = ask[q]
                                   /\ target'[q] = target[q] /\ loaded'[q] = loaded[q]
    BY <1>4, <2>2
  <2>12. \/ Fresh(r)' /\ lastId' = lastId + 1 /\ target'[r] = lastId'
         \/ ~Fresh(r)' /\ target'[r] = target[r]
         \/ ~Fresh(r)' /\ Present(target'[r])
    BY <2>6
  <2> HIDE DEF post, names
  <2> QED BY <1>1, <2>3, <2>5, <2>7, <2>8, <2>9, <2>10, <2>11, <2>12, OpenInv
<1> QED BY <1>3, <1>4 DEF Flush

LEMMA CommitInv ==
    ASSUME IInv, NEW r \in Requests, Commit(r)
    PROVE  IInv'
<1> PICK i : i = target[r]
  OBVIOUS
<1>1. /\ pc[r] = "flushed"
      /\ rows' = [rows EXCEPT ![i] = IF Changed(r) = {} THEN @ ELSE Written(r, @)]
      /\ Disturbs(Indexed(r)) /\ Leave(r)
      /\ UNCHANGED <<lastId, seeds, entry, shared>>
      /\ Fresh(r) <=> ask[r].kind = "post"
  BY DEF Commit, Fresh
<1>2. asked' = [asked EXCEPT ![i] =
                   IF ~Fresh(r) /\ @ = NoRow THEN NoRow
                   ELSE [c \in Columns |-> IF c \in Given(ask[r]) THEN ask[r].body[c] ELSE @[c]]]
  BY <1>1 DEF Commit
<1>3. Placed(r) /\ ask[r] \in Asks /\ i \in 1 .. lastId /\ i \in Ids
  <2>1. Placed(r) /\ ask[r] \in Asks /\ i \in 1 .. lastId
    BY <1>1 DEF IInv, Placed
  <2> QED BY <2>1, AskAssumption DEF Ids, IInv, TypeOK
<1>4. RowsOK /\ RowAsAsked
  BY DEF IInv, TypeOK
<1>5. Fresh(r) => /\ Given(ask[r]) = Columns /\ loaded[r] = NoRow /\ rows[i] = NoRow
                  /\ "name" \in Changed(r)
  <2> SUFFICES ASSUME Fresh(r)
               PROVE  /\ Given(ask[r]) = Columns /\ loaded[r] = NoRow /\ rows[i] = NoRow
                      /\ "name" \in Changed(r)
    OBVIOUS
  <2>1. Given(ask[r]) = Columns
    BY <1>1 DEF Given
  <2>2. loaded[r] = NoRow /\ rows[i] = NoRow
    BY <1>1, <1>3 DEF Placed, NoRow, IInv, InsertsApart, Present
  <2>3. ask[r].body.name # None
    BY <1>3, <2>1, GivenName, NoRowColumns
  <2> QED BY <2>1, <2>2, <2>3, ChangedIsGiven, NoRowColumns
<1>6. Renames(r) <=> "name" \in Changed(r)
  BY <1>1 DEF Renames
<1>7. /\ DOMAIN rows' = Ids
      /\ \A j \in Ids \ {i} : rows'[j] = rows[j]
      /\ rows'[i] = IF Changed(r) = {} THEN rows[i] ELSE Written(r, rows[i])
  BY <1>1, <1>3, <1>4 DEF RowsOK
<1>8. /\ DOMAIN rows'[i] = Columns
      /\ \A c \in Columns : rows'[i][c] = IF c \in Changed(r) THEN ask[r].body[c] ELSE rows[i][c]
  <2>1. CASE Changed(r) = {}
    BY <1>3, <1>4, <1>7, <2>1 DEF RowsOK
  <2>2. CASE Changed(r) # {}
    BY <1>7, <2>2, WrittenColumns
  <2> QED BY <2>1, <2>2
<1>9. rows'[i].name = IF Renames(r) THEN ask[r].body.name ELSE rows[i].name
  BY <1>6, <1>8, NoRowColumns
<1>10. Renames(r) => ask[r].body.name # None /\ ~Taken(ask[r].body.name, i)
  BY <1>3, <1>6, ChangedIsGiven, GivenName, NoRowColumns DEF IInv, NamesApart
<1>11. Present(i)' <=> Present(i) \/ Fresh(r)
  <2>1. CASE Renames(r)
    <3>1. rows'[i].name # None
      BY <1>9, <1>10, <2>1
    <3>2. Present(i)'
      BY <3>1, NoRowColumns DEF Present
    <3>3. Present(i) \/ Fresh(r)
      BY <1>1, <1>3, <1>6, <2>1 DEF Placed
    <3> QED BY <3>2, <3>3
  <2>2. CASE ~Renames(r)
    <3>1. ~Fresh(r) /\ (Changed(r) # {} => Present(i))
      BY <1>1, <1>3, <1>5, <1>6, <2>2 DEF Placed
    <3>2. CASE Changed(r) = {}
      BY <1>7, <3>1, <3>2 DEF Present
    <3>3. CASE Changed(r) # {}
      <4>1. Present(i) /\ rows[i].name # None
        BY <1>3, <1>4, <3>1, <3>3 DEF RowsOK
      <4>2. rows'[i].name # None
        BY <1>9, <2>2, <4>1
      <4> QED BY <4>1, <4>2, NoRowColumns DEF Present
    <3> QED BY <3>2, <3>3
  <2> QED BY <2>1, <2>2
<1>12. \A j \in Ids \ {i} : (Present(j)' <=> Present(j)) /\ rows'[j] = rows[j]
  BY <1>7 DEF Present
<1>13. /\ DOMAIN asked' = Ids
       /\ \A j \in Ids \ {i} : asked'[j] = asked[j]
       /\ DOMAIN asked'[i] = Columns
       /\ asked'[i] # NoRow <=> Present(i) \/ Fresh(r)
       /\ asked'[i] # NoRow => asked'[i].name # None
       /\ Present(i) \/ Fresh(r) => \A c \in Columns :
             asked'[i][c] = IF c \in Given(ask[r]) THEN ask[r].body[c] ELSE asked[i][c]
  <2>1. /\ DOMAIN asked' = Ids
        /\ \A j \in Ids \ {i} : asked'[j] = asked[j]
        /\ asked'[i] = IF ~Fresh(r) /\ asked[i] = NoRow THEN NoRow
                       ELSE [c \in Columns |-> IF c \in Given(ask[r])
                                               THEN ask[r].body[c] ELSE asked[i][c]]
    BY <1>2, <1>3, <1>4 DEF RowsOK
  <2>2. asked[i] # NoRow <=> Present(i)
    BY <1>3, <1>4 DEF RowAsAsked
  <2>3. CASE Present(i) \/ Fresh(r)
    <3>1. asked'[i] = [c \in Columns |-> IF c \in Given(ask[r])
                                         THEN ask[r].body[c] ELSE asked[i][c]]
      BY <2>1, <2>2, <2>3
    <3>2. asked'[i].name # None
      <4>1. CASE "name" \in Given(ask[r])
        BY <1>3, <3>1, <4>1, GivenName, NoRowColumns
      <4>2. CASE "name" \notin Given(ask[r])
        <5>1. asked[i] # NoRow /\ asked[i].name # None
          BY <1>3, <1>4, <1>5, <2>2, <2>3, <4>2, NoRowColumns DEF RowsOK
        <5> QED BY <3>1, <4>2, <5>1, NoRowColumns
      <4> QED BY <4>1, <4>2
    <3>3. asked'[i] # NoRow
      BY <3>2, NoRowColumns
    <3> QED BY <2>1, <2>3, <3>1, <3>2, <3>3
  <2>4. CASE ~(Present(i) \/ Fresh(r))
    BY <2>1, <2>2, <2>4, NoRowColumns
  <2> QED BY <2>3, <2>4
<1>14. RowsOK'
  <2>1. ASSUME NEW j \in Ids
        PROVE  /\ DOMAIN rows'[j] = Columns /\ DOMAIN asked'[j] = Columns
               /\ Present(j)' => j <= lastId' /\ rows'[j].name # None
               /\ asked'[j] # NoRow => asked'[j].name # None
    <3>1. CASE j = i
      <4>1. Present(i)' => rows'[i].name # None
        BY <1>3, <1>4, <1>5, <1>6, <1>9, <1>10, <1>11 DEF RowsOK
      <4>2. i <= lastId'
        BY <1>1, <1>3 DEF IInv, TypeOK
      <4> QED BY <1>8, <1>13, <3>1, <4>1, <4>2
    <3>2. CASE j # i
      BY <1>1, <1>4, <1>12, <1>13, <3>2 DEF RowsOK
    <3> QED BY <3>1, <3>2
  <2>2. ASSUME NEW j \in Ids, NEW k \in Ids, Present(j)', rows'[j].name = rows'[k].name
        PROVE  j = k
    <3>1. CASE Renames(r)
      <4>1. \A m \in Ids \ {i} : rows[m].name # ask[r].body.name
        BY <1>10, <3>1 DEF Taken
      <4>2. CASE j # i /\ k # i
        BY <1>4, <1>12, <2>2, <4>2 DEF RowsOK
      <4>3. CASE j = i \/ k = i
        BY <1>9, <1>12, <2>2, <3>1, <4>1, <4>3
      <4> QED BY <4>2, <4>3
    <3>2. CASE ~Renames(r)
      <4>1. \A m \in Ids : rows'[m].name = rows[m].name /\ (Present(m)' => Present(m))
        BY <1>5, <1>6, <1>9, <1>11, <1>12, <3>2
      <4> QED BY <1>4, <2>2, <4>1 DEF RowsOK
    <3> QED BY <3>1, <3>2
  <2> QED BY <1>7, <1>13, <2>1, <2>2 DEF RowsOK
<1>15. \A j \in Ids : Present(j) => Present(j)'
  BY <1>11, <1>12
<1>16. RowAsAsked'
  <2>1. ASSUME NEW j \in Ids
        PROVE  Present(j)' <=> asked'[j] # NoRow
    BY <1>4, <1>11, <1>12, <1>13 DEF RowAsAsked
  <2>2. ASSUME NEW j \in Ids, Present(j)', NEW c \in Columns, <<j, c>> \notin shared'
        PROVE  rows'[j][c] = asked'[j][c]
    <3>1. CASE j # i
      BY <1>1, <1>4, <1>12, <1>13, <2>2, <3>1 DEF RowAsAsked
    <3>2. CASE j = i
      <4>1. asked'[i][c] = IF c \in Given(ask[r]) THEN ask[r].body[c] ELSE asked[i][c]
        BY <1>11, <1>13, <2>2, <3>2
      <4>2. CASE c \in Changed(r)
        BY <1>8, <3>2, <4>1, <4>2, ChangedIsGiven
      <4>3. CASE c \in Given(ask[r]) /\ c \notin Changed(r)
        <5>1. ask[r].body[c] = loaded[r][c]
          BY <4>3, ChangedIsGiven
        <5>2. loaded[r][c] = rows[i][c]
          <6>1. CASE Fresh(r)
            BY <1>5, <6>1
          <6>2. CASE ~Fresh(r)
            <7>1. Present(i) /\ i # 0
              BY <1>3, <1>11, <2>2, <3>2, <6>2 DEF Ids
            <7> QED BY <1>1, <2>2, <3>2, <4>3, <7>1 DEF IInv, AsLoaded
          <6> QED BY <6>1, <6>2
        <5> QED BY <1>8, <3>2, <4>1, <4>3, <5>1, <5>2
      <4>4. CASE c \notin Given(ask[r])
        <5>1. c \notin Changed(r) /\ ~Fresh(r)
          BY <1>5, <4>4, ChangedIsGiven
        <5>2. Present(i)
          BY <1>11, <2>2, <3>2, <5>1
        <5> QED BY <1>1, <1>3, <1>4, <1>8, <2>2, <3>2, <4>1, <4>4, <5>1, <5>2 DEF RowAsAsked
      <4> QED BY <4>2, <4>3, <4>4
    <3> QED BY <3>1, <3>2
  <2> QED BY <2>1, <2>2 DEF RowAsAsked
<1>17. EntriesNameRules'
  BY <1>1, <1>15 DEF IInv, EntriesNameRules
<1>18. disturbed' \in BOOLEAN
  BY <1>1 DEF Disturbs, IInv, TypeOK
<1>19. TypeOK'
  <2>1. lastId' \in 0 .. MaxId /\ entry' \in [Entries -> 0 .. MaxId \cup {None}]
    BY <1>1 DEF IInv, TypeOK
  <2>2. /\ seeding' \in [Processes -> {"idle", "read", "flushed"}]
        /\ missing' \in [Processes -> SUBSET DOMAIN DemoRules]
        /\ first' \in [Processes -> 0 .. MaxId]
    BY <1>1 DEF seeds, IInv, TypeOK
  <2> QED BY <1>1, <1>14, <1>18, <2>1, <2>2, LeaveTypes DEF TypeOK
<1>20. /\ \A q \in Requests : Placed(q)'
       /\ InsertsApart' /\ NamesApart' /\ SharedNoted' /\ AsLoaded'
  <2>1. ASSUME NEW q \in Requests \ {r}, Writes(q, target[q]), Present(target[q])
        PROVE  Present(target[q])'
    <3>1. PICK j : j = target[q]
      OBVIOUS
    <3>2. j \in Ids /\ target'[q] = j
      <4>1. Placed(q) /\ pc[q] = "flushed"
        BY <2>1 DEF IInv, Writes
      <4>2. j \in 1 .. lastId
        BY <3>1, <4>1 DEF Placed, Fresh
      <4> QED BY <1>1, <3>1, <4>2, AskAssumption, LeaveTypes DEF Ids, IInv, TypeOK
    <3>3. Present(j)'
      BY <1>15, <2>1, <3>1, <3>2
    <3> QED BY <3>2, <3>3 DEF Present
  <2>2. \A j \in Ids : Present(j)' => Present(j) \/ (j = target[r] /\ Fresh(r))
    BY <1>11, <1>12
  <2>3. \A j \in Ids : Present(j)' =>
            \/ rows'[j].name = rows[j].name
            \/ j = target[r] /\ Renames(r) /\ rows'[j].name = ask[r].body.name
    BY <1>9, <1>12
  <2>4. \A j \in Ids, c \in Columns : Present(j)' =>
            rows'[j][c] = rows[j][c] \/ (j = target[r] /\ c \in Given(ask[r]))
    BY <1>8, <1>12, ChangedIsGiven
  <2> QED BY <1>1, <1>14, <2>1, <2>2, <2>3, <2>4, LeaveInv
<1>21. SeedingKnows'
  <2>1. ASSUME ~disturbed', \E p \in Processes : seeding[p] # "idle",
               NEW n \in DemoNames
        PROVE  ~disturbed /\ InTable(n)' = InTable(n)
    <3>1. ~disturbed /\ Indexed(r) \cap DemoNames = {}
      BY <1>1, <2>1 DEF Disturbs
    <3>2. Renames(r) => ask[r].body.name # n /\ rows[i].name # n
      BY <3>1 DEF Renames, Indexed
    <3>3. \A j \in Ids : rows'[j].name = n <=> rows[j].name = n
      BY <1>9, <1>12, <3>2
    <3>4. InTable(n)' <=> InTable(n)
      BY <3>3 DEF InTable, Taken
    <3> QED BY <3>1, <3>4 DEF InTable, Taken
  <2>2. ~disturbed' /\ (\E p \in Processes : seeding[p] # "idle") =>
            ~disturbed /\ \A n \in DemoNames : InTable(n)' = InTable(n)
    <3>1. CASE DemoNames = {}
      BY <1>1, <3>1 DEF Disturbs
    <3>2. CASE DemoNames # {}
      BY <2>1, <3>2
    <3> QED BY <3>1, <3>2
  <2> QED BY <1>1, <2>2, SeedingKept DEF seeds
<1> QED BY <1>16, <1>17, <1>19, <1>20, <1>21 DEF IInv

LEMMA CommitDeleteInv ==
    ASSUME IInv, NEW r \in Requests, CommitDelete(r)
    PROVE  IInv'
<1> PICK i : i = target[r]
  OBVIOUS
<1>1. /\ pc[r] = "deleting" /\ \A q \in Requests : ~Writes(q, i)
      /\ rows' = [rows EXCEPT ![i] = NoRow]
      /\ asked' = [asked EXCEPT ![i] = NoRow]
      /\ entry' = [e \in Entries |-> IF e \in nulled[r] \cup OnDelete(i) THEN None ELSE entry[e]]
      /\ Disturbs({rows[i].name}) /\ Leave(r)
      /\ UNCHANGED <<lastId, seeds, shared>>
  BY DEF CommitDelete
<1>2. i \in Ids
  BY <1>1, AskAssumption DEF IInv, Placed, Ids, TypeOK
<1>3. RowsOK /\ RowAsAsked /\ EntriesNameRules
  BY DEF IInv, TypeOK
<1>4. /\ DOMAIN rows' = Ids /\ DOMAIN asked' = Ids
      /\ rows'[i] = NoRow /\ asked'[i] = NoRow
      /\ \A j \in Ids \ {i} : rows'[j] = rows[j] /\ asked'[j] = asked[j]
  BY <1>1, <1>2, <1>3 DEF RowsOK
<1>5. ~Present(i)' /\ \A j \in Ids \ {i} : Present(j)' <=> Present(j)
  BY <1>4 DEF Present
<1>6. RowsOK'
  <2>1. ASSUME NEW j \in Ids
        PROVE  /\ DOMAIN rows'[j] = Columns /\ DOMAIN asked'[j] = Columns
               /\ Present(j)' => j <= lastId' /\ rows'[j].name # None
               /\ asked'[j] # NoRow => asked'[j].name # None
    BY <1>1, <1>3, <1>4, <1>5, NoRowColumns DEF RowsOK
  <2>2. ASSUME NEW j \in Ids, NEW k \in Ids, Present(j)', rows'[j].name = rows'[k].name
        PROVE  j = k
    <3>1. j # i /\ Present(j) /\ rows[j].name # None
      BY <1>3, <1>5, <2>2 DEF RowsOK
    <3>2. k # i
      BY <1>4, <2>2, <3>1, NoRowColumns
    <3> QED BY <1>3, <1>4, <2>2, <3>1, <3>2 DEF RowsOK
  <2> QED BY <1>4, <2>1, <2>2 DEF RowsOK
<1>7. RowAsAsked'
  BY <1>1, <1>3, <1>4, <1>5 DEF RowAsAsked
<1>8. EntriesNameRules'
  <2> SUFFICES ASSUME NEW e \in Entries, entry'[e] \in Ids
               PROVE  Present(entry[e])'
    BY DEF EntriesNameRules
  <2>1. entry'[e] = entry[e] /\ e \notin OnDelete(i)
    BY <1>1, AskAssumption DEF Ids
  <2>2. entry[e] # i /\ Present(entry[e])
    BY <1>3, <2>1 DEF OnDelete, EntriesNameRules
  <2> QED BY <1>4, <2>1, <2>2 DEF Present
<1>9. TypeOK'
  <2>1. lastId' \in 0 .. MaxId /\ entry' \in [Entries -> 0 .. MaxId \cup {None}]
    BY <1>1 DEF IInv, TypeOK
  <2>2. /\ seeding' \in [Processes -> {"idle", "read", "flushed"}]
        /\ missing' \in [Processes -> SUBSET DOMAIN DemoRules]
        /\ first' \in [Processes -> 0 .. MaxId]
    BY <1>1 DEF seeds, IInv, TypeOK
  <2>3. disturbed' \in BOOLEAN
    BY <1>1 DEF Disturbs, IInv, TypeOK
  <2> QED BY <1>1, <1>6, <2>1, <2>2, <2>3, LeaveTypes DEF TypeOK
<1>10. /\ \A q \in Requests : Placed(q)'
       /\ InsertsApart' /\ NamesApart' /\ SharedNoted' /\ AsLoaded'
  <2>1. ASSUME NEW q \in Requests \ {r}, Writes(q, target[q]), Present(target[q])
        PROVE  Present(target[q])'
    <3>1. target[q] \in Ids /\ target'[q] = target[q] /\ target[q] # i
      <4>1. Placed(q) /\ pc[q] = "flushed"
        BY <2>1 DEF IInv, Writes
      <4>2. target[q] \in 1 .. lastId
        BY <4>1 DEF Placed, Fresh
      <4> QED BY <1>1, <2>1, <4>2, AskAssumption, LeaveTypes DEF Ids, IInv, TypeOK
    <3> QED BY <1>4, <2>1, <3>1 DEF Present
  <2>2. \A j \in Ids : Present(j)' => Present(j) /\ rows'[j] = rows[j]
    BY <1>4, <1>5
  <2> QED BY <1>1, <1>6, <2>1, <2>2, LeaveInv
<1>11. SeedingKnows'
  <2>1. ASSUME ~disturbed', \E p \in Processes : seeding[p] # "idle",
               NEW n \in DemoNames
        PROVE  InTable(n)' = InTable(n)
    <3>1. rows[i].name # n /\ n # None
      BY <1>1, <2>1, DemoAssumption DEF Disturbs, DemoNames
    <3>2. \A j \in Ids : rows'[j].name = n <=> rows[j].name = n
      BY <1>4, <3>1, NoRowColumns
    <3>3. InTable(n)' <=> InTable(n)
      BY <3>2 DEF InTable, Taken
    <3> QED BY <3>3 DEF InTable, Taken
  <2>2. ~disturbed' => ~disturbed
    BY <1>1 DEF Disturbs
  <2>3. ~disturbed' /\ (\E p \in Processes : seeding[p] # "idle") =>
            ~disturbed /\ \A n \in DemoNames : InTable(n)' = InTable(n)
    BY <2>1, <2>2
  <2> QED BY <1>1, <2>3, SeedingKept DEF seeds
<1> QED BY <1>7, <1>8, <1>9, <1>10, <1>11 DEF IInv

-----------------------------------------------------------------------------
(* The seedings. *)

\* Steps of a seeding that give no row leave the requests as they are.
LEMMA SeedInv ==
    ASSUME IInv, NEW p \in Processes, UNCHANGED <<rows, asked, entry, handling, shared>>,
           TypeOK', lastId <= lastId',
           \A q \in Processes \ {p} : /\ seeding'[q] = seeding[q] /\ missing'[q] = missing[q]
                                      /\ first'[q] = first[q],
           SeedIds(p)' \subseteq lastId + 1 .. lastId',
           \A n \in Seeded(p)' :
               /\ ~InTable(n)
               /\ \A r \in Requests : n \notin Indexed(r)
               /\ \A q \in Processes \ {p} : n \notin Seeded(q),
           SeedingKnows'
    PROVE  IInv'
<1>1. /\ lastId \in 0 .. MaxId /\ lastId' \in 0 .. MaxId /\ MaxId \in Nat
      /\ \A r \in Requests : Placed(r) /\ target[r] \in 0 .. MaxId
  BY AskAssumption DEF IInv, TypeOK
<1>2. /\ RowsOK' /\ RowAsAsked' /\ EntriesNameRules'
      /\ \A i : Present(i)' = Present(i)
      /\ \A n : InTable(n)' = InTable(n)
  BY <1>1, RowsKept
<1>3. UNCHANGED <<pc, ask, target, loaded>>
  BY DEF handling
<1>4. ASSUME NEW r \in Requests
      PROVE  /\ Given(ask[r])' = Given(ask[r]) /\ Changed(r)' = Changed(r)
             /\ Fresh(r)' = Fresh(r) /\ Renames(r)' = Renames(r)
  BY <1>3, Kept DEF Fresh, Renames
<1>5. \A q \in Processes \ {p} : SeedIds(q)' = SeedIds(q) /\ Seeded(q)' = Seeded(q)
  BY DEF SeedIds, Seeded, Names
<1>6. ASSUME NEW r \in Requests
      PROVE  Placed(r)'
  <2>1. Placed(r) /\ 1 .. lastId \subseteq 1 .. lastId'
    BY <1>1
  <2>2. Present(target[r])' = Present(target[r])
    BY <1>3 DEF Present
  <2> QED BY <1>3, <1>4, <2>1, <2>2 DEF Placed
<1>7. ASSUME NEW r \in Requests
      PROVE  target[r] \in 0 .. lastId
  BY <1>1 DEF Placed, Fresh, IInv, TypeOK
<1>8. InsertsApart'
  <2>1. ASSUME NEW r \in Requests, Fresh(r)'
        PROVE  ~Present(target[r])' /\ \A q \in Requests : target'[q] = target'[r] => q = r
    BY <1>3, <1>4, <2>1 DEF IInv, InsertsApart, Present
  <2>2. ASSUME NEW q \in Processes, NEW i \in SeedIds(q)'
        PROVE  /\ i \in 1 .. lastId' /\ ~Present(i)'
               /\ \A r \in Requests : target'[r] # i
    <3>1. CASE q = p
      <4>1. i \in lastId + 1 .. lastId' /\ i \in Ids
        BY <1>1, <2>2, <3>1 DEF Ids
      <4>2. ~Present(i)
        BY <1>1, <4>1 DEF IInv, TypeOK, RowsOK
      <4> QED BY <1>1, <1>2, <1>3, <1>7, <4>1, <4>2
    <3>2. CASE q # p
      <4>1. i \in 1 .. lastId /\ ~Present(i) /\ \A r \in Requests : target[r] # i
        BY <1>5, <2>2, <3>2 DEF IInv, InsertsApart
      <4> QED BY <1>1, <1>2, <1>3, <4>1
    <3> QED BY <3>1, <3>2
  <2>3. ASSUME NEW q \in Processes, NEW u \in Processes, q # u
        PROVE  SeedIds(q)' \cap SeedIds(u)' = {}
    <3>1. \A v \in Processes \ {p} : SeedIds(v)' \subseteq 1 .. lastId
      BY <1>5 DEF IInv, InsertsApart
    <3>2. (1 .. lastId) \cap (lastId + 1 .. lastId') = {}
      BY <1>1
    <3>3. CASE q # p /\ u # p
      BY <1>5, <2>3, <3>3 DEF IInv, InsertsApart
    <3> QED BY <2>3, <3>1, <3>2, <3>3
  <2> QED BY <2>1, <2>2, <2>3 DEF InsertsApart
<1>9. NamesApart'
  <2>1. ASSUME NEW r \in Requests, Renames(r)'
        PROVE  /\ ~Taken(ask[r].body.name, target[r])'
               /\ \A q \in Requests :
                     Renames(q)' /\ ask'[q].body.name = ask'[r].body.name => q = r
               /\ \A q \in Processes : ask'[r].body.name \notin Seeded(q)'
    <3>1. /\ ~Taken(ask[r].body.name, target[r])
          /\ \A q \in Requests : Renames(q) /\ ask[q].body.name = ask[r].body.name => q = r
          /\ \A q \in Processes : ask[r].body.name \notin Seeded(q)
      BY <1>4, <2>1 DEF IInv, NamesApart
    <3>2. ~Taken(ask[r].body.name, target[r])'
      BY <1>3, <3>1 DEF Taken
    <3>3. ask[r].body.name \in Indexed(r)
      BY <1>4, <2>1 DEF Renames, Indexed
    <3>4. \A q \in Processes : ask'[r].body.name \notin Seeded(q)'
      BY <1>3, <1>5, <3>1, <3>3
    <3> QED BY <1>3, <1>4, <3>1, <3>2, <3>4
  <2>2. ASSUME NEW q \in Processes
        PROVE  /\ \A n \in Seeded(q)' : ~InTable(n)'
               /\ \A u \in Processes : u # q => Seeded(q)' \cap Seeded(u)' = {}
    <3>1. CASE q = p
      BY <1>2, <1>5, <3>1
    <3>2. CASE q # p
      BY <1>2, <1>5, <3>2 DEF IInv, NamesApart
    <3> QED BY <3>1, <3>2
  <2> QED BY <2>1, <2>2 DEF NamesApart
<1>10. SharedNoted'
  BY <1>3, <1>4 DEF IInv, SharedNoted, Given
<1>11. AsLoaded'
  BY <1>3 DEF IInv, AsLoaded, Given, Present
<1> QED BY <1>2, <1>6, <1>8, <1>9, <1>10, <1>11 DEF IInv

LEMMA DemoFinite ==
    ASSUME IInv, NEW p \in Processes
    PROVE  /\ missing[p] \subseteq 1 .. Len(DemoRules)
           /\ IsFiniteSet(missing[p]) /\ Cardinality(missing[p]) \in Nat
<1>1. missing[p] \subseteq 1 .. Len(DemoRules)
  BY DemoAssumption DEF IInv, TypeOK
<1>2. IsFiniteSet(1 .. Len(DemoRules))
  BY DemoAssumption, FS_Interval
<1>3. IsFiniteSet(missing[p])
  BY <1>1, <1>2, FS_Subset
<1> QED BY <1>1, <1>3, FS_CardinalityType

\* The demo rules a process inserts get different ids, all those it has taken.
LEMMA IdsApart ==
    ASSUME IInv, NEW p \in Processes
    PROVE  /\ \A k \in missing[p] :
                 IdOf(p, k) \in first[p] + 1 .. first[p] + Cardinality(missing[p])
           /\ \A j, k \in missing[p] : IdOf(p, j) = IdOf(p, k) => j = k
<1> DEFINE upTo(k) == {j \in missing[p] : j <= k}
<1>1. missing[p] \subseteq Nat /\ IsFiniteSet(missing[p]) /\ Cardinality(missing[p]) \in Nat
      /\ first[p] \in Nat
  BY DemoFinite, DemoAssumption, AskAssumption DEF IInv, TypeOK
<1>2. ASSUME NEW k \in missing[p]
      PROVE  /\ IsFiniteSet(upTo(k)) /\ Cardinality(upTo(k)) \in Nat
             /\ Cardinality(upTo(k)) \in 1 .. Cardinality(missing[p])
             /\ IdOf(p, k) = first[p] + Cardinality(upTo(k))
  <2>1. IsFiniteSet(upTo(k)) /\ Cardinality(upTo(k)) <= Cardinality(missing[p])
    BY <1>1, FS_Subset
  <2>2. Cardinality(upTo(k)) \in Nat /\ Cardinality(upTo(k)) # 0
    <3>1. k \in upTo(k)
      BY <1>1
    <3> QED BY <2>1, <3>1, FS_CardinalityType, FS_EmptySet
  <2> QED BY <1>1, <2>1, <2>2 DEF IdOf
<1>3. ASSUME NEW j \in missing[p], NEW k \in missing[p], j < k
      PROVE  Cardinality(upTo(j)) < Cardinality(upTo(k))
  <2>1. upTo(j) \subseteq upTo(k)
    BY <1>1, <1>3
  <2>2. k \in upTo(k) /\ k \notin upTo(j)
    BY <1>1, <1>3
  <2>3. /\ Cardinality(upTo(j)) <= Cardinality(upTo(k))
        /\ Cardinality(upTo(j)) # Cardinality(upTo(k))
    BY <1>2, <2>1, <2>2, FS_Subset
  <2>4. Cardinality(upTo(j)) \in Nat /\ Cardinality(upTo(k)) \in Nat
    BY <1>2
  <2> HIDE DEF upTo
  <2> QED BY <2>3, <2>4
<1> HIDE DEF upTo
<1>4. \A k \in missing[p] :
          IdOf(p, k) \in first[p] + 1 .. first[p] + Cardinality(missing[p])
  BY <1>1, <1>2
<1>5. ASSUME NEW j \in missing[p], NEW k \in missing[p], IdOf(p, j) = IdOf(p, k)
      PROVE  j = k
  <2>1. Cardinality(upTo(j)) = Cardinality(upTo(k))
    BY <1>1, <1>2, <1>5
  <2> QED BY <1>1, <1>2, <1>3, <2>1
<1> QED BY <1>4, <1>5

LEMMA ReadNamesInv ==
    ASSUME IInv, NEW p \in Processes, ReadNames(p)
    PROVE  IInv'
<1>1. /\ seeding[p] = "idle"
      /\ missing' = [missing EXCEPT ![p] = Absent]
      /\ seeding' = [seeding EXCEPT ![p] = "read"]
      /\ disturbed' = (disturbed /\ \E q \in Processes : seeding[q] # "idle")
      /\ UNCHANGED <<rows, lastId, handling, first, entry, asked, shared>>
  BY DEF ReadNames, Move
<1>2. lastId <= lastId' /\ lastId' \in 0 .. MaxId
  BY <1>1 DEF IInv, TypeOK
<1>3. RowsOK' /\ \A n : InTable(n)' = InTable(n)
  BY <1>1, <1>2, RowsKept
<1>4. /\ missing' \in [Processes -> SUBSET DOMAIN DemoRules]
      /\ seeding' \in [Processes -> {"idle", "read", "flushed"}]
  BY <1>1 DEF Absent, IInv, TypeOK
<1>5. disturbed' \in BOOLEAN
  BY <1>1 DEF IInv, TypeOK
<1>6. TypeOK'
  BY <1>1, <1>2, <1>3, <1>4, <1>5 DEF IInv, TypeOK, handling
<1>7. /\ seeding'[p] = "read" /\ missing'[p] = Absent
      /\ \A q \in Processes \ {p} : /\ seeding'[q] = seeding[q] /\ missing'[q] = missing[q]
                                    /\ first'[q] = first[q]
  BY <1>1 DEF IInv, TypeOK
<1>8. SeedIds(p)' = {} /\ Seeded(p)' = {}
  BY <1>7 DEF SeedIds, Seeded
<1>9. SeedingKnows'
  <2>1. /\ \A n \in DemoNames : InTable(n) \/ n \in Names(p)'
        /\ \A n \in Names(p)' : ~InTable(n)
    BY <1>7 DEF Names, Absent, DemoNames
  <2>2. ASSUME NEW q \in Processes \ {p}, seeding'[q] # "idle", ~disturbed'
        PROVE  /\ \A n \in DemoNames : InTable(n) \/ n \in Names(q)'
               /\ \/ \A n \in Names(q)' : ~InTable(n)
                  \/ \A n \in DemoNames : InTable(n)
    <3>1. ~disturbed /\ seeding[q] # "idle"
      BY <1>1, <1>7, <2>2
    <3>2. Names(q)' = Names(q)
      BY <1>7 DEF Names
    <3> QED BY <3>1, <3>2 DEF IInv, SeedingKnows
  <2> QED BY <1>3, <2>1, <2>2 DEF SeedingKnows
<1> QED BY <1>1, <1>2, <1>6, <1>7, <1>8, <1>9, SeedInv

\* A seeding that ends without a commit.
LEMMA QuitInv ==
    ASSUME IInv, NEW p \in Processes, Quit(p), UNCHANGED <<rows, asked>>
    PROVE  IInv'
<1>1. /\ seeding' = [seeding EXCEPT ![p] = "idle"]
      /\ missing' = [missing EXCEPT ![p] = {}]
      /\ first' = [first EXCEPT ![p] = 0]
      /\ UNCHANGED <<lastId, handling, entry, shared, disturbed>>
  BY DEF Quit, Move
<1>2. lastId <= lastId' /\ lastId' \in 0 .. MaxId
  BY <1>1 DEF IInv, TypeOK
<1>3. RowsOK' /\ \A n : InTable(n)' = InTable(n)
  BY <1>1, <1>2, RowsKept
<1>4. /\ missing' \in [Processes -> SUBSET DOMAIN DemoRules]
      /\ seeding' \in [Processes -> {"idle", "read", "flushed"}]
  BY <1>1 DEF IInv, TypeOK
<1>5. first' \in [Processes -> 0 .. MaxId]
  BY <1>1, AskAssumption DEF IInv, TypeOK
<1>6. TypeOK'
  BY <1>1, <1>2, <1>3, <1>4, <1>5 DEF IInv, TypeOK, handling
<1>7. /\ seeding'[p] = "idle"
      /\ \A q \in Processes \ {p} : /\ seeding'[q] = seeding[q] /\ missing'[q] = missing[q]
                                    /\ first'[q] = first[q]
  BY <1>1 DEF IInv, TypeOK
<1>8. SeedIds(p)' = {} /\ Seeded(p)' = {}
  BY <1>7 DEF SeedIds, Seeded
<1>9. SeedingKnows'
  <2>1. \A q \in Processes \ {p} : Names(q)' = Names(q)
    BY <1>7 DEF Names
  <2> QED BY <1>1, <1>3, <1>7, <2>1 DEF IInv, SeedingKnows
<1> QED BY <1>1, <1>2, <1>6, <1>7, <1>8, <1>9, SeedInv

LEMMA InsertInv ==
    ASSUME IInv, NEW p \in Processes, Insert(p)
    PROVE  IInv'
<1>1. /\ seeding[p] = "read" /\ Free(Names(p))
      /\ \A n \in Names(p) : ~InTable(n)
      /\ lastId + Cardinality(missing[p]) <= MaxId
      /\ first' = [first EXCEPT ![p] = lastId]
      /\ lastId' = lastId + Cardinality(missing[p])
      /\ seeding' = [seeding EXCEPT ![p] = "flushed"]
      /\ UNCHANGED <<rows, handling, missing, entry, asked, shared, disturbed>>
  BY DEF Insert, Move
<1>2. lastId <= lastId' /\ lastId' \in 0 .. MaxId
  BY <1>1, DemoFinite, AskAssumption DEF IInv, TypeOK
<1>3. RowsOK' /\ \A n : InTable(n)' = InTable(n)
  BY <1>1, <1>2, RowsKept
<1>4. /\ first' \in [Processes -> 0 .. MaxId]
      /\ seeding' \in [Processes -> {"idle", "read", "flushed"}]
  BY <1>1 DEF IInv, TypeOK
<1>5. TypeOK'
  BY <1>1, <1>2, <1>3, <1>4 DEF IInv, TypeOK, handling
<1>6. /\ seeding'[p] = "flushed" /\ first'[p] = lastId
      /\ \A q \in Processes \ {p} : /\ seeding'[q] = seeding[q] /\ missing'[q] = missing[q]
                                    /\ first'[q] = first[q]
  BY <1>1 DEF IInv, TypeOK
<1>7. SeedIds(p)' \subseteq lastId + 1 .. lastId' /\ Seeded(p)' = Names(p)
  BY <1>1, <1>6 DEF SeedIds, Seeded, Names
<1>8. \A q \in Processes : Names(q)' = Names(q) /\ (seeding'[q] # "idle" => seeding[q] # "idle")
  BY <1>1, <1>6 DEF Names
<1>9. SeedingKnows'
  BY <1>1, <1>3, <1>8 DEF IInv, SeedingKnows
<1>10. \A n \in Seeded(p)' :
           /\ ~InTable(n)
           /\ \A r \in Requests : n \notin Indexed(r)
           /\ \A q \in Processes \ {p} : n \notin Seeded(q)
  BY <1>1, <1>7 DEF Free
<1> QED BY <1>1, <1>2, <1>5, <1>6, <1>7, <1>9, <1>10, SeedInv

\* A committed seeding has put each of its rules at an id of its own, and left
\* the other rows alone.
LEMMA SeedCommitRows ==
    ASSUME IInv, NEW p \in Processes, SeedCommit(p)
    PROVE  /\ DOMAIN rows' = Ids /\ DOMAIN asked' = Ids
           /\ \A k \in missing[p] : /\ IdOf(p, k) \in SeedIds(p) /\ IdOf(p, k) \in Ids
                                    /\ rows'[IdOf(p, k)] = DemoRules[k]
                                    /\ asked'[IdOf(p, k)] = DemoRules[k]
           /\ \A i \in Ids : \/ \E k \in missing[p] : IdOf(p, k) = i
                             \/ rows'[i] = rows[i] /\ asked'[i] = asked[i]
           /\ \A i \in Ids \ SeedIds(p) : rows'[i] = rows[i] /\ asked'[i] = asked[i]
<1> DEFINE seeded(table) ==
            [i \in Ids |-> IF \E k \in missing[p] : IdOf(p, k) = i
                           THEN DemoRules[CHOOSE k \in missing[p] : IdOf(p, k) = i]
                           ELSE table[i]]
<1>1. seeding[p] = "flushed" /\ rows' = seeded(rows) /\ asked' = seeded(asked)
  BY DEF SeedCommit
<1>2. /\ \A k \in missing[p] : IdOf(p, k) \in SeedIds(p)
      /\ \A j, k \in missing[p] : IdOf(p, j) = IdOf(p, k) => j = k
  BY <1>1, IdsApart DEF SeedIds
<1>3. SeedIds(p) \subseteq Ids
  BY AskAssumption DEF IInv, InsertsApart, TypeOK, Ids
<1>4. ASSUME NEW k \in missing[p]
      PROVE  /\ rows'[IdOf(p, k)] = DemoRules[k]
             /\ asked'[IdOf(p, k)] = DemoRules[k]
  <2>1. PICK i : i = IdOf(p, k)
    OBVIOUS
  <2>2. i \in Ids
    BY <1>2, <1>3, <2>1
  <2>3. (CHOOSE j \in missing[p] : IdOf(p, j) = i) = k
    BY <1>2, <2>1
  <2> QED BY <1>1, <2>1, <2>2, <2>3
<1>5. ASSUME NEW i \in Ids, ~\E k \in missing[p] : IdOf(p, k) = i
      PROVE  rows'[i] = rows[i] /\ asked'[i] = asked[i]
  BY <1>1, <1>5
<1>6. DOMAIN rows' = Ids /\ DOMAIN asked' = Ids
  BY <1>1
<1> QED BY <1>2, <1>3, <1>4, <1>5, <1>6

LEMMA SeedCommitInv ==
    ASSUME IInv, NEW p \in Processes, SeedCommit(p)
    PROVE  IInv'
<1>1. /\ seeding[p] = "flushed"
      /\ seeding' = [seeding EXCEPT ![p] = "idle"]
      /\ missing' = [missing EXCEPT ![p] = {}]
      /\ first' = [first EXCEPT ![p] = 0]
      /\ UNCHANGED <<lastId, handling, entry, shared, disturbed>>
  BY DEF SeedCommit, Quit, Move
<1>2. UNCHANGED <<pc, ask, target, loaded, nulled>>
  BY <1>1 DEF handling
<1> DEFINE ids == {IdOf(p, k) : k \in missing[p]}
<1>3. /\ ids \subseteq SeedIds(p) /\ ids \subseteq Ids
      /\ \A i \in ids : \E k \in missing[p] : IdOf(p, k) = i /\ rows'[i] = DemoRules[k]
                                              /\ asked'[i] = DemoRules[k]
      /\ \A i \in Ids \ ids : rows'[i] = rows[i] /\ asked'[i] = asked[i]
      /\ DOMAIN rows' = Ids /\ DOMAIN asked' = Ids
  BY SeedCommitRows
<1>4. ASSUME NEW k \in missing[p]
      PROVE  /\ DOMAIN DemoRules[k] = Columns
             /\ DemoRules[k].name # None /\ DemoRules[k] # NoRow
             /\ DemoRules[k].name \in Seeded(p) /\ ~InTable(DemoRules[k].name)
  <2>1. k \in DOMAIN DemoRules
    BY DEF IInv, TypeOK
  <2>2. DemoRules[k].name \in Seeded(p)
    BY <1>1 DEF Seeded, Names
  <2> QED BY <2>1, <2>2, DemoAssumption, NoRowColumns DEF IInv, NamesApart
<1>5. \A i \in ids : Present(i)' /\ ~Present(i) /\ i \in 1 .. lastId
  BY <1>3, <1>4 DEF Present, IInv, InsertsApart
<1>6. \A i \in Ids \ ids : Present(i)' <=> Present(i)
  BY <1>3 DEF Present
<1>7. \A i \in Ids : Present(i) => Present(i)'
  BY <1>5, <1>6
<1>8. RowsOK /\ RowAsAsked /\ EntriesNameRules
  BY DEF IInv, TypeOK
<1>9. RowsOK'
  <2>1. ASSUME NEW i \in Ids
        PROVE  /\ DOMAIN rows'[i] = Columns /\ DOMAIN asked'[i] = Columns
               /\ Present(i)' => i <= lastId' /\ rows'[i].name # None
               /\ asked'[i] # NoRow => asked'[i].name # None
    <3>1. CASE i \in ids
      <4>1. i <= lastId'
        BY <1>1, <1>5, <3>1 DEF IInv, TypeOK
      <4> QED BY <1>3, <1>4, <3>1, <4>1
    <3>2. CASE i \notin ids
      BY <1>1, <1>3, <1>6, <1>8, <3>2 DEF RowsOK
    <3> QED BY <3>1, <3>2
  <2>2. ASSUME NEW i \in ids, NEW j \in Ids \ ids
        PROVE  rows'[i].name # rows'[j].name
    <3>1. PICK k \in missing[p] : rows'[i] = DemoRules[k]
      BY <1>3, <2>2
    <3>2. rows[j].name # DemoRules[k].name
      BY <1>4 DEF InTable, Taken, Ids
    <3> QED BY <1>3, <3>1, <3>2
  <2>3. ASSUME NEW i \in ids, NEW j \in ids, rows'[i].name = rows'[j].name
        PROVE  i = j
    <3>1. PICK k \in missing[p] : IdOf(p, k) = i /\ rows'[i] = DemoRules[k]
      BY <1>3, <2>3
    <3>2. PICK l \in missing[p] : IdOf(p, l) = j /\ rows'[j] = DemoRules[l]
      BY <1>3, <2>3
    <3>3. k \in DOMAIN DemoRules /\ l \in DOMAIN DemoRules
      BY DEF IInv, TypeOK
    <3>4. k = l
      BY <2>3, <3>1, <3>2, <3>3, DemoAssumption
    <3> QED BY <3>1, <3>2, <3>4
  <2>4. ASSUME NEW i \in Ids, NEW j \in Ids, Present(i)', rows'[i].name = rows'[j].name
        PROVE  i = j
    <3>1. CASE i \in ids \/ j \in ids
      BY <2>2, <2>3, <2>4, <3>1
    <3>2. CASE i \notin ids /\ j \notin ids
      BY <1>3, <1>6, <1>8, <2>4, <3>2 DEF RowsOK
    <3> QED BY <3>1, <3>2
  <2> QED BY <1>3, <2>1, <2>4 DEF RowsOK
<1>10. RowAsAsked'
  <2>1. ASSUME NEW i \in Ids
        PROVE  /\ Present(i)' <=> asked'[i] # NoRow
               /\ Present(i)' => \A c \in Columns :
                     <<i, c>> \notin shared' => rows'[i][c] = asked'[i][c]
    <3>1. CASE i \in ids
      BY <1>3, <1>4, <1>5, <3>1
    <3>2. CASE i \notin ids
      BY <1>1, <1>3, <1>6, <1>8, <3>2 DEF RowAsAsked
    <3> QED BY <3>1, <3>2
  <2> QED BY <2>1 DEF RowAsAsked
<1>11. EntriesNameRules'
  BY <1>1, <1>7, <1>8 DEF EntriesNameRules
<1>12. TypeOK'
  <2>1. /\ missing' \in [Processes -> SUBSET DOMAIN DemoRules]
        /\ seeding' \in [Processes -> {"idle", "read", "flushed"}]
    BY <1>1 DEF IInv, TypeOK
  <2>2. first' \in [Processes -> 0 .. MaxId]
    BY <1>1, AskAssumption DEF IInv, TypeOK
  <2> QED BY <1>1, <1>2, <1>9, <2>1, <2>2 DEF IInv, TypeOK
<1> HIDE DEF ids
<1>13. ASSUME NEW r \in Requests
       PROVE  /\ Given(ask[r])' = Given(ask[r]) /\ Changed(r)' = Changed(r)
              /\ Fresh(r)' = Fresh(r) /\ Renames(r)' = Renames(r)
  BY <1>2, Kept DEF Fresh, Renames
<1>14. /\ SeedIds(p)' = {} /\ Seeded(p)' = {}
       /\ seeding'[p] = "idle"
       /\ \A q \in Processes \ {p} : /\ SeedIds(q)' = SeedIds(q) /\ Seeded(q)' = Seeded(q)
                                     /\ Names(q)' = Names(q) /\ seeding'[q] = seeding[q]
  <2>1. /\ seeding'[p] = "idle"
        /\ \A q \in Processes \ {p} : /\ seeding'[q] = seeding[q] /\ missing'[q] = missing[q]
                                      /\ first'[q] = first[q]
    BY <1>1 DEF IInv, TypeOK
  <2> QED BY <2>1 DEF SeedIds, Seeded, Names
<1>15. ASSUME NEW r \in Requests
       PROVE  target[r] \notin ids /\ target[r] \in 0 .. MaxId
  BY <1>3 DEF IInv, InsertsApart, TypeOK
<1>16. \A r \in Requests : Placed(r)'
  <2>1. ASSUME NEW r \in Requests
        PROVE  Placed(r)'
    <3>1. Placed(r)
      BY DEF IInv
    <3>2. pc[r] = "flushed" /\ ~Fresh(r) /\ Changed(r) # {} => Present(target[r])'
      <4>1. ASSUME pc[r] = "flushed", ~Fresh(r), Changed(r) # {}
            PROVE  Present(target[r])'
        <5>1. Present(target[r]) /\ target[r] \in 1 .. lastId
          BY <3>1, <4>1 DEF Placed, Fresh
        <5>2. target[r] \in Ids
          BY <5>1, AskAssumption DEF Ids, IInv, TypeOK
        <5> QED BY <1>2, <1>3, <1>15, <5>1, <5>2 DEF Present
      <4> QED BY <4>1
    <3> QED BY <1>1, <1>2, <1>13, <3>1, <3>2 DEF Placed
  <2> QED BY <2>1
<1>17. InsertsApart'
  <2>1. ASSUME NEW r \in Requests, Fresh(r)'
        PROVE  ~Present(target[r])' /\ \A q \in Requests : target'[q] = target'[r] => q = r
    <3>1. Fresh(r) /\ ~Present(target[r]) /\ \A q \in Requests : target[q] = target[r] => q = r
      BY <1>13, <2>1 DEF IInv, InsertsApart
    <3>2. target[r] \in Ids
      BY <3>1, AskAssumption DEF IInv, Placed, Fresh, Ids, TypeOK
    <3>3. rows'[target[r]] = rows[target[r]]
      BY <1>3, <1>15, <3>2
    <3> QED BY <1>2, <3>1, <3>3 DEF Present
  <2>2. ASSUME NEW q \in Processes \ {p}, NEW i \in SeedIds(q)
        PROVE  i \in 1 .. lastId' /\ ~Present(i)' /\ \A r \in Requests : target'[r] # i
    <3>1. i \in 1 .. lastId /\ ~Present(i) /\ i \notin SeedIds(p)
          /\ \A r \in Requests : target[r] # i
      BY DEF IInv, InsertsApart
    <3>2. i \in Ids
      BY <3>1, AskAssumption DEF Ids, IInv, TypeOK
    <3> QED BY <1>1, <1>2, <1>3, <1>6, <3>1, <3>2
  <2>3. \A q, u \in Processes : q # u => SeedIds(q)' \cap SeedIds(u)' = {}
    BY <1>14 DEF IInv, InsertsApart
  <2>4. \A q \in Processes : \A i \in SeedIds(q)' :
            i \in 1 .. lastId' /\ ~Present(i)' /\ \A r \in Requests : target'[r] # i
    BY <1>14, <2>2
  <2> QED BY <2>1, <2>3, <2>4 DEF InsertsApart
<1>18. ASSUME NEW n, n \notin Seeded(p), NEW j \in Ids, rows'[j].name = n
       PROVE  rows[j].name = n
  BY <1>3, <1>4, <1>18
<1>19. NamesApart'
  <2>1. ASSUME NEW r \in Requests, Renames(r)'
        PROVE  /\ ~Taken(ask[r].body.name, target[r])'
               /\ \A q \in Requests :
                     Renames(q)' /\ ask'[q].body.name = ask'[r].body.name => q = r
               /\ \A q \in Processes : ask'[r].body.name \notin Seeded(q)'
    <3>1. /\ ~Taken(ask[r].body.name, target[r])
          /\ \A q \in Requests : Renames(q) /\ ask[q].body.name = ask[r].body.name => q = r
          /\ \A q \in Processes : ask[r].body.name \notin Seeded(q)
      BY <1>13, <2>1 DEF IInv, NamesApart
    <3>2. PICK n : n = ask[r].body.name
      OBVIOUS
    <3>3. \A j \in Ids : rows'[j].name = n => rows[j].name = n
      BY <1>18, <3>1, <3>2
    <3>4. ~Taken(ask[r].body.name, target[r])'
      BY <1>2, <3>1, <3>2, <3>3 DEF Taken
    <3>5. \A q \in Processes : ask'[r].body.name \notin Seeded(q)'
      BY <1>2, <1>14, <3>1
    <3> QED BY <1>2, <1>13, <3>1, <3>4, <3>5
  <2>2. ASSUME NEW q \in Processes \ {p}, NEW n \in Seeded(q)
        PROVE  ~InTable(n)'
    <3>1. n \notin Seeded(p) /\ ~InTable(n)
      BY DEF IInv, NamesApart
    <3> QED BY <1>18, <3>1 DEF InTable, Taken
  <2>3. \A q \in Processes : \A n \in Seeded(q)' : ~InTable(n)'
    BY <1>14, <2>2
  <2>4. \A q, u \in Processes : u # q => Seeded(q)' \cap Seeded(u)' = {}
    BY <1>14 DEF IInv, NamesApart
  <2> QED BY <2>1, <2>3, <2>4 DEF NamesApart
<1>20. SharedNoted'
  BY <1>1, <1>2, <1>13 DEF IInv, SharedNoted, Given
<1>21. AsLoaded'
  <2> SUFFICES ASSUME NEW r \in Requests, target'[r] # 0, Present(target[r])',
                      NEW c \in Given(ask[r])', <<target'[r], c>> \notin shared'
               PROVE  loaded'[r][c] = rows'[target'[r]][c]
    BY DEF AsLoaded
  <2>1. target[r] \in Ids \ ids
    BY <1>2, <1>15, AskAssumption DEF Ids
  <2>2. rows'[target[r]] = rows[target[r]]
    BY <1>3, <2>1
  <2> QED BY <1>1, <1>2, <1>13, <2>1, <2>2 DEF IInv, AsLoaded, Present
<1>22. ~disturbed => \A n \in DemoNames : InTable(n)'
  <2> SUFFICES ASSUME ~disturbed, NEW n \in DemoNames
               PROVE  InTable(n)'
    OBVIOUS
  <2>1. InTable(n) \/ n \in Names(p)
    BY <1>1 DEF IInv, SeedingKnows
  <2>2. CASE InTable(n)
    <3>1. n # None
      BY DemoAssumption DEF DemoNames
    <3>2. PICK j \in Ids : rows[j].name = n /\ Present(j)
      BY <2>2, <3>1, NameHolder DEF InTable, IInv
    <3>3. rows'[j].name = n
      BY <1>3, <1>5, <3>2
    <3> QED BY <3>3 DEF InTable, Taken, Ids
  <2>3. CASE n \in Names(p)
    <3>1. PICK k \in missing[p] : n = DemoRules[k].name
      BY <2>3 DEF Names
    <3>2. PICK j \in Ids : rows'[j] = DemoRules[k]
      BY SeedCommitRows
    <3> QED BY <3>1, <3>2 DEF InTable, Taken, Ids
  <2> QED BY <2>1, <2>2, <2>3
<1>23. SeedingKnows'
  BY <1>1, <1>14, <1>22 DEF SeedingKnows
<1> QED BY <1>10, <1>11, <1>12, <1>16, <1>17, <1>19, <1>20, <1>21, <1>23 DEF IInv

-----------------------------------------------------------------------------
(* The audit log, and every step. *)

LEMMA LogInv ==
    ASSUME IInv, NEW e \in Entries, NEW i \in Ids \cup {None}, Log(e, i)
    PROVE  IInv'
<1>1. /\ entry[e] = 0 /\ entry' = [entry EXCEPT ![e] = i]
      /\ i # None => Present(i)
      /\ UNCHANGED <<rows, lastId, handling, seeds, asked, shared, disturbed>>
  BY DEF Log
<1>2. /\ UNCHANGED <<pc, ask, target, loaded, nulled, seeding, missing, first>>
      /\ UNCHANGED <<rows, lastId, asked, shared, disturbed>>
  BY <1>1 DEF handling, seeds
<1>3. entry' \in [Entries -> 0 .. MaxId \cup {None}]
  BY <1>1 DEF IInv, TypeOK, Ids
<1>4. RowsOK' /\ RowAsAsked'
  BY <1>2 DEF IInv, TypeOK, RowsOK, RowAsAsked, Present
<1>5. TypeOK'
  BY <1>2, <1>3, <1>4 DEF IInv, TypeOK
<1>6. EntriesNameRules'
  <2> SUFFICES ASSUME NEW d \in Entries, entry'[d] \in Ids
               PROVE  Present(entry[d])'
    BY DEF EntriesNameRules
  <2>1. CASE d = e
    <3>1. entry'[d] = i /\ i # None
      BY <1>1, <2>1, AskAssumption DEF IInv, TypeOK, Ids
    <3> QED BY <1>1, <1>2, <3>1 DEF Present
  <2>2. CASE d # e
    <3>1. entry'[d] = entry[d]
      BY <1>1, <2>2 DEF IInv, TypeOK
    <3> QED BY <1>2, <3>1 DEF IInv, EntriesNameRules, Present
  <2> QED BY <2>1, <2>2
<1>7. ASSUME NEW r \in Requests
      PROVE  /\ Given(ask[r])' = Given(ask[r]) /\ Changed(r)' = Changed(r)
             /\ Fresh(r)' = Fresh(r) /\ Renames(r)' = Renames(r) /\ Placed(r)'
  <2>1. /\ Given(ask[r])' = Given(ask[r]) /\ Changed(r)' = Changed(r)
        /\ Fresh(r)' = Fresh(r) /\ Renames(r)' = Renames(r)
    BY <1>2, Kept DEF Fresh, Renames
  <2> QED BY <1>2, <2>1 DEF IInv, Placed, Present
<1>8. InsertsApart'
  BY <1>2, <1>7 DEF IInv, InsertsApart, SeedIds, Present
<1>9. NamesApart'
  BY <1>2, <1>7 DEF IInv, NamesApart, Seeded, Names, InTable, Taken
<1>10. SharedNoted' /\ AsLoaded'
  BY <1>2, <1>7 DEF IInv, SharedNoted, AsLoaded, Given, Present
<1>11. SeedingKnows'
  BY <1>2 DEF IInv, SeedingKnows, Names, InTable, Taken
<1> QED BY <1>4, <1>5, <1>6, <1>7, <1>8, <1>9, <1>10, <1>11 DEF IInv

LEMMA StutterInv ==
    ASSUME IInv, UNCHANGED vars
    PROVE  IInv'
<1>1. /\ UNCHANGED <<rows, lastId, asked, entry, shared, disturbed, handling, seeds>>
      /\ UNCHANGED <<pc, ask, target, loaded, nulled, seeding, missing, first>>
  BY DEF vars, handling, seeds
<1>2. TypeOK' /\ RowAsAsked' /\ EntriesNameRules'
  BY <1>1 DEF IInv, TypeOK, RowsOK, RowAsAsked, EntriesNameRules, Present
<1>3. ASSUME NEW r \in Requests
      PROVE  /\ Given(ask[r])' = Given(ask[r]) /\ Changed(r)' = Changed(r)
             /\ Fresh(r)' = Fresh(r) /\ Renames(r)' = Renames(r) /\ Placed(r)'
  <2>1. /\ Given(ask[r])' = Given(ask[r]) /\ Changed(r)' = Changed(r)
        /\ Fresh(r)' = Fresh(r) /\ Renames(r)' = Renames(r)
    BY <1>1, Kept DEF Fresh, Renames
  <2> QED BY <1>1, <2>1 DEF IInv, Placed, Present
<1>4. InsertsApart'
  BY <1>1, <1>3 DEF IInv, InsertsApart, SeedIds, Present
<1>5. NamesApart'
  BY <1>1, <1>3 DEF IInv, NamesApart, Seeded, Names, InTable, Taken
<1>6. SharedNoted' /\ AsLoaded'
  BY <1>1, <1>3 DEF IInv, SharedNoted, AsLoaded, Given, Present
<1>7. SeedingKnows'
  BY <1>1 DEF IInv, SeedingKnows, Names, InTable, Taken
<1> QED BY <1>2, <1>3, <1>4, <1>5, <1>6, <1>7 DEF IInv

LEMMA NextInv == IInv /\ [Next]_vars => IInv'
<1> SUFFICES ASSUME IInv, [Next]_vars
             PROVE  IInv'
  OBVIOUS
<1>1. ASSUME NEW r \in Requests, NEW a \in Asks, Post(r, a) \/ \E i \in Ids : Load(r, a, i)
      PROVE  IInv'
  BY <1>1, PostInv, LoadInv
<1>2. ASSUME NEW r \in Requests,
             Flush(r) \/ Commit(r) \/ LoadEntries(r) \/ CommitDelete(r) \/ Fail(r)
      PROVE  IInv'
  BY <1>2, FlushInv, CommitInv, LoadEntriesInv, CommitDeleteInv, FailInv
<1>3. ASSUME NEW p \in Processes,
             ReadNames(p) \/ SeedNothing(p) \/ Insert(p) \/ SeedCommit(p) \/ SeedFail(p)
      PROVE  IInv'
  <2>1. CASE SeedNothing(p) \/ SeedFail(p)
    BY <2>1, QuitInv DEF SeedNothing, SeedFail
  <2> QED BY <1>3, <2>1, ReadNamesInv, InsertInv, SeedCommitInv
<1>4. ASSUME NEW e \in Entries, NEW i \in Ids \cup {None}, Log(e, i)
      PROVE  IInv'
  BY <1>4, LogInv
<1>5. CASE UNCHANGED vars
  BY <1>5, StutterInv
<1> QED BY <1>1, <1>2, <1>3, <1>4, <1>5 DEF Next

LEMMA SpecInv == Spec => []IInv
  BY InitInv, NextInv, PTL DEF Spec

-----------------------------------------------------------------------------
(* The theorems. *)

\* Rules have names and no two the same one, whatever transactions and seedings
\* overlap: what the unique index demands follows from the locks alone.
THEOREM TypeCorrect == Spec => []TypeOK
<1>1. IInv => TypeOK
  BY DEF IInv
<1> QED BY <1>1, SpecInv, PTL

\* No update of a rule brings back an old value of a column it was not given,
\* for any columns the requests give and any order of their commits.
THEOREM RowsAsAsked == Spec => []RowAsAsked
<1>1. IInv => RowAsAsked
  BY DEF IInv
<1> QED BY <1>1, SpecInv, PTL

\* No audit entry names a rule that is gone.
THEOREM EntriesNameRulesAlways == Spec => []EntriesNameRules
<1>1. IInv => EntriesNameRules
  BY DEF IInv
<1> QED BY <1>1, SpecInv, PTL

\* seed_demo_rules of any number of processes that start together: each that
\* ends without a failure leaves all demo rules in the table, whether it has
\* inserted them, found them or lost the race, unless an administrator has
\* changed one of them meanwhile.
THEOREM SeedingIsComplete == Spec => SeedingComplete
<1>1. ASSUME IInv, NEW p \in Processes, SeedNothing(p) \/ SeedCommit(p), ~disturbed,
             NEW n \in DemoNames
      PROVE  InTable(n)'
  <2>1. CASE SeedCommit(p)
    <3>1. seeding[p] = "flushed" /\ (InTable(n) \/ n \in Names(p))
      BY <1>1, <2>1 DEF SeedCommit, IInv, SeedingKnows
    <3>2. CASE InTable(n)
      <4>1. n # None
        BY DemoAssumption DEF DemoNames
      <4>2. PICK j \in Ids : rows[j].name = n /\ Present(j)
        BY <1>1, <3>2, <4>1, NameHolder DEF InTable, IInv
      <4>3. j \notin SeedIds(p)
        BY <1>1, <4>2 DEF IInv, InsertsApart
      <4>4. rows'[j].name = n
        BY <1>1, <2>1, <4>2, <4>3, SeedCommitRows
      <4> QED BY <4>4 DEF InTable, Taken, Ids
    <3>3. CASE n \in Names(p)
      <4>1. PICK k \in missing[p] : n = DemoRules[k].name
        BY <3>3 DEF Names
      <4>2. PICK j \in Ids : rows'[j] = DemoRules[k]
        BY <1>1, <2>1, SeedCommitRows
      <4> QED BY <4>1, <4>2 DEF InTable, Taken, Ids
    <3> QED BY <3>1, <3>2, <3>3
  <2>2. CASE SeedNothing(p)
    <3>1. /\ seeding[p] = "read" /\ rows' = rows
          /\ Names(p) = {} \/ \E m \in Names(p) : InTable(m)
      BY <2>2 DEF SeedNothing
    <3>2. /\ InTable(n) \/ n \in Names(p)
          /\ (\A m \in Names(p) : ~InTable(m)) \/ InTable(n)
      BY <1>1, <3>1 DEF IInv, SeedingKnows
    <3>3. InTable(n)
      BY <3>1, <3>2
    <3> QED BY <3>1, <3>3 DEF InTable, Taken
  <2> QED BY <1>1, <2>1, <2>2
<1>2. IInv /\ [Next]_vars =>
          [\A p \in Processes : (SeedNothing(p) \/ SeedCommit(p)) /\ ~disturbed =>
               \A n \in DemoNames : InTable(n)']_vars
  BY <1>1
<1> QED BY <1>2, SpecInv, PTL DEF Spec, SeedingComplete

=============================================================================
