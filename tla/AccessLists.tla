---------------------------- MODULE AccessLists -----------------------------
(***************************************************************************)
(* The blacklist, and the whitelist, which is the same without expiry:     *)
(* rows in PostgreSQL that administrators see, keys in Redis that the      *)
(* middleware obeys.  A handler writes one and then the other; get_db      *)
(* commits the row after the handler has returned.                         *)
(*                                                                         *)
(* Names that RuleCache has too carry the prefix Lists or are others, for  *)
(* CacheProofs extends both.                                               *)
(***************************************************************************)
EXTENDS Naturals

CONSTANTS Admins,     \* requests to the admin API
          Values,     \* what can be listed
          MaxId       \* bound: rows inserted for one value

ASSUME BoundAssumption == MaxId \in Nat

Kinds == {"forever", "timed"}     \* without and with expires_at
NoRow == [id |-> 0, kind |-> "none"]

VARIABLES rows,       \* rows[v]: the committed row of value v
          keys,       \* keys[v]: "none", or the kind of its Redis key
          lastId,     \* the sequence the row ids of v come from
          step,       \* where request a is
          value,      \* the value request a adds or removes
          row,        \* the row it inserts or deletes
          fault,      \* history: values whose two writes a failure tore apart
          doubled     \* history: values with two removals at a time

request == <<step, value, row>>
listVars == <<rows, keys, lastId, request, fault, doubled>>

Adding == {"set", "insert"}
Removing == {"unset", "delete"}

GoOn(a, place) == step' = [step EXCEPT ![a] = place]

ListsInit ==
    /\ rows = [v \in Values |-> NoRow]
    /\ keys = [v \in Values |-> "none"]
    /\ lastId = [v \in Values |-> 0]
    /\ step = [a \in Admins |-> "idle"]
    /\ value \in [Admins -> Values]
    /\ row = [a \in Admins |-> NoRow]
    /\ fault = {}
    /\ doubled = {}

-----------------------------------------------------------------------------
(* add_blacklist, add_whitelist *)

\* The INSERT, flushed but not committed.  The unique index refuses a value
\* that has a row, and makes a second insertion wait for the first.
Add(a, v, kind) ==
    /\ step[a] = "idle"
    /\ rows[v] = NoRow
    /\ \A b \in Admins : step[b] \in Adding => value[b] # v
    /\ lastId[v] < MaxId
    /\ lastId' = [lastId EXCEPT ![v] = @ + 1]
    /\ value' = [value EXCEPT ![a] = v]
    /\ row' = [row EXCEPT ![a] = [id |-> lastId'[v], kind |-> kind]]
    /\ GoOn(a, "set")
    /\ UNCHANGED <<rows, keys, fault, doubled>>

\* Mutant: the deadline is forgotten.
SetKeyForever(a) ==
    /\ step[a] = "set"
    /\ keys' = [keys EXCEPT ![value[a]] = "forever"]
    /\ GoOn(a, "insert")
    /\ UNCHANGED <<rows, lastId, value, row, fault, doubled>>

\* SET, or SETEX for a row that expires.
SetKey(a) ==
    /\ step[a] = "set"
    /\ keys' = [keys EXCEPT ![value[a]] = row[a].kind]
    /\ GoOn(a, "insert")
    /\ UNCHANGED <<rows, lastId, value, row, fault, doubled>>

CommitAdd(a) ==
    /\ step[a] = "insert"
    /\ rows' = [rows EXCEPT ![value[a]] = row[a]]
    /\ GoOn(a, "idle")
    /\ UNCHANGED <<keys, lastId, value, row, fault, doubled>>

-----------------------------------------------------------------------------
(* remove_blacklist, remove_whitelist *)

\* Mutant: no 404 for an entry that is not there.
RemoveAny(a, v) ==
    /\ step[a] = "idle"
    /\ value' = [value EXCEPT ![a] = v]
    /\ row' = [row EXCEPT ![a] = rows[v]]
    /\ doubled' = doubled \cup
          {w \in {v} : \E b \in Admins : step[b] \in Removing /\ value[b] = w}
    /\ GoOn(a, "unset")
    /\ UNCHANGED <<rows, keys, lastId, fault>>

Remove(a, v) ==
    /\ step[a] = "idle"
    /\ rows[v] # NoRow
    /\ value' = [value EXCEPT ![a] = v]
    /\ row' = [row EXCEPT ![a] = rows[v]]
    /\ doubled' = doubled \cup
          {w \in {v} : \E b \in Admins : step[b] \in Removing /\ value[b] = w}
    /\ GoOn(a, "unset")
    /\ UNCHANGED <<rows, keys, lastId, fault>>

Unset(a) ==
    /\ step[a] = "unset"
    /\ keys' = [keys EXCEPT ![value[a]] = "none"]
    /\ GoOn(a, "delete")
    /\ UNCHANGED <<rows, lastId, value, row, fault, doubled>>

\* DELETE by id: of a row that is gone, it deletes nothing.
CommitRemove(a) ==
    /\ step[a] = "delete"
    /\ rows' = [rows EXCEPT ![value[a]] = IF @ = row[a] THEN NoRow ELSE @]
    /\ GoOn(a, "idle")
    /\ UNCHANGED <<keys, lastId, value, row, fault, doubled>>

-----------------------------------------------------------------------------
\* Redis or the database fails the request, or the service stops: get_db rolls
\* back, whatever has been done in Redis.
Abort(a) ==
    /\ step[a] # "idle"
    /\ \/ step[a] \in {"set", "unset"} /\ UNCHANGED <<keys, fault>>
       \/ /\ step[a] \in {"set", "unset"}
          /\ keys' = [keys EXCEPT ![value[a]] =
                         IF step[a] = "set" THEN row[a].kind ELSE "none"]
          /\ fault' = fault \cup {value[a]}
       \/ /\ step[a] \in {"insert", "delete"}
          /\ fault' = fault \cup {value[a]}
          /\ UNCHANGED keys
    /\ GoOn(a, "idle")
    /\ UNCHANGED <<rows, lastId, value, row, doubled>>

ExpireKey(v) ==
    /\ keys[v] = "timed"
    /\ keys' = [keys EXCEPT ![v] = "none"]
    /\ UNCHANGED <<rows, lastId, request, fault, doubled>>

\* Redis loses its data; nothing writes the keys again.
Lose ==
    /\ keys' = [v \in Values |-> "none"]
    /\ fault' = Values
    /\ UNCHANGED <<rows, lastId, request, doubled>>

ListsNext ==
    \/ \E a \in Admins :
          \/ \E v \in Values : (\E kind \in Kinds : Add(a, v, kind)) \/ Remove(a, v)
          \/ SetKey(a) \/ CommitAdd(a) \/ Unset(a) \/ CommitRemove(a) \/ Abort(a)
    \/ \E v \in Values : ExpireKey(v)
    \/ Lose

ListsSpec == ListsInit /\ [][ListsNext]_listVars

-----------------------------------------------------------------------------
Rows == [id : 1 .. MaxId, kind : Kinds]

ListsTypeOK ==
    /\ rows \in [Values -> Rows \cup {NoRow}]
    /\ keys \in [Values -> Kinds \cup {"none"}]
    /\ lastId \in [Values -> 0 .. MaxId]
    /\ step \in [Admins -> Adding \cup Removing \cup {"idle"}]
    /\ value \in [Admins -> Values]
    /\ row \in [Admins -> Rows \cup {NoRow}]
    /\ \A a \in Admins : step[a] # "idle" => row[a] # NoRow
    /\ fault \subseteq Values
    /\ doubled \subseteq Values

Settled(v) == \A a \in Admins : step[a] # "idle" => value[a] # v

\* When no request on a value is under way, what administrators see is what
\* the middleware obeys: a row without a deadline has a key without one, a row
\* with a deadline has at most such a key, and no row has no key; unless a
\* failure fell between the two writes, Redis lost its data, or two removals of
\* the value ran at a time, of which the slower may delete the key of a later
\* row.
RowsAndKeysAgree ==
    \A v \in Values : Settled(v) /\ v \notin fault \cup doubled =>
        CASE rows[v] = NoRow          -> keys[v] = "none"
          [] rows[v].kind = "forever" -> keys[v] = "forever"
          [] rows[v].kind = "timed"   -> keys[v] \in {"timed", "none"}

=============================================================================
