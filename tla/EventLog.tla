------------------------------ MODULE EventLog ------------------------------
(***************************************************************************)
(* The SQLite event log (crates/provider-transport/src/persist.rs): one row*)
(* per event, in a table whose key is INTEGER PRIMARY KEY AUTOINCREMENT.   *)
(***************************************************************************)
EXTENDS Integers, FiniteSets

CONSTANT MaxPage   \* the hard cap on the rows of one replay

ASSUME MaxPagePositive == MaxPage \in Nat \ {0}

VARIABLES
  rows,       \* the table: a set of [cursor, event]
  lastCursor  \* sqlite_sequence: the last cursor ever given out

logVars == <<rows, lastCursor>>

LogInit ==
  /\ rows = {}
  /\ lastCursor = 0

\* latest_cursor: COALESCE(MAX(cursor), 0).
LatestCursor ==
  IF rows = {} THEN 0
  ELSE CHOOSE c \in {r.cursor : r \in rows} : \A r \in rows : r.cursor <= c

Row(cursor, event) == [cursor |-> cursor, event |-> event]

\* Mutant: a plain INTEGER PRIMARY KEY is one more than the largest key left.
InsertReused(event) ==
  /\ rows' = rows \cup {Row(LatestCursor + 1, event)}
  /\ lastCursor' = LatestCursor + 1

\* append: AUTOINCREMENT never gives out a cursor twice, whatever is deleted.
Insert(event) ==
  /\ rows' = rows \cup {Row(lastCursor + 1, event)}
  /\ lastCursor' = lastCursor + 1

PageSize(limit) ==
  IF limit < 1 THEN 1 ELSE IF limit > MaxPage THEN MaxPage ELSE limit

\* replay_since: the first rows after `since`, by ascending cursor.
ReplaySince(since, limit) ==
  {r \in rows :
     /\ since < r.cursor
     /\ Cardinality({q \in rows : since < q.cursor /\ q.cursor < r.cursor})
          < PageSize(limit)}

\* prune, or an operator's own DELETE of old rows.
Prune(keep) ==
  /\ rows' = {r \in rows : LatestCursor - keep < r.cursor}
  /\ UNCHANGED lastCursor
=============================================================================
