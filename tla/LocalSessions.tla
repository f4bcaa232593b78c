--------------------------- MODULE LocalSessions ---------------------------
(***************************************************************************)
(* The list of local sessions, a page at a time (local_sessions.go).  The  *)
(* rows come from several tables of several databases, of which each is    *)
(* wanted only for as many rows as the page can need; they are merged, and  *)
(* a session found twice is listed once, where its newest row is.          *)
(*                                                                         *)
(* The database orders a table by the first time column it has; the merge  *)
(* orders by the first of its time columns that is set, in milliseconds.   *)
(* A row has `column', the former (0 for NULL), and `other', what the      *)
(* columns after it and the id say; `number' tells its runs apart.         *)
(***************************************************************************)
EXTENDS Integers, Sequences, FiniteSets, SequencesExt

CONSTANTS
    SessionIds,      \* numbers, in the order of the ids
    Tables,          \* names of the tables that are read, in all databases
    Keyed,           \* those whose id is the primary key
    Contents,        \* what a table may hold: sets of rows
    MsFrom,          \* from this number on a time is in milliseconds
    MaxLimit, MaxOffset

TableRow == [id : SessionIds, column : Nat, other : Nat, number : Nat]
OneRowEach(rows) == \A q, r \in rows : q.id = r.id => q = r

ASSUME ListAssumption ==
    /\ SessionIds \subseteq Nat /\ IsFiniteSet(Tables) /\ Keyed \subseteq Tables
    /\ \A rows \in Contents : rows \subseteq TableRow /\ IsFiniteSet(rows)
    /\ MsFrom \in Nat /\ MaxLimit \in Nat /\ MaxOffset \in Nat

VARIABLES rowsOf, wanted, answered
listVars == <<rowsOf, wanted, answered>>

timestampValueToMs(v) == IF v < MsFrom THEN 1000 * v ELSE v
UpdatedAt(r) == IF r.column # 0 THEN timestampValueToMs(r.column) ELSE r.other

\* localSessionFromThreadRow, localSessionFromAutomationRow
Row(id, at) == [id |-> id, at |-> at]
Session(r) == Row(r.id, UpdatedAt(r))
TableRows(table) == {Session(r) : r \in rowsOf[table]}

\* The order of localSessionsQuery; that of rows it does not tell apart is any.
Above(q, r) ==
    \/ q.column > r.column
    \/ q.column = r.column /\ (q.id > r.id \/ (q.id = r.id /\ q.number > r.number))
First(n, rows) == {r \in rows : Cardinality({q \in rows : Above(q, r)}) < n}

\* Mutant of Fetched: the tables are wanted for one page only.
FetchedPage(table, offset, limit) == {Session(r) : r \in First(limit + 1, rowsOf[table])}

\* listLocalSessionsFromDB: ORDER BY ... LIMIT
Fetched(table, offset, limit) ==
    {Session(r) : r \in First(offset + limit + 1, rowsOf[table])}

\* The order of the merge.
Newer(a, b) == a.at > b.at \/ (a.at = b.at /\ a.id > b.id)
Before(r, rows) == Cardinality({q \in rows : Newer(q, r)})
Ordered(rows) ==
    [k \in 1 .. Cardinality(rows) |-> CHOOSE r \in rows : Before(r, rows) = k - 1]

\* The first row of every session, the rows in order.
Deduplicated(rows) ==
    {r \in rows : \A q \in rows : q.id = r.id => ~Newer(q, r)}

\* listLocalSessions
Page(offset, limit) ==
    LET merged == UNION {Fetched(table, offset, limit) : table \in Tables}
        list == Ordered(Deduplicated(merged))
    IN [sessions |-> SubSeq(list, offset + 1,
                            IF offset + limit < Len(list) THEN offset + limit ELSE Len(list)),
        hasMore |-> Len(list) > offset + limit]

NoPage == [sessions |-> << >>, hasMore |-> FALSE]

ListInit ==
    /\ rowsOf \in [Tables -> Contents] /\ \A table \in Keyed : OneRowEach(rowsOf[table])
    /\ wanted = [offset |-> 0, limit |-> 1] /\ answered = NoPage

\* A first page of some length, and from then on the next one.
FirstPage(limit) ==
    /\ answered = NoPage
    /\ wanted' = [offset |-> 0, limit |-> limit] /\ answered' = Page(0, limit)
    /\ UNCHANGED rowsOf

NextPage ==
    /\ answered.hasMore /\ wanted.offset + wanted.limit <= MaxOffset
    /\ wanted' = [wanted EXCEPT !.offset = @ + wanted.limit]
    /\ answered' = Page(wanted.offset + wanted.limit, wanted.limit)
    /\ UNCHANGED rowsOf

ListDone == UNCHANGED listVars
ListNext == (\E limit \in 1 .. MaxLimit : FirstPage(limit)) \/ NextPage \/ ListDone
ListSpec == ListInit /\ [][ListNext]_listVars

------------------------------------------------------------------------------
\* The rows say when in the first time column of their table, in one unit.
InOneUnit(rows) ==
    /\ \A r \in rows : r.column # 0
    /\ (\A r \in rows : r.column < MsFrom) \/ (\A r \in rows : r.column >= MsFrom)

\* A page never promises another one that would be empty, whatever the tables
\* hold.  If no table has two rows for a session, it says truly whether another
\* follows and has as many sessions as it should, in whatever column and unit
\* the times are; and if those are the same throughout each table as well, the
\* pages are the cuts of one list, each session once and newest first, although
\* every table is wanted for a part of its rows only and sessions are in several.
PagesAreCuts ==
    answered # NoPage =>
        LET whole == Ordered(Deduplicated(UNION {TableRows(table) : table \in Tables}))
            from == wanted.offset  to == wanted.offset + wanted.limit
            last == IF to < Len(whole) THEN to ELSE Len(whole)
        IN /\ answered.hasMore => Len(whole) > to
           /\ (\A table \in Tables : OneRowEach(rowsOf[table])) =>
                 /\ answered.hasMore = (Len(whole) > to)
                 /\ Len(answered.sessions) = IF last > from THEN last - from ELSE 0
                 /\ (\A table \in Tables : InOneUnit(rowsOf[table])) =>
                       answered.sessions = SubSeq(whole, from + 1, last)
=============================================================================
