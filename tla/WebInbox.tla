------------------------------ MODULE WebInbox ------------------------------
(***************************************************************************)
(* The web notifications of one user: delivery workers make rows visible,  *)
(* the user pages through them with a cursor and marks them read.          *)
(*                                                                         *)
(* delivered_at is the clock reading of the worker's batch, so rows become *)
(* visible in another order than that of their time stamps, and rows of    *)
(* one batch share one.  A page is one SELECT; requests for the next page  *)
(* come with the cursor of the last.  A mark reads the clock, reads the    *)
(* row without a lock, and writes it in a later statement.                 *)
(***************************************************************************)
EXTENDS Integers, FiniteSets, Sequences

CONSTANTS
    Rows,      \* ids of the user's web deliveries, in the order of the ids
    Marks,     \* requests to mark a row read
    MaxLimit,  \* largest limit a request may ask for
    Horizon    \* bound on the clock

ASSUME RowsAssumption == Rows \subseteq Nat /\ IsFiniteSet(Rows)
ASSUME BoundAssumption == MaxLimit \in Nat \ {0} /\ Horizon \in Nat

Never == -1   \* NULL in a time column
NoRow == -1   \* a request that names no row yet
Time == 0 .. Horizon
Filters == {"all", "unread", "read"}

VARIABLES
    clock,
    stamp,        \* row -> clock of the batch that has claimed it
    deliveredAt,  \* row -> delivered_at; set exactly when the row is delivered
    readAt,       \* row -> read_at
    pc, target, now, seen,  \* per mark: control point, row, its clock, read_at found
    answer,       \* mark -> the read_at it answers with
    filter,       \* status filter of the traversal
    pages,        \* the pages it was given, each a set of rows
    cursor,       \* next_cursor of the last page, in a set of at most one
    listing,      \* "idle", "paging" or "done"
    atStart       \* history: rows that matched the filter at the first page

rowVars == <<stamp, deliveredAt, readAt>>
markVars == <<pc, target, now, seen, answer>>
listVars == <<filter, pages, cursor, listing, atStart>>
vars == <<clock, rowVars, markVars, listVars>>

Init ==
    /\ clock = 0
    /\ stamp = [r \in Rows |-> Never]
    /\ deliveredAt = [r \in Rows |-> Never]
    /\ readAt = [r \in Rows |-> Never]
    /\ pc = [m \in Marks |-> "idle"]
    /\ target = [m \in Marks |-> NoRow]
    /\ now = [m \in Marks |-> 0]
    /\ seen = [m \in Marks |-> Never]
    /\ answer = [m \in Marks |-> Never]
    /\ filter = "all"
    /\ pages = <<>>
    /\ cursor = {}
    /\ listing = "idle"
    /\ atStart = {}

Tick ==
    /\ clock < Horizon
    /\ clock' = clock + 1
    /\ UNCHANGED <<rowVars, markVars, listVars>>

-----------------------------------------------------------------------------
(* Delivery, as far as the inbox sees it *)

\* A batch, or after its lease another one, claims the row.
Claim(r) ==
    /\ deliveredAt[r] = Never
    /\ stamp' = [stamp EXCEPT ![r] = clock]
    /\ UNCHANGED <<clock, deliveredAt, readAt, markVars, listVars>>

\* The outcome is recorded with the clock reading of the batch.
Deliver(r) ==
    /\ stamp[r] # Never
    /\ deliveredAt[r] = Never
    /\ deliveredAt' = [deliveredAt EXCEPT ![r] = stamp[r]]
    /\ UNCHANGED <<clock, stamp, readAt, markVars, listVars>>

Visible(r) == deliveredAt[r] # Never

-----------------------------------------------------------------------------
(* Marking a row read *)

MarkBegin(m, r) ==
    /\ pc[m] = "idle"
    /\ pc' = [pc EXCEPT ![m] = "finding"]
    /\ target' = [target EXCEPT ![m] = r]
    /\ now' = [now EXCEPT ![m] = clock]
    /\ UNCHANGED <<clock, rowVars, seen, answer, listVars>>

\* The row is selected without a lock; a row that is not visible is a 404.
MarkFind(m, r) ==
    /\ pc[m] = "finding"
    /\ target[m] = r
    /\ IF Visible(r)
       THEN /\ pc' = [pc EXCEPT ![m] = "marking"]
            /\ seen' = [seen EXCEPT ![m] = readAt[r]]
       ELSE /\ pc' = [pc EXCEPT ![m] = "failed"]
            /\ UNCHANGED seen
    /\ UNCHANGED <<clock, rowVars, target, now, answer, listVars>>

\* Mutation of AnswerOf: the response carries the time of the request.
AnswerOfNow(m) == now[m]

AnswerOf(m) == IF seen[m] = Never THEN now[m] ELSE seen[m]

\* Flush and commit: the UPDATE names the row by its id only, and is sent only
\* if the row was found unread.
MarkCommit(m, r) ==
    /\ pc[m] = "marking"
    /\ target[m] = r
    /\ readAt' = IF seen[m] = Never THEN [readAt EXCEPT ![r] = now[m]] ELSE readAt
    /\ answer' = [answer EXCEPT ![m] = AnswerOf(m)]
    /\ pc' = [pc EXCEPT ![m] = "done"]
    /\ UNCHANGED <<clock, stamp, deliveredAt, target, now, seen, listVars>>

\* A database call raises, or the process dies: the transaction is rolled back.
MarkFail(m) ==
    /\ pc[m] \in {"finding", "marking"}
    /\ pc' = [pc EXCEPT ![m] = "failed"]
    /\ UNCHANGED <<clock, rowVars, target, now, seen, answer, listVars>>

-----------------------------------------------------------------------------
(* Paging *)

Matches(r, f) ==
    /\ Visible(r)
    /\ f = "unread" => readAt[r] = Never
    /\ f = "read" => readAt[r] # Never

\* ORDER BY delivered_at DESC, id DESC.
Before(a, b) ==
    \/ deliveredAt[a] > deliveredAt[b]
    \/ deliveredAt[a] = deliveredAt[b] /\ a > b

\* Mutations of After: the id does not break ties, in either direction.
AfterTieAgain(r, c) == deliveredAt[r] =< c[1]
AfterTieLost(r, c) == deliveredAt[r] < c[1]

\* Row r is beyond cursor c, a pair of delivered_at and id.
After(r, c) ==
    \/ deliveredAt[r] < c[1]
    \/ deliveredAt[r] = c[1] /\ r < c[2]

\* The first n rows of S.
First(n, S) == {r \in S : Cardinality({q \in S : Before(q, r)}) < n}

CursorAt(page) ==
    {<<deliveredAt[r], r>> : r \in {q \in page : \A p \in page \ {q} : Before(p, q)}}

\* One row more than the limit is asked for, to know whether there is a next one.
ListPage(f, limit) ==
    LET rows == First(limit + 1,
                     {r \in Rows : Matches(r, f) /\ \A c \in cursor : After(r, c)})
        page == First(limit, rows)
        more == Cardinality(rows) > limit
    IN  /\ listing = "idle" \/ (listing = "paging" /\ filter = f)
        /\ filter' = f
        /\ pages' = Append(pages, page)
        /\ cursor' = IF more THEN CursorAt(page) ELSE {}
        /\ listing' = IF more THEN "paging" ELSE "done"
        /\ atStart' = IF listing = "idle" THEN {r \in Rows : Matches(r, f)} ELSE atStart
        /\ UNCHANGED <<clock, rowVars, markVars>>

-----------------------------------------------------------------------------

Next ==
    \/ Tick
    \/ \E r \in Rows : Claim(r) \/ Deliver(r)
    \/ \E m \in Marks :
        \/ \E r \in Rows : MarkBegin(m, r) \/ MarkFind(m, r) \/ MarkCommit(m, r)
        \/ MarkFail(m)
    \/ \E f \in Filters, limit \in 1 .. MaxLimit : ListPage(f, limit)

Spec == Init /\ [][Next]_vars

-----------------------------------------------------------------------------
(* Properties *)

TypeOK ==
    /\ clock \in Time
    /\ stamp \in [Rows -> Time \cup {Never}]
    /\ deliveredAt \in [Rows -> Time \cup {Never}]
    /\ readAt \in [Rows -> Time \cup {Never}]
    /\ pc \in [Marks -> {"idle", "finding", "marking", "done", "failed"}]
    /\ target \in [Marks -> Rows \cup {NoRow}]
    /\ now \in [Marks -> Time]
    /\ seen \in [Marks -> Time \cup {Never}]
    /\ answer \in [Marks -> Time \cup {Never}]
    /\ filter \in Filters
    /\ pages \in Seq(SUBSET Rows)
    /\ cursor \subseteq Time \X Rows
    /\ listing \in {"idle", "paging", "done"}
    /\ atStart \subseteq Rows

\* A traversal never shows a row twice and never goes back, although rows of an
\* equal time stamp straddle pages and rows become visible, read or unread
\* matches while it goes on.
PagesDescend ==
    \A i, j \in 1 .. Len(pages) : i < j =>
        \A a \in pages[i], b \in pages[j] : Before(a, b)

Listed == UNION {pages[i] : i \in 1 .. Len(pages)}

\* A row that matched when the traversal began, and still does, has been shown
\* or is beyond the cursor: at the end, when there is no cursor, it was shown.
NothingSkipped ==
    \A r \in atStart : Matches(r, filter) =>
        r \in Listed \/ \E c \in cursor : After(r, c)

Writers(r) == {m \in Marks : pc[m] = "done" /\ target[m] = r /\ seen[m] = Never}

\* Whatever read_at is stored or was answered is the time of a request that
\* found the row unread, and only a visible row is ever read.
ReadTimeIsAMark ==
    \A r \in Rows :
        /\ readAt[r] # Never =>
            Visible(r) /\ \E w \in Writers(r) : now[w] = readAt[r]
        /\ \A m \in Marks : pc[m] = "done" /\ target[m] = r =>
            \E w \in Writers(r) : now[w] = answer[m]
=============================================================================
