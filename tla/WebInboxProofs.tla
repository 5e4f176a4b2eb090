--------------------------- MODULE WebInboxProofs ---------------------------
(***************************************************************************)
(* Proofs about WebInbox, for any set of rows and any number of requests.  *)
(***************************************************************************)
EXTENDS WebInbox, FiniteSetTheorems, TLAPS

\* Null values are no row and no time.
LEMMA Nulls == Never \notin Time /\ NoRow \notin Rows
BY RowsAssumption DEF Never, NoRow, Time

-----------------------------------------------------------------------------
(* Types *)

LEMMA InitType == Init => TypeOK
BY BoundAssumption DEF Init, TypeOK, Time, Never, NoRow, Filters

\* A cursor names a row of the page, and rows of a page are visible.
LEMMA ListPageType ==
    ASSUME TypeOK, NEW f \in Filters, NEW limit, ListPage(f, limit) PROVE TypeOK'
<1> DEFINE matching == {r \in Rows : Matches(r, f) /\ \A c \in cursor : After(r, c)}
           page == First(limit, First(limit + 1, matching))
<1>1. page \subseteq matching
    BY DEF First
<1>2. \A r \in page : r \in Rows /\ deliveredAt[r] \in Time
    BY <1>1 DEF Matches, Visible, TypeOK
<1>3. CursorAt(page) \subseteq Time \X Rows
    <2> SUFFICES ASSUME NEW c \in CursorAt(page) PROVE c \in Time \X Rows
        OBVIOUS
    <2> HIDE DEF matching, page
    <2>1. PICK r \in page : c = <<deliveredAt[r], r>>
        BY DEF CursorAt
    <2> QED BY <1>2, <2>1
<1> HIDE DEF matching, page
<1>4. /\ filter' = f /\ pages' = Append(pages, page)
      /\ cursor' \in {CursorAt(page), {}}
      /\ listing' \in {"paging", "done"}
      /\ atStart' \in {{r \in Rows : Matches(r, f)}, atStart}
      /\ UNCHANGED <<clock, rowVars, markVars>>
    BY DEF ListPage, matching, page
<1>5. page \in SUBSET Rows
    BY <1>2
<1>6. pages' \in Seq(SUBSET Rows)
    BY <1>4, <1>5 DEF TypeOK
<1> QED BY <1>3, <1>4, <1>6 DEF TypeOK, rowVars, markVars

LEMMA NextType == ASSUME TypeOK, [Next]_vars PROVE TypeOK'
<1>1. CASE Tick
    BY <1>1, BoundAssumption DEF Tick, TypeOK, Time, rowVars, markVars, listVars
<1>2. ASSUME NEW r \in Rows, Claim(r) \/ Deliver(r) PROVE TypeOK'
    BY <1>2 DEF Claim, Deliver, TypeOK, markVars, listVars
<1>3. ASSUME NEW m \in Marks, NEW r \in Rows,
             MarkBegin(m, r) \/ MarkFind(m, r) \/ MarkCommit(m, r)
      PROVE  TypeOK'
    BY <1>3
    DEF MarkBegin, MarkFind, MarkCommit, AnswerOf, TypeOK, rowVars, listVars
<1>4. ASSUME NEW m \in Marks, MarkFail(m) PROVE TypeOK'
    BY <1>4 DEF MarkFail, TypeOK, rowVars, listVars
<1>5. CASE UNCHANGED vars
    BY <1>5 DEF vars, rowVars, markVars, listVars, TypeOK
<1> QED BY <1>1, <1>2, <1>3, <1>4, <1>5, ListPageType DEF Next

\* Every variable keeps its type: in particular a cursor names a visible row.
THEOREM InboxTypeCorrect == Spec => []TypeOK
BY InitType, NextType, PTL DEF Spec

-----------------------------------------------------------------------------
(* The time a row was read *)

\* A time of reading: some request of that time found the row unread and is done.
IsMark(r, t) == \E w \in Writers(r) : now[w] = t

\* A request that is about to write found a visible row, and if it found a time
\* there, the time is a mark; nothing was found before.
SeenIsAMark ==
    \A m \in Marks :
        /\ pc[m] \in {"idle", "finding"} => seen[m] = Never
        /\ pc[m] = "marking" =>
            /\ target[m] \in Rows /\ Visible(target[m])
            /\ seen[m] # Never => IsMark(target[m], seen[m])

MarkInv == ReadTimeIsAMark /\ SeenIsAMark

LEMMA InitMark == Init => MarkInv
BY DEF Init, MarkInv, ReadTimeIsAMark, SeenIsAMark, Never

\* A step that changes no request and hides no row.
LEMMA RowsStepMark ==
    ASSUME MarkInv, UNCHANGED <<readAt, pc, target, now, seen, answer>>,
           \A r \in Rows : Visible(r) => Visible(r)'
    PROVE  MarkInv'
<1>1. \A r : Writers(r)' = Writers(r)
    BY DEF Writers
<1>2. ReadTimeIsAMark'
    BY <1>1 DEF MarkInv, ReadTimeIsAMark
<1>3. SeenIsAMark'
    <2> SUFFICES ASSUME NEW m \in Marks, pc'[m] = "marking"
                 PROVE  /\ target'[m] \in Rows /\ Visible(target[m])'
                        /\ seen'[m] # Never => IsMark(target[m], seen[m])'
        BY DEF MarkInv, SeenIsAMark
    <2>1. /\ target[m] \in Rows /\ Visible(target[m])
          /\ seen[m] # Never => IsMark(target[m], seen[m])
        BY DEF MarkInv, SeenIsAMark
    <2>2. IsMark(target[m], seen[m]) => IsMark(target[m], seen[m])'
        BY DEF IsMark, Writers
    <2>3. Visible(target[m])'
        BY <2>1 DEF Visible
    <2> QED BY <2>1, <2>2, <2>3
<1> QED BY <1>2, <1>3 DEF MarkInv

\* A step of request m: it becomes no writer but of its row, and loses nothing.
LEMMA WritersStay ==
    ASSUME TypeOK, NEW m \in Marks, pc[m] # "done",
           NEW point, pc' = [pc EXCEPT ![m] = point],
           \A w \in Marks : w # m => target'[w] = target[w] /\ now'[w] = now[w]
                                                         /\ seen'[w] = seen[w],
           NEW r, NEW w \in Writers(r)
    PROVE  w \in Writers(r)' /\ now'[w] = now[w]
BY DEF Writers, TypeOK

\* A step of request m before it is done.
LEMMA NotDoneMark ==
    ASSUME TypeOK, MarkInv, NEW m \in Marks, pc[m] # "done",
           NEW point \in {"finding", "marking", "failed"}, pc' = [pc EXCEPT ![m] = point],
           UNCHANGED <<rowVars, answer>>,
           \A w \in Marks : w # m => target'[w] = target[w] /\ now'[w] = now[w]
                                                         /\ seen'[w] = seen[w],
           point = "finding" => seen'[m] = Never,
           point = "marking" =>
                /\ target'[m] \in Rows /\ Visible(target'[m])
                /\ seen'[m] \in {Never, readAt[target'[m]]}
    PROVE  MarkInv'
<1>1. \A r : \A w \in Writers(r) : w \in Writers(r)' /\ now'[w] = now[w]
    BY WritersStay
<1>2. \A w \in Marks :
        pc'[w] = IF w = m THEN point ELSE pc[w]
    BY DEF TypeOK
<1>3. ReadTimeIsAMark'
    <2>1. ASSUME NEW r \in Rows, readAt'[r] # Never
          PROVE  Visible(r)' /\ \E w \in Writers(r)' : now'[w] = readAt'[r]
        BY <1>1, <2>1 DEF MarkInv, ReadTimeIsAMark, rowVars, Visible
    <2>2. ASSUME NEW r \in Rows, NEW w \in Marks, pc'[w] = "done", target'[w] = r
          PROVE  \E v \in Writers(r)' : now'[v] = answer'[w]
        <3>1. w # m /\ pc[w] = "done" /\ target[w] = r
            BY <1>2, <2>2
        <3> QED BY <1>1, <3>1 DEF MarkInv, ReadTimeIsAMark
    <2> QED BY <2>1, <2>2 DEF ReadTimeIsAMark
<1>4. SeenIsAMark'
    <2> SUFFICES ASSUME NEW w \in Marks
                 PROVE  /\ pc'[w] \in {"idle", "finding"} => seen'[w] = Never
                        /\ pc'[w] = "marking" =>
                            /\ target'[w] \in Rows /\ Visible(target[w])'
                            /\ seen'[w] # Never => IsMark(target[w], seen[w])'
        BY DEF SeenIsAMark
    <2>1. CASE w # m
        <3>1. pc'[w] = pc[w] /\ target'[w] = target[w] /\ seen'[w] = seen[w]
            BY <1>2, <2>1
        <3>2. ASSUME IsMark(target[w], seen[w]) PROVE IsMark(target[w], seen[w])'
            <4>1. PICK v \in Writers(target[w]) : now[v] = seen[w]
                BY <3>2 DEF IsMark
            <4> QED BY <1>1, <3>1, <4>1 DEF IsMark, Writers
        <3> QED BY <3>1, <3>2 DEF MarkInv, SeenIsAMark, rowVars, Visible
    <2>2. CASE w = m
        <3>1. pc'[m] = point
            BY <1>2
        <3>2. ASSUME point = "marking", seen'[m] # Never
              PROVE  IsMark(target[m], seen[m])'
            <4>1. PICK q \in Rows : q = target'[m]
                BY <3>2
            <4>2. PICK v \in Writers(q) : now[v] = seen'[m]
                BY <3>2, <4>1 DEF MarkInv, ReadTimeIsAMark
            <4>3. v \in Writers(q)' /\ now'[v] = seen'[m]
                BY <1>1, <4>2
            <4> QED BY <4>1, <4>3 DEF IsMark, Writers
        <3> QED BY <2>2, <3>1, <3>2 DEF rowVars, Visible
    <2> QED BY <2>1, <2>2
<1> QED BY <1>3, <1>4 DEF MarkInv

\* A request found its row unread and becomes the writer of its time, or
\* answers a time that is a mark.
LEMMA CommitMark ==
    ASSUME TypeOK, MarkInv, NEW m \in Marks, NEW r \in Rows, MarkCommit(m, r)
    PROVE  MarkInv'
<1>1. /\ pc[m] = "marking" /\ target[m] = r
      /\ pc' = [pc EXCEPT ![m] = "done"]
      /\ readAt' = IF seen[m] = Never THEN [readAt EXCEPT ![r] = now[m]] ELSE readAt
      /\ answer' = [answer EXCEPT ![m] = IF seen[m] = Never THEN now[m] ELSE seen[m]]
      /\ UNCHANGED <<deliveredAt, target, now, seen>>
    BY DEF MarkCommit, AnswerOf
<1>2. \A q : \A w \in Writers(q) : w \in Writers(q)' /\ now'[w] = now[w]
    BY <1>1, WritersStay
<1>3. /\ pc'[m] = "done" /\ \A w \in Marks : w # m => pc'[w] = pc[w] /\ answer'[w] = answer[w]
      /\ answer'[m] = IF seen[m] = Never THEN now[m] ELSE seen[m]
      /\ \A q \in Rows : readAt'[q] = IF q = r /\ seen[m] = Never THEN now[m] ELSE readAt[q]
    BY <1>1 DEF TypeOK
<1>4. \E w \in Writers(r)' : now'[w] = answer'[m]
    <2>1. CASE seen[m] = Never
        <3>1. m \in Writers(r)'
            BY <1>1, <1>3, <2>1 DEF Writers
        <3> QED BY <1>1, <1>3, <2>1, <3>1
    <2>2. CASE seen[m] # Never
        <3>1. \E w \in Writers(r) : now[w] = seen[m]
            BY <1>1, <2>2 DEF MarkInv, SeenIsAMark, IsMark
        <3> QED BY <1>2, <1>3, <2>2, <3>1
    <2> QED BY <2>1, <2>2
<1>5. Visible(r)
    BY <1>1 DEF MarkInv, SeenIsAMark
<1>6. ReadTimeIsAMark'
    <2>1. ASSUME NEW q \in Rows, readAt'[q] # Never
          PROVE  Visible(q)' /\ \E w \in Writers(q)' : now'[w] = readAt'[q]
        <3>1. CASE q = r /\ seen[m] = Never
            BY <1>1, <1>3, <1>4, <1>5, <3>1 DEF Visible
        <3>2. CASE ~(q = r /\ seen[m] = Never)
            <4>1. readAt'[q] = readAt[q]
                BY <1>3, <3>2
            <4>2. Visible(q) /\ \E w \in Writers(q) : now[w] = readAt[q]
                BY <2>1, <4>1 DEF MarkInv, ReadTimeIsAMark
            <4> QED BY <1>1, <1>2, <4>1, <4>2 DEF Visible
        <3> QED BY <3>1, <3>2
    <2>2. ASSUME NEW q \in Rows, NEW w \in Marks, pc'[w] = "done", target'[w] = q
          PROVE  \E v \in Writers(q)' : now'[v] = answer'[w]
        <3>1. CASE w = m
            BY <1>1, <1>4, <2>2, <3>1
        <3>2. CASE w # m
            <4>1. \E v \in Writers(q) : now[v] = answer[w]
                BY <1>1, <1>3, <2>2, <3>2 DEF MarkInv, ReadTimeIsAMark
            <4> QED BY <1>2, <1>3, <3>2, <4>1
        <3> QED BY <3>1, <3>2
    <2> QED BY <2>1, <2>2 DEF ReadTimeIsAMark
<1>7. SeenIsAMark'
    <2> SUFFICES ASSUME NEW w \in Marks
                 PROVE  /\ pc'[w] \in {"idle", "finding"} => seen'[w] = Never
                        /\ pc'[w] = "marking" =>
                            /\ target'[w] \in Rows /\ Visible(target[w])'
                            /\ seen'[w] # Never => IsMark(target[w], seen[w])'
        BY DEF SeenIsAMark
    <2>1. CASE w = m
        BY <1>3, <2>1
    <2>2. CASE w # m
        <3>1. pc'[w] = pc[w] /\ target'[w] = target[w] /\ seen'[w] = seen[w]
            BY <1>1, <1>3, <2>2
        <3>2. ASSUME IsMark(target[w], seen[w]) PROVE IsMark(target[w], seen[w])'
            <4>1. PICK v \in Writers(target[w]) : now[v] = seen[w]
                BY <3>2 DEF IsMark
            <4> QED BY <1>2, <3>1, <4>1 DEF IsMark, Writers
        <3> QED BY <1>1, <3>1, <3>2 DEF MarkInv, SeenIsAMark, Visible
    <2> QED BY <2>1, <2>2
<1> QED BY <1>6, <1>7 DEF MarkInv

\* MarkInv is inductive.
LEMMA NextMark == ASSUME TypeOK, MarkInv, [Next]_vars PROVE MarkInv'
<1>1. CASE UNCHANGED markVars /\ UNCHANGED readAt
           /\ \A r \in Rows : Visible(r) => Visible(r)'
    BY <1>1, RowsStepMark DEF markVars
<1>2. CASE UNCHANGED markVars /\ UNCHANGED rowVars
    BY <1>1, <1>2 DEF rowVars, Visible
<1>3. CASE Tick \/ (\E f \in Filters, limit \in 1 .. MaxLimit : ListPage(f, limit))
           \/ UNCHANGED vars
    <2>1. UNCHANGED markVars /\ UNCHANGED rowVars
        BY <1>3 DEF Tick, ListPage, vars
    <2> QED BY <1>2, <2>1
<1>4. ASSUME NEW r \in Rows, Claim(r) \/ Deliver(r) PROVE MarkInv'
    <2>1. UNCHANGED markVars /\ UNCHANGED readAt
        BY <1>4 DEF Claim, Deliver
    <2>2. \A q \in Rows : Visible(q) => Visible(q)'
        BY <1>4 DEF Claim, Deliver, Visible, TypeOK
    <2> QED BY <1>1, <2>1, <2>2
<1>5. ASSUME NEW m \in Marks, NEW r \in Rows, MarkBegin(m, r) PROVE MarkInv'
    <2>1. /\ pc[m] = "idle" /\ pc' = [pc EXCEPT ![m] = "finding"]
          /\ UNCHANGED <<rowVars, answer, seen>>
          /\ \A w \in Marks : w # m => target'[w] = target[w] /\ now'[w] = now[w]
          /\ seen[m] = Never
        BY <1>5 DEF MarkBegin, TypeOK, MarkInv, SeenIsAMark
    <2> QED BY <2>1, NotDoneMark
<1>6. ASSUME NEW m \in Marks, NEW r \in Rows, MarkFind(m, r) PROVE MarkInv'
    <2>1. pc[m] = "finding" /\ target[m] = r /\ UNCHANGED <<rowVars, answer, target, now>>
        BY <1>6 DEF MarkFind
    <2>2. CASE Visible(r)
        <3>1. /\ pc' = [pc EXCEPT ![m] = "marking"]
              /\ seen'[m] = readAt[r]
              /\ \A w \in Marks : w # m => seen'[w] = seen[w]
            BY <1>6, <2>2 DEF MarkFind, TypeOK
        <3> QED BY <2>1, <2>2, <3>1, NotDoneMark
    <2>3. CASE ~Visible(r)
        <3>1. pc' = [pc EXCEPT ![m] = "failed"] /\ UNCHANGED seen
            BY <1>6, <2>3 DEF MarkFind
        <3> QED BY <2>1, <3>1, NotDoneMark
    <2> QED BY <2>2, <2>3
<1>7. ASSUME NEW m \in Marks, MarkFail(m) PROVE MarkInv'
    <2>1. /\ pc[m] # "done" /\ pc' = [pc EXCEPT ![m] = "failed"]
          /\ UNCHANGED <<rowVars, answer, target, now, seen>>
        BY <1>7 DEF MarkFail
    <2> QED BY <2>1, NotDoneMark
<1> QED BY <1>3, <1>4, <1>5, <1>6, <1>7, CommitMark DEF Next

\* However requests to mark rows overlap, fail and repeat, a stored or answered
\* time is that of a request that found the row unread.
THEOREM ReadTimesAreMarks == Spec => []ReadTimeIsAMark
<1>1. Spec => [](TypeOK /\ MarkInv)
    BY InitType, NextType, InitMark, NextMark, PTL DEF Spec
<1>2. MarkInv => ReadTimeIsAMark
    BY DEF MarkInv
<1> QED BY <1>1, <1>2, PTL
-----------------------------------------------------------------------------
(* The order of the listing *)

\* Rows that a listing may return: visible, so that their time stamps compare.
Ordered(S) == S \subseteq Rows /\ \A r \in S : deliveredAt[r] \in Nat

\* Before is a strict total order on them.
LEMMA BeforeIsTotal ==
    ASSUME NEW S, Ordered(S), NEW a \in S, NEW b \in S
    PROVE  /\ ~Before(a, a)
           /\ Before(a, b) => ~Before(b, a)
           /\ a # b => Before(a, b) \/ Before(b, a)
           /\ \A c \in S : Before(a, b) /\ Before(b, c) => Before(a, c)
<1>1. a \in Nat /\ b \in Nat /\ \A c \in S : c \in Nat /\ deliveredAt[c] \in Nat
    BY RowsAssumption DEF Ordered
<1> QED BY <1>1 DEF Before, Ordered

\* A family of subsets of a finite set has a member that contains no other one.
LEMMA MinimalMember ==
    ASSUME NEW S, IsFiniteSet(S), NEW T, T \subseteq SUBSET S, T # {}
    PROVE  \E X \in T : \A Y \in T : Y \subseteq X => Y = X
<1>1. FiniteSubsetsOf(S) = SUBSET S
    BY FS_FiniteSubsetsOfFinite
<1>2. IsWellFoundedOn(StrictSubsetOrdering(S), SUBSET S)
    BY <1>1, FS_StrictSubsetOrderingWellFounded
<1>3. PICK X \in T : \A Y \in T : <<Y, X>> \notin StrictSubsetOrdering(S)
    BY <1>2, WFMin
<1> QED BY <1>3 DEF StrictSubsetOrdering

\* The rows of S that come before r, and those that come after it.
Ahead(S, r) == {q \in S : Before(q, r)}
Behind(S, r) == {q \in S : Before(r, q)}

\* Rows have a first and a last one.
LEMMA FirstRow ==
    ASSUME NEW S, Ordered(S), S # {} PROVE \E r \in S : Ahead(S, r) = {}
<1>1. IsFiniteSet(S)
    BY FS_Subset, RowsAssumption DEF Ordered
<1>2. {Ahead(S, r) : r \in S} \subseteq SUBSET S
    BY DEF Ahead
<1>3. PICK r \in S : \A q \in S : Ahead(S, q) \subseteq Ahead(S, r) => Ahead(S, q) = Ahead(S, r)
    <2>1. PICK X \in {Ahead(S, r) : r \in S} :
            \A Y \in {Ahead(S, r) : r \in S} : Y \subseteq X => Y = X
        <3> DEFINE family == {Ahead(S, r) : r \in S}
        <3>1. family \subseteq SUBSET S /\ family # {}
            BY <1>2
        <3> HIDE DEF family
        <3>2. \E X \in family : \A Y \in family : Y \subseteq X => Y = X
            BY <1>1, <3>1, MinimalMember
        <3> QED BY <3>2 DEF family
    <2> QED BY <2>1
<1>4. ASSUME NEW q \in Ahead(S, r) PROVE FALSE
    <2>1. q \in S /\ Before(q, r) /\ ~Before(q, q)
        BY <1>4, BeforeIsTotal DEF Ahead
    <2>2. Ahead(S, q) \subseteq Ahead(S, r)
        BY <2>1, BeforeIsTotal DEF Ahead
    <2>3. Ahead(S, q) # Ahead(S, r)
        BY <1>4, <2>1 DEF Ahead
    <2> QED BY <1>3, <2>1, <2>2, <2>3
<1> QED BY <1>4

LEMMA LastRow ==
    ASSUME NEW S, Ordered(S), S # {} PROVE \E r \in S : Behind(S, r) = {}
<1>1. IsFiniteSet(S)
    BY FS_Subset, RowsAssumption DEF Ordered
<1>2. {Behind(S, r) : r \in S} \subseteq SUBSET S
    BY DEF Behind
<1>3. PICK r \in S : \A q \in S : Behind(S, q) \subseteq Behind(S, r) => Behind(S, q) = Behind(S, r)
    <2>1. PICK X \in {Behind(S, r) : r \in S} :
            \A Y \in {Behind(S, r) : r \in S} : Y \subseteq X => Y = X
        <3> DEFINE family == {Behind(S, r) : r \in S}
        <3>1. family \subseteq SUBSET S /\ family # {}
            BY <1>2
        <3> HIDE DEF family
        <3>2. \E X \in family : \A Y \in family : Y \subseteq X => Y = X
            BY <1>1, <3>1, MinimalMember
        <3> QED BY <3>2 DEF family
    <2> QED BY <2>1
<1>4. ASSUME NEW q \in Behind(S, r) PROVE FALSE
    <2>1. q \in S /\ Before(r, q) /\ ~Before(q, q)
        BY <1>4, BeforeIsTotal DEF Behind
    <2>2. Behind(S, q) \subseteq Behind(S, r)
        BY <2>1, BeforeIsTotal DEF Behind
    <2>3. Behind(S, q) # Behind(S, r)
        BY <1>4, <2>1 DEF Behind
    <2> QED BY <1>3, <2>1, <2>2, <2>3
<1> QED BY <1>4

\* The cursor of a page that has rows is its last row.
LEMMA CursorIsLast ==
    ASSUME NEW page, Ordered(page), page # {}
    PROVE  \E r \in page : /\ CursorAt(page) = {<<deliveredAt[r], r>>}
                           /\ \A q \in page \ {r} : Before(q, r)
<1>1. PICK r \in page : Behind(page, r) = {}
    BY LastRow
<1>2. \A q \in page \ {r} : Before(q, r)
    BY <1>1, BeforeIsTotal DEF Behind
<1>3. {q \in page : \A p \in page \ {q} : Before(p, q)} = {r}
    BY <1>2, BeforeIsTotal
<1> QED BY <1>2, <1>3 DEF CursorAt

\* The first n rows of S: with a row, all that come before it; some, if there are
\* some; and all, if they are fewer than n.
LEMMA FirstRows ==
    ASSUME NEW S, Ordered(S), NEW n \in Nat \ {0}
    PROVE  /\ First(n, S) \subseteq S
           /\ \A r \in First(n, S), q \in S : Before(q, r) => q \in First(n, S)
           /\ S # {} => First(n, S) # {}
           /\ Cardinality(First(n, S)) < n => First(n, S) = S
<1>1. IsFiniteSet(S)
    BY FS_Subset, RowsAssumption DEF Ordered
<1>2. First(n, S) = {r \in S : Cardinality(Ahead(S, r)) < n}
    BY DEF First, Ahead
<1>3. \A r : IsFiniteSet(Ahead(S, r)) /\ Cardinality(Ahead(S, r)) \in Nat
    BY <1>1, FS_Subset, FS_CardinalityType DEF Ahead
<1>4. ASSUME NEW r \in First(n, S), NEW q \in S, Before(q, r) PROVE q \in First(n, S)
    <2>1. Ahead(S, q) \subseteq Ahead(S, r)
        BY <1>2, <1>4, BeforeIsTotal DEF Ahead
    <2>2. Cardinality(Ahead(S, q)) =< Cardinality(Ahead(S, r))
        BY <1>3, <2>1, FS_Subset
    <2> QED BY <1>2, <1>3, <2>2
<1>5. ASSUME S # {} PROVE First(n, S) # {}
    <2>1. PICK r \in S : Ahead(S, r) = {}
        BY <1>5, FirstRow
    <2> QED BY <1>2, <2>1, FS_EmptySet
<1>6. ASSUME Cardinality(First(n, S)) < n PROVE First(n, S) = S
    <2> SUFFICES ASSUME First(n, S) # S PROVE FALSE
        OBVIOUS
    <2> DEFINE rest == S \ First(n, S)
    <2>1. rest # {} /\ Ordered(rest)
        BY <1>2 DEF Ordered
    <2>2. PICK r \in rest : Ahead(rest, r) = {}
        BY <2>1, FirstRow
    <2>3. Ahead(S, r) \subseteq First(n, S)
        BY <2>2 DEF Ahead
    <2>4. First(n, S) \subseteq S
        BY <1>2
    <2>5. IsFiniteSet(First(n, S)) /\ Cardinality(First(n, S)) \in Nat
        BY <1>1, <2>4, FS_Subset, FS_CardinalityType
    <2>6. Cardinality(Ahead(S, r)) =< Cardinality(First(n, S))
        BY <2>3, <2>5, FS_Subset
    <2>7. r \in S /\ r \notin First(n, S)
        OBVIOUS
    <2>8. ~(Cardinality(Ahead(S, r)) < n)
        BY <1>2, <2>7
    <2> QED BY <1>3, <1>6, <2>5, <2>6, <2>8
<1> QED BY <1>2, <1>4, <1>5, <1>6

-----------------------------------------------------------------------------
(* One page *)

\* What a SELECT of limit + 1 rows makes of the rows S that match: a page whose
\* rows come before all others, and all the rows if there is no next page.
LEMMA OnePage ==
    ASSUME NEW S, Ordered(S), NEW limit \in Nat \ {0}
    PROVE  LET rows == First(limit + 1, S)
               page == First(limit, rows)
           IN  /\ Ordered(page) /\ page \subseteq S
               /\ Cardinality(rows) > limit => page # {}
               /\ ~(Cardinality(rows) > limit) => page = S
               /\ \A r \in page, q \in S \ page : Before(r, q)
<1> DEFINE rows == First(limit + 1, S)
           page == First(limit, rows)
<1>1. /\ rows \subseteq S
      /\ \A r \in rows, q \in S : Before(q, r) => q \in rows
      /\ Cardinality(rows) < limit + 1 => rows = S
    BY FirstRows
<1>2. Ordered(rows) /\ IsFiniteSet(rows) /\ Cardinality(rows) \in Nat
    BY <1>1, FS_Subset, FS_CardinalityType, RowsAssumption DEF Ordered
<1> HIDE DEF rows
<1>3. /\ page \subseteq rows
      /\ \A r \in page, q \in rows : Before(q, r) => q \in page
      /\ rows # {} => page # {}
    BY <1>2, FirstRows
<1>4. Ordered(page) /\ page \subseteq S
    BY <1>1, <1>2, <1>3 DEF Ordered
<1>5. Cardinality(rows) > limit => page # {}
    BY <1>2, <1>3, FS_EmptySet
<1>6. ASSUME ~(Cardinality(rows) > limit) PROVE page = S
    <2>1. rows = S
        BY <1>1, <1>2, <1>6
    <2>2. ASSUME NEW r \in rows PROVE r \in page
        <3>1. Ahead(rows, r) \subseteq rows \ {r}
            BY <1>2, BeforeIsTotal DEF Ahead
        <3>2. IsFiniteSet(rows \ {r}) /\ Cardinality(rows \ {r}) = Cardinality(rows) - 1
            BY <1>2, <2>2, FS_RemoveElement
        <3>3. Cardinality(Ahead(rows, r)) =< Cardinality(rows) - 1
            BY <3>1, <3>2, FS_Subset
        <3>4. IsFiniteSet(Ahead(rows, r)) /\ Cardinality(Ahead(rows, r)) \in Nat
            BY <3>1, <3>2, FS_Subset, FS_CardinalityType
        <3>5. Cardinality(Ahead(rows, r)) < limit
            BY <1>2, <1>6, <3>3, <3>4
        <3> QED BY <2>2, <3>5 DEF First, Ahead
    <2> QED BY <1>3, <2>1, <2>2
<1>7. ASSUME NEW r \in page, NEW q \in S \ page PROVE Before(r, q)
    <2>1. r \in rows /\ r \in S /\ r # q
        BY <1>3, <1>4, <1>7
    <2>2. ~Before(q, r)
        BY <1>1, <1>3, <2>1
    <2> QED BY <2>1, <2>2, BeforeIsTotal
<1> QED BY <1>4, <1>5, <1>6, <1>7 DEF rows

-----------------------------------------------------------------------------
(* The traversal *)

\* The cursor is the last row listed so far; without one there is no next page.
CursorInv ==
    /\ listing = "idle" => pages = <<>> /\ cursor = {}
    /\ listing = "paging" => \E r \in Rows :
        /\ Visible(r)
        /\ cursor = {<<deliveredAt[r], r>>}
        /\ \A i \in 1 .. Len(pages) : \A a \in pages[i] : a = r \/ Before(a, r)

PagesInv ==
    /\ \A i \in 1 .. Len(pages) : \A a \in pages[i] : Visible(a)
    /\ PagesDescend
    /\ CursorInv

\* A row of the first page's time is visible for good, and while it matches it
\* was shown or is to come; a row that was read stays so.
SkipInv ==
    /\ \A r \in atStart : Visible(r) /\ (filter = "read" => readAt[r] # Never)
    /\ NothingSkipped

TraversalInv == PagesInv /\ SkipInv

LEMMA InitTraversal == Init => TraversalInv
BY DEF Init, TraversalInv, PagesInv, PagesDescend, CursorInv, SkipInv, NothingSkipped

\* A step other than a page: rows that are visible keep their time stamp, and
\* rows that were read stay read.
LEMMA RowsStepTraversal ==
    ASSUME TypeOK, TraversalInv, UNCHANGED listVars,
           \A r \in Rows : Visible(r) => deliveredAt'[r] = deliveredAt[r],
           \A r \in Rows : readAt[r] # Never => readAt'[r] # Never
    PROVE  TraversalInv'
<1>1. /\ UNCHANGED <<filter, pages, cursor, listing, atStart>>
      /\ \A i \in 1 .. Len(pages) : pages[i] \subseteq Rows
    BY DEF listVars, TypeOK
<1>2. \A r \in Rows : Visible(r) => Visible(r)'
    BY DEF Visible
<1>3. \A a, b \in Rows : Visible(a) /\ Visible(b) /\ Before(a, b) => Before(a, b)'
    BY DEF Before
<1>4. (\A i \in 1 .. Len(pages) : \A a \in pages[i] : Visible(a))'
    BY <1>1, <1>2 DEF TraversalInv, PagesInv
<1>5. PagesDescend'
    BY <1>1, <1>3 DEF TraversalInv, PagesInv, PagesDescend
<1>6. CursorInv'
    <2>1. ASSUME listing = "paging"
          PROVE  \E r \in Rows :
                    /\ Visible(r)'
                    /\ cursor = {<<deliveredAt'[r], r>>}
                    /\ \A i \in 1 .. Len(pages) : \A a \in pages[i] : a = r \/ Before(a, r)'
        <3>1. PICK r \in Rows :
                /\ Visible(r)
                /\ cursor = {<<deliveredAt[r], r>>}
                /\ \A i \in 1 .. Len(pages) : \A a \in pages[i] : a = r \/ Before(a, r)
            BY <2>1 DEF TraversalInv, PagesInv, CursorInv
        <3>2. \A i \in 1 .. Len(pages) : \A a \in pages[i] : a = r \/ Before(a, r)'
            BY <1>1, <1>3, <3>1 DEF TraversalInv, PagesInv
        <3> QED BY <1>2, <3>1, <3>2
    <2> QED BY <1>1, <2>1 DEF TraversalInv, PagesInv, CursorInv
<1>7. SkipInv'
    <2>1. \A r \in atStart : Visible(r)' /\ (filter' = "read" => readAt'[r] # Never)
        BY <1>1, <1>2 DEF TraversalInv, SkipInv, TypeOK
    <2>2. ASSUME NEW r \in atStart, Matches(r, filter)'
          PROVE  r \in Listed \/ \E c \in cursor : After(r, c)'
        <3>1. r \in Rows /\ Visible(r) /\ (filter = "read" => readAt[r] # Never)
            BY DEF TraversalInv, SkipInv, TypeOK
        <3>2. Matches(r, filter)
            BY <1>1, <2>2, <3>1 DEF Matches
        <3>3. r \in Listed \/ \E c \in cursor : After(r, c)
            BY <3>2 DEF TraversalInv, SkipInv, NothingSkipped
        <3> QED BY <3>1, <3>3 DEF After
    <2> QED BY <1>1, <2>1, <2>2 DEF SkipInv, NothingSkipped, Listed
<1> QED BY <1>4, <1>5, <1>6, <1>7 DEF TraversalInv, PagesInv

LEMMA ListPageTraversal ==
    ASSUME TypeOK, TraversalInv,
           NEW f \in Filters, NEW limit \in 1 .. MaxLimit, ListPage(f, limit)
    PROVE  TraversalInv'
<1> DEFINE matching == {r \in Rows : Matches(r, f) /\ \A c \in cursor : After(r, c)}
           rows == First(limit + 1, matching)
           page == First(limit, rows)
           more == Cardinality(rows) > limit
<1>1. /\ listing = "idle" \/ (listing = "paging" /\ filter = f)
      /\ filter' = f
      /\ pages' = Append(pages, page)
      /\ cursor' = IF more THEN CursorAt(page) ELSE {}
      /\ listing' = IF more THEN "paging" ELSE "done"
      /\ atStart' = IF listing = "idle" THEN {r \in Rows : Matches(r, f)} ELSE atStart
      /\ UNCHANGED <<deliveredAt, readAt>>
    BY DEF ListPage, rowVars
<1>2. limit \in Nat \ {0}
    BY BoundAssumption
<1>3. \A r \in Rows : Visible(r) <=> deliveredAt[r] \in Nat
    BY DEF Visible, Never, TypeOK, Time
<1>4. matching \subseteq Rows /\ Ordered(matching)
    BY <1>3 DEF Matches, Ordered
<1>5. /\ Ordered(page) /\ page \subseteq matching
      /\ more => page # {}
      /\ ~more => page = matching
      /\ \A r \in page, q \in matching \ page : Before(r, q)
    <2> HIDE DEF matching
    <2> QED BY <1>2, <1>4, OnePage
<1>6. \A r \in matching : Matches(r, f) /\ \A c \in cursor : After(r, c)
    OBVIOUS
<1>7. \A r \in Rows : Matches(r, f) /\ (\A c \in cursor : After(r, c)) => r \in matching
    OBVIOUS
<1> HIDE DEF matching, page, rows, more
<1>8. /\ Len(pages') = Len(pages) + 1 /\ Len(pages) \in Nat
      /\ \A i \in 1 .. Len(pages) : pages'[i] = pages[i] /\ pages[i] \subseteq Rows
      /\ pages'[Len(pages) + 1] = page
    BY <1>1 DEF TypeOK
<1>9. \A i \in 1 .. Len(pages') : i \in 1 .. Len(pages) \/ i = Len(pages) + 1
    BY <1>8
<1>10. \A a \in page : a \in Rows /\ Visible(a)
    BY <1>4, <1>5, <1>6 DEF Matches
\* Every row listed before comes before every row that matches now.
<1>11. \A i \in 1 .. Len(pages) : \A a \in pages[i], b \in matching : Before(a, b)
    <2>1. CASE listing = "idle"
        BY <2>1 DEF TraversalInv, PagesInv, CursorInv
    <2>2. CASE listing = "paging"
        <3>1. PICK r \in Rows :
                /\ Visible(r)
                /\ cursor = {<<deliveredAt[r], r>>}
                /\ \A i \in 1 .. Len(pages) : \A a \in pages[i] : a = r \/ Before(a, r)
            BY <2>2 DEF TraversalInv, PagesInv, CursorInv
        <3>2. \A b \in matching : b \in Rows /\ deliveredAt[b] \in Nat /\ Before(r, b)
            BY <1>3, <1>4, <1>6, <3>1, RowsAssumption DEF After, Before, Ordered
        <3> SUFFICES ASSUME NEW i \in 1 .. Len(pages), NEW a \in pages[i], NEW b \in matching
                     PROVE  Before(a, b)
            OBVIOUS
        <3>3. a \in Rows /\ deliveredAt[a] \in Nat
            BY <1>3, <1>8 DEF TraversalInv, PagesInv
        <3>4. Ordered({a, b, r})
            BY <1>3, <3>1, <3>2, <3>3 DEF Ordered
        <3>5. Before(r, b) /\ (a = r \/ Before(a, r))
            BY <3>1, <3>2
        <3> QED BY <3>4, <3>5, BeforeIsTotal
    <2> QED BY <1>1, <2>1, <2>2
<1>12. (\A i \in 1 .. Len(pages) : \A a \in pages[i] : Visible(a))'
    BY <1>1, <1>8, <1>9, <1>10 DEF TraversalInv, PagesInv, Visible
<1>13. PagesDescend'
    <2> SUFFICES ASSUME NEW i \in 1 .. Len(pages'), NEW j \in 1 .. Len(pages'), i < j,
                        NEW a \in pages'[i], NEW b \in pages'[j]
                 PROVE  Before(a, b)
        BY <1>1 DEF PagesDescend, Before
    <2>1. i \in 1 .. Len(pages) /\ a \in pages[i]
        BY <1>8, <1>9
    <2>2. CASE j = Len(pages) + 1
        BY <1>5, <1>8, <1>11, <2>1, <2>2
    <2>3. CASE j \in 1 .. Len(pages)
        BY <1>8, <2>1, <2>3 DEF TraversalInv, PagesInv, PagesDescend
    <2> QED BY <1>9, <2>2, <2>3
<1>14. ASSUME more
       PROVE  \E r \in page : /\ cursor' = {<<deliveredAt[r], r>>}
                              /\ \A q \in page \ {r} : Before(q, r)
    BY <1>1, <1>5, <1>14, CursorIsLast
<1>15. CursorInv'
    <2>1. CASE ~more
        BY <1>1, <2>1 DEF CursorInv
    <2>2. CASE more
        <3>1. PICK r \in page : /\ cursor' = {<<deliveredAt[r], r>>}
                                /\ \A q \in page \ {r} : Before(q, r)
            BY <1>14, <2>2
        <3>2. \A i \in 1 .. Len(pages') : \A a \in pages'[i] : a = r \/ Before(a, r)
            BY <1>5, <1>8, <1>9, <1>11, <3>1
        <3>3. r \in Rows /\ Visible(r) /\ listing' = "paging"
            BY <1>1, <1>10, <2>2
        <3> QED BY <1>1, <3>1, <3>2, <3>3 DEF CursorInv, Visible, Before
    <2> QED BY <2>1, <2>2
<1>16. \A r \in atStart' : r \in Rows /\ Visible(r) /\ (f = "read" => readAt[r] # Never)
    BY <1>1 DEF Matches, TraversalInv, SkipInv, TypeOK
\* A row that matches was listed before, or matches beyond the cursor.
<1>17. ASSUME NEW r \in atStart', Matches(r, f) PROVE r \in Listed \/ r \in matching
    <2>1. CASE listing = "idle"
        <3>1. cursor = {}
            BY <2>1 DEF TraversalInv, PagesInv, CursorInv
        <3> QED BY <1>7, <1>16, <1>17, <3>1
    <2>2. CASE listing = "paging"
        <3>1. r \in Listed \/ \E c \in cursor : After(r, c)
            BY <1>1, <1>17, <2>2 DEF TraversalInv, SkipInv, NothingSkipped
        <3>2. \A c, d \in cursor : c = d
            BY <2>2 DEF TraversalInv, PagesInv, CursorInv
        <3> QED BY <1>7, <1>16, <1>17, <3>1, <3>2
    <2> QED BY <1>1, <2>1, <2>2
<1>18. Listed' = Listed \cup page
    BY <1>8, <1>9 DEF Listed
<1>19. NothingSkipped'
    <2> SUFFICES ASSUME NEW r \in atStart', Matches(r, f)
                 PROVE  r \in Listed' \/ \E c \in cursor' : After(r, c)
        BY <1>1 DEF NothingSkipped, Matches, Visible, After
    <2>1. CASE r \in Listed \cup page
        BY <1>18, <2>1
    <2>2. CASE r \in matching \ page
        <3>1. PICK l \in page : cursor' = {<<deliveredAt[l], l>>}
            BY <1>5, <1>14, <2>2
        <3>2. Before(l, r) /\ l \in Rows /\ r \in Rows
            BY <1>4, <1>5, <2>2, <3>1
        <3>3. deliveredAt[l] \in Nat /\ deliveredAt[r] \in Nat
            BY <1>4, <1>5, <2>2 DEF Ordered
        <3> QED BY <3>1, <3>2, <3>3, RowsAssumption DEF Before, After
    <2> QED BY <1>17, <2>1, <2>2
<1>20. SkipInv'
    BY <1>1, <1>16, <1>19 DEF SkipInv, Visible
<1> QED BY <1>12, <1>13, <1>15, <1>20 DEF TraversalInv, PagesInv

LEMMA NextTraversal == ASSUME TypeOK, TraversalInv, [Next]_vars PROVE TraversalInv'
<1>1. CASE Tick \/ UNCHANGED vars
    BY <1>1, RowsStepTraversal DEF Tick, vars, rowVars
<1>2. ASSUME NEW r \in Rows, Claim(r) \/ Deliver(r) PROVE TraversalInv'
    <2>1. UNCHANGED listVars /\ UNCHANGED readAt
        BY <1>2 DEF Claim, Deliver
    <2>2. \A q \in Rows : Visible(q) => deliveredAt'[q] = deliveredAt[q]
        BY <1>2 DEF Claim, Deliver, Visible, TypeOK
    <2> QED BY <2>1, <2>2, RowsStepTraversal
<1>3. ASSUME NEW m \in Marks, NEW r \in Rows, MarkBegin(m, r) \/ MarkFind(m, r)
      PROVE  TraversalInv'
    BY <1>3, RowsStepTraversal DEF MarkBegin, MarkFind, rowVars
<1>4. ASSUME NEW m \in Marks, MarkFail(m) PROVE TraversalInv'
    BY <1>4, RowsStepTraversal DEF MarkFail, rowVars
<1>5. ASSUME NEW m \in Marks, NEW r \in Rows, MarkCommit(m, r) PROVE TraversalInv'
    <2>1. UNCHANGED listVars /\ UNCHANGED deliveredAt
        BY <1>5 DEF MarkCommit
    <2>2. \A q \in Rows : readAt[q] # Never => readAt'[q] # Never
        BY <1>5, Nulls DEF MarkCommit, TypeOK
    <2> QED BY <2>1, <2>2, RowsStepTraversal
<1> QED BY <1>1, <1>2, <1>3, <1>4, <1>5, ListPageTraversal DEF Next

LEMMA TraversalAlways == Spec => []TraversalInv
BY InitType, NextType, InitTraversal, NextTraversal, PTL DEF Spec

\* No row is listed twice and no page goes back behind the one before it, for
\* any mixture of deliveries, marks and page sizes.
THEOREM PagesAreDescending == Spec => []PagesDescend
BY TraversalAlways, PTL DEF TraversalInv, PagesInv

\* A row that matched when the traversal began, and still does, was shown once
\* there is no next page.
THEOREM NothingIsSkipped == Spec => []NothingSkipped
BY TraversalAlways, PTL DEF TraversalInv, SkipInv

\* A traversal that has ended has shown every row that matched when it began and
\* still does: NothingSkipped leaves it no cursor to be beyond.
CompleteAtEnd ==
    listing = "done" => \A r \in atStart : Matches(r, filter) => r \in Listed

\* There is no cursor at the end.
NoCursorAtEnd == listing = "done" => cursor = {}

THEOREM TraversalsAreComplete == Spec => []CompleteAtEnd
<1>1. Init => NoCursorAtEnd
    BY DEF Init, NoCursorAtEnd
<1>2. NoCursorAtEnd /\ [Next]_vars => NoCursorAtEnd'
    <2>1. ASSUME NEW f \in Filters, NEW limit \in 1 .. MaxLimit, ListPage(f, limit)
          PROVE  NoCursorAtEnd'
        BY <2>1 DEF ListPage, NoCursorAtEnd
    <2>2. ASSUME NoCursorAtEnd, UNCHANGED listVars PROVE NoCursorAtEnd'
        BY <2>2 DEF NoCursorAtEnd, listVars
    <2> QED
        BY <2>1, <2>2
        DEF Next, Tick, Claim, Deliver, MarkBegin, MarkFind, MarkCommit, MarkFail, vars
<1>3. NoCursorAtEnd /\ NothingSkipped => CompleteAtEnd
    BY DEF NoCursorAtEnd, NothingSkipped, CompleteAtEnd
<1> QED BY <1>1, <1>2, <1>3, NothingIsSkipped, PTL DEF Spec
=============================================================================
