---------------------- MODULE NotificationIntakeProofs ----------------------
(***************************************************************************)
(* Proofs about NotificationIntake, for any number of concurrent requests, *)
(* any keys and payloads, and any windows and limit.                       *)
(***************************************************************************)
EXTENDS NotificationIntake, FiniteSetTheorems, TLAPS

\* A window starts at a time that is not after the request.
LEMMA WindowStartTime ==
    ASSUME NEW t \in Time, NEW length \in Nat \ {0} PROVE WindowStart(t, length) \in Time
<1>1. t \in Nat /\ t % length \in Nat /\ t % length < length
    BY BoundAssumption DEF Time
<1>2. t % length =< t
    <2>1. CASE length =< t
        BY <1>1, <2>1
    <2>2. CASE t < length
        BY <1>1, <2>2
    <2> QED BY <1>1, <2>1, <2>2
<1> QED BY <1>1, <1>2, BoundAssumption DEF WindowStart, Time

LEMMA Constants == \A r \in Requests : /\ ServiceOf[r] \in Services
                                       /\ PayloadOf[r] \in Payloads
                                       /\ KeyOf[r] \in Keys
BY DEF Services, Payloads, Keys

LEMMA IdentityType ==
    ASSUME NEW r \in Requests, NEW t \in Time PROVE IdentityAt(r, t) \in Identities
<1>1. WindowStart(t, DedupWindow) \in Time
    BY WindowStartTime, BoundAssumption
<1>2. CASE KeyOf[r] # NoKey
    BY <1>2, Constants DEF IdentityAt, Identities
<1>3. CASE KeyOf[r] = NoKey
    BY <1>1, <1>3, Constants DEF IdentityAt, Identities
<1> QED BY <1>2, <1>3

-----------------------------------------------------------------------------
(* Types and the quota *)

IntakeType ==
    /\ clock \in Time
    /\ quota \in [Services -> [Time -> Nat]]
    /\ rows \subseteq Rows
    /\ outbox \subseteq Requests
    /\ pc \in [Requests -> {"arrived", "admitted", "inserting", "finding_winner",
                            "responding", "done"}]
    /\ identity \in [Requests -> SUBSET Identities]
    /\ answer \in [Requests -> Outcomes]
    /\ answerId \in [Requests -> Requests \cup {NoRow}]
    /\ admittedIn \in [Requests -> Time \cup {-1}]

\* A request is counted once: no counter exceeds the requests that were.
Counted == {r \in Requests : pc[r] # "arrived"}
QuotaBounded == \A s \in Services, w \in Time : quota[s][w] =< Cardinality(Counted)

\* A request that was not counted is in no window.
AdmittedCounted == \A r \in Requests : pc[r] = "arrived" => admittedIn[r] = -1

QuotaInv == IntakeType /\ QuotaBounded /\ AdmittedCounted /\ QuotaExact

LEMMA QuotaInit == Init => QuotaInv
<1> SUFFICES ASSUME Init PROVE QuotaInv
    OBVIOUS
<1>1. IntakeType
    BY BoundAssumption DEF Init, IntakeType, Time, Outcomes
<1>2. Counted = {} /\ \A s \in Services, w \in Time : AdmittedIn(s, w) = {}
    BY DEF Init, Counted, AdmittedIn, Time
<1>3. \A s \in Services, w \in Time : quota[s][w] = 0
    BY DEF Init
<1>4. QuotaBounded
    BY <1>2, <1>3, FS_EmptySet DEF QuotaBounded
<1>5. QuotaExact
    BY <1>2, <1>3, FS_EmptySet, BoundAssumption DEF QuotaExact
<1>6. AdmittedCounted
    BY DEF Init, AdmittedCounted
<1> QED BY <1>1, <1>4, <1>5, <1>6 DEF QuotaInv

\* Steps after the quota keep the counters.
LEMMA OtherQuota ==
    ASSUME QuotaInv, IntakeType', UNCHANGED <<quota, admittedIn>>,
           \A r \in Requests : (pc'[r] = "arrived") = (pc[r] = "arrived")
    PROVE  QuotaInv'
<1>1. Counted' = Counted /\ \A s, w : AdmittedIn(s, w)' = AdmittedIn(s, w)
    BY DEF Counted, AdmittedIn
<1>2. QuotaBounded' /\ AdmittedCounted' /\ QuotaExact'
    BY <1>1 DEF QuotaInv, QuotaBounded, AdmittedCounted, QuotaExact
<1> QED BY <1>2 DEF QuotaInv

\* One request is counted, and admitted exactly if there is room.
LEMMA ConsumeQuotaInv ==
    ASSUME QuotaInv, NEW r \in Requests, ConsumeQuota(r) PROVE QuotaInv'
<1> DEFINE s == ServiceOf[r]
           w == WindowStart(clock, QuotaWindow)
           count == quota[s][w] + 1
<1>1. s \in Services /\ w \in Time /\ quota[s][w] \in Nat
    BY Constants, WindowStartTime, BoundAssumption DEF QuotaInv, IntakeType
<1>2. /\ pc[r] = "arrived" /\ admittedIn[r] = -1
      /\ quota' = [quota EXCEPT ![s][w] = count]
      /\ \/ /\ count =< QuotaLimit
            /\ pc' = [pc EXCEPT ![r] = "admitted"]
            /\ admittedIn' = [admittedIn EXCEPT ![r] = w]
            /\ answer' = answer
         \/ /\ ~(count =< QuotaLimit)
            /\ pc' = [pc EXCEPT ![r] = "done"]
            /\ answer' = [answer EXCEPT ![r] = "throttled"]
            /\ admittedIn' = admittedIn
      /\ UNCHANGED <<clock, rows, outbox, identity, answerId>>
    BY DEF ConsumeQuota, WithinQuota, QuotaInv, AdmittedCounted
<1> HIDE DEF s, w
<1>3. IntakeType'
    <2>1. quota' \in [Services -> [Time -> Nat]]
        BY <1>1, <1>2 DEF QuotaInv, IntakeType
    <2>2. /\ pc' \in [Requests -> {"arrived", "admitted", "inserting", "finding_winner",
                                   "responding", "done"}]
          /\ answer' \in [Requests -> Outcomes]
          /\ admittedIn' \in [Requests -> Time \cup {-1}]
        BY <1>1, <1>2 DEF QuotaInv, IntakeType, Outcomes
    <2>3. /\ clock' \in Time /\ rows' \subseteq Rows /\ outbox' \subseteq Requests
          /\ identity' \in [Requests -> SUBSET Identities]
          /\ answerId' \in [Requests -> Requests \cup {NoRow}]
        BY <1>2 DEF QuotaInv, IntakeType
    <2> QED BY <2>1, <2>2, <2>3 DEF IntakeType
<1>4. AdmittedCounted'
    BY <1>1, <1>2 DEF QuotaInv, IntakeType, AdmittedCounted
<1>5. \A q \in Services, v \in Time :
        quota'[q][v] = IF q = s /\ v = w THEN quota[q][v] + 1 ELSE quota[q][v]
    BY <1>1, <1>2 DEF QuotaInv, IntakeType
<1>6. QuotaBounded'
    <2>1. Counted' = Counted \cup {r} /\ r \notin Counted
        BY <1>2 DEF QuotaInv, IntakeType, Counted
    <2>2. IsFiniteSet(Counted)
        BY FS_Subset, RequestsAssumption DEF Counted
    <2>3. Cardinality(Counted') = Cardinality(Counted) + 1 /\ Cardinality(Counted) \in Nat
        BY <2>1, <2>2, FS_AddElement, FS_CardinalityType
    <2>4. \A q \in Services, v \in Time :
            quota[q][v] \in Nat /\ quota[q][v] =< Cardinality(Counted)
        BY DEF QuotaInv, IntakeType, QuotaBounded
    <2>5. \A q \in Services, v \in Time : quota'[q][v] =< Cardinality(Counted')
        BY <1>5, <2>3, <2>4
    <2> QED BY <2>5 DEF QuotaBounded
<1>7. QuotaExact'
    <2> SUFFICES ASSUME NEW q \in Services, NEW v \in Time
                 PROVE  Cardinality(AdmittedIn(q, v)') =
                            IF quota'[q][v] < QuotaLimit THEN quota'[q][v] ELSE QuotaLimit
        BY DEF QuotaExact, AdmittedIn
    <2>1. /\ Cardinality(AdmittedIn(q, v)) =
                IF quota[q][v] < QuotaLimit THEN quota[q][v] ELSE QuotaLimit
          /\ quota[q][v] \in Nat /\ QuotaLimit \in Nat
        BY BoundAssumption DEF QuotaInv, IntakeType, QuotaExact
    <2>2. -1 \notin Time
        BY DEF Time
    <2>3. CASE q = s /\ v = w /\ count =< QuotaLimit
        <3>1. AdmittedIn(q, v)' = AdmittedIn(q, v) \cup {r} /\ r \notin AdmittedIn(q, v)
            BY <1>1, <1>2, <2>2, <2>3 DEF QuotaInv, IntakeType, AdmittedIn, s
        <3>2. IsFiniteSet(AdmittedIn(q, v))
            BY FS_Subset, RequestsAssumption DEF AdmittedIn
        <3>3. Cardinality(AdmittedIn(q, v)') = Cardinality(AdmittedIn(q, v)) + 1
            BY <3>1, <3>2, FS_AddElement
        <3> QED BY <1>5, <2>1, <2>3, <3>3
    <2>4. CASE ~(q = s /\ v = w /\ count =< QuotaLimit)
        <3>1. AdmittedIn(q, v)' = AdmittedIn(q, v)
            <4>1. CASE count =< QuotaLimit
                BY <1>1, <1>2, <2>2, <2>4, <4>1 DEF QuotaInv, IntakeType, AdmittedIn, s
            <4>2. CASE ~(count =< QuotaLimit)
                BY <1>2, <4>2 DEF AdmittedIn
            <4> QED BY <4>1, <4>2
        <3> QED BY <1>5, <2>1, <2>4, <3>1
    <2> QED BY <2>3, <2>4
<1> QED BY <1>3, <1>4, <1>6, <1>7 DEF QuotaInv

\* A row that was found gives an answer.
LEMMA AnswerExistingType ==
    ASSUME IntakeType, NEW r \in Requests, NEW row \in rows, AnswerExisting(r, row)
    PROVE  /\ pc' = [pc EXCEPT ![r] = "responding"]
           /\ answer' \in [Requests -> Outcomes]
           /\ answerId' \in [Requests -> Requests \cup {NoRow}]
BY DEF AnswerExisting, IntakeType, Rows, Outcomes

LEMMA QuotaNext == ASSUME QuotaInv, [Next]_vars PROVE QuotaInv'
<1> USE DEF QuotaInv
<1>1. CASE Tick
    <2>1. IntakeType'
        BY <1>1, BoundAssumption DEF Tick, IntakeType, Time
    <2> QED BY <1>1, <2>1, OtherQuota DEF Tick
<1>2. ASSUME NEW r \in Requests, Find(r) PROVE QuotaInv'
    <2>1. /\ pc[r] = "admitted"
          /\ identity' = [identity EXCEPT ![r] = {IdentityAt(r, clock)}]
          /\ UNCHANGED <<clock, quota, rows, outbox, admittedIn>>
          /\ \/ \E row \in rows : AnswerExisting(r, row)
             \/ pc' = [pc EXCEPT ![r] = "inserting"] /\ UNCHANGED <<answer, answerId>>
        BY <1>2 DEF Find, Found
    <2>2. IdentityAt(r, clock) \in Identities
        BY IdentityType DEF IntakeType
    <2>3. \E point \in {"responding", "inserting"} : pc' = [pc EXCEPT ![r] = point]
        BY <2>1, AnswerExistingType
    <2>4. answer' \in [Requests -> Outcomes] /\ answerId' \in [Requests -> Requests \cup {NoRow}]
        BY <2>1, AnswerExistingType DEF IntakeType
    <2>5. IntakeType'
        BY <2>1, <2>2, <2>3, <2>4 DEF IntakeType
    <2>6. \A q \in Requests : (pc'[q] = "arrived") = (pc[q] = "arrived")
        BY <2>1, <2>3 DEF IntakeType
    <2> QED BY <2>1, <2>5, <2>6, OtherQuota
<1>3. ASSUME NEW r \in Requests, NEW i \in identity[r], Insert(r, i) PROVE QuotaInv'
    <2>1. i \in Identities
        BY DEF IntakeType
    <2>2. [id |-> r, identity |-> i, payload |-> PayloadOf[r]] \in Rows
        BY <2>1, Constants DEF Rows
    <2>3. IntakeType'
        BY <1>3, <2>2 DEF Insert, IntakeType, Outcomes
    <2> QED BY <1>3, <2>3, OtherQuota DEF Insert, IntakeType
<1>4. ASSUME NEW r \in Requests, NEW i \in identity[r], InsertConflict(r, i) PROVE QuotaInv'
    <2>1. IntakeType'
        BY <1>4 DEF InsertConflict, IntakeType
    <2> QED BY <1>4, <2>1, OtherQuota DEF InsertConflict, IntakeType
<1>5. ASSUME NEW r \in Requests, Respond(r) PROVE QuotaInv'
    <2>1. IntakeType'
        BY <1>5 DEF Respond, IntakeType
    <2> QED BY <1>5, <2>1, OtherQuota DEF Respond, IntakeType
<1>6. ASSUME NEW r \in Requests, NEW i \in identity[r], FindWinner(r, i) PROVE QuotaInv'
    <2>1. /\ pc[r] = "finding_winner"
          /\ \E row \in rows : AnswerExisting(r, row)
          /\ UNCHANGED <<clock, quota, rows, outbox, identity, admittedIn>>
        BY <1>6 DEF FindWinner, Found
    <2>2. IntakeType'
        BY <2>1, AnswerExistingType DEF IntakeType
    <2>3. pc' = [pc EXCEPT ![r] = "responding"]
        BY <2>1, AnswerExistingType
    <2> QED BY <2>1, <2>2, <2>3, OtherQuota DEF IntakeType
<1>7. ASSUME NEW r \in Requests, Fail(r) PROVE QuotaInv'
    <2>1. IntakeType'
        BY <1>7 DEF Fail, IntakeType, Outcomes
    <2> QED BY <1>7, <2>1, OtherQuota DEF Fail, IntakeType
<1>8. CASE UNCHANGED vars
    <2>1. IntakeType'
        BY <1>8 DEF vars, IntakeType
    <2> QED BY <1>8, <2>1, OtherQuota DEF vars
<1> QED
    BY <1>1, <1>2, <1>3, <1>4, <1>5, <1>6, <1>7, <1>8, ConsumeQuotaInv
    DEF Next, RequestStep

LEMMA QuotaAlways == Spec => []QuotaInv
BY QuotaInit, QuotaNext, PTL DEF Spec

\* Every variable keeps its type; no counter exceeds the number of requests.
THEOREM IntakeTypeCorrect == Spec => []TypeOK
<1>1. QuotaInv => TypeOK
    <2> SUFFICES ASSUME QuotaInv PROVE TypeOK
        OBVIOUS
    <2>1. IsFiniteSet(Counted) /\ Cardinality(Counted) =< Cardinality(Requests)
        BY FS_Subset, RequestsAssumption DEF Counted
    <2>2. Cardinality(Counted) \in Nat /\ Cardinality(Requests) \in Nat
        BY <2>1, FS_CardinalityType, RequestsAssumption
    <2>3. \A s \in Services, w \in Time :
            quota[s][w] \in Nat /\ quota[s][w] =< Cardinality(Counted)
        BY DEF QuotaInv, IntakeType, QuotaBounded
    <2>4. \A s \in Services, w \in Time : quota[s][w] \in 0 .. Cardinality(Requests)
        BY <2>1, <2>2, <2>3
    <2>5. quota \in [Services -> [Time -> 0 .. Cardinality(Requests)]]
        <3>1. \A s \in Services : quota[s] \in [Time -> 0 .. Cardinality(Requests)]
            BY <2>4 DEF QuotaInv, IntakeType
        <3> QED BY <3>1 DEF QuotaInv, IntakeType
    <2> QED BY <2>5 DEF QuotaInv, IntakeType, TypeOK
<1> QED BY <1>1, QuotaAlways, PTL

\* However requests interleave, exactly the limit is admitted in a window.
THEOREM QuotaIsExact == Spec => []QuotaExact
BY QuotaAlways, PTL DEF QuotaInv
-----------------------------------------------------------------------------
(* Identities, rows and answers *)

\* A request computes one identity, once, after it was admitted.
IdentityInv ==
    \A r \in Requests :
        /\ \A i \in identity[r] : \E t \in Time : i = IdentityAt(r, t)
        /\ pc[r] \in {"arrived", "admitted"} => identity[r] = {}

\* A row was written by the request it is named after, which is past its
\* insert.
RowInv ==
    /\ OneNotificationPerIdentity
    /\ \A row \in rows :
        /\ row.payload = PayloadOf[row.id]
        /\ row.identity \in identity[row.id]

\* Whoever was answered found, or wrote, a row with its own identity.
AnswerInv ==
    \A r \in Requests :
        /\ pc[r] \in {"arrived", "admitted", "inserting", "finding_winner"} =>
            answer[r] = "none"
        /\ Answered(r) =>
            \E row \in rows :
                /\ row.id = answerId[r]
                /\ row.payload = PayloadOf[r]
                /\ row.identity \in identity[r]
        /\ answer[r] = "created" => answerId[r] = r
        /\ answer[r] = "conflict" =>
            \E row \in rows : row.identity \in identity[r] /\ row.payload # PayloadOf[r]

CreationInv == IntakeType /\ IdentityInv /\ RowInv /\ AnswerInv

\* An identity tells whether it stands for a key, for which key, and for which
\* payload in which window.
LEMMA IdentityParts ==
    ASSUME NEW r \in Requests, NEW q \in Requests, NEW t \in Time, NEW u \in Time
    PROVE  /\ IdentityAt(r, t).service = ServiceOf[r]
           /\ KeyOf[r] = NoKey => /\ IdentityAt(r, t).payload = PayloadOf[r]
                                  /\ IdentityAt(r, t).window = WindowStart(t, DedupWindow)
           /\ KeyOf[r] # NoKey => IdentityAt(r, t).key = KeyOf[r]
           /\ IdentityAt(r, t) = IdentityAt(q, u) => (KeyOf[r] = NoKey) = (KeyOf[q] = NoKey)
<1>1. KeyOf[r] # NoKey => "key" \in DOMAIN IdentityAt(r, t)
    BY DEF IdentityAt
<1>2. KeyOf[r] = NoKey => "key" \notin DOMAIN IdentityAt(r, t)
    BY DEF IdentityAt
<1>3. KeyOf[q] # NoKey => "key" \in DOMAIN IdentityAt(q, u)
    BY DEF IdentityAt
<1>4. KeyOf[q] = NoKey => "key" \notin DOMAIN IdentityAt(q, u)
    BY DEF IdentityAt
<1>5. /\ IdentityAt(r, t).service = ServiceOf[r]
      /\ KeyOf[r] = NoKey => /\ IdentityAt(r, t).payload = PayloadOf[r]
                             /\ IdentityAt(r, t).window = WindowStart(t, DedupWindow)
      /\ KeyOf[r] # NoKey => IdentityAt(r, t).key = KeyOf[r]
    BY DEF IdentityAt
<1> QED BY <1>1, <1>2, <1>3, <1>4, <1>5

\* Two different windows begin at least one length apart.
LEMMA WindowsApart ==
    ASSUME NEW t \in Time, NEW u \in Time,
           WindowStart(t, DedupWindow) # WindowStart(u, DedupWindow)
    PROVE  \/ WindowStart(t, DedupWindow) - WindowStart(u, DedupWindow) >= DedupWindow
           \/ WindowStart(u, DedupWindow) - WindowStart(t, DedupWindow) >= DedupWindow
<1> DEFINE L == DedupWindow
           k == t \div L
           n == u \div L
<1>1. t \in Nat /\ u \in Nat /\ L \in Nat \ {0}
    BY BoundAssumption DEF Time
<1>2. k \in Int /\ n \in Int
    BY <1>1
<1>3. WindowStart(t, L) = L * k /\ WindowStart(u, L) = L * n
    BY <1>1, SMTT(30) DEF WindowStart
<1> HIDE DEF L, k, n
<1>4. k # n
    BY <1>3, WindowStart(t, L) # WindowStart(u, L) DEF L
<1>5. \A a, b \in Int : a > b => L * a - L * b >= L
    <2> SUFFICES ASSUME NEW a \in Int, NEW b \in Int, a > b PROVE L * a - L * b >= L
        OBVIOUS
    <2>1. L * a - L * b = L * (a - b) /\ a - b >= 1
        BY <1>1
    <2>2. L * (a - b) >= L * 1
        BY <1>1, <2>1
    <2> QED BY <1>1, <2>1, <2>2
<1> QED BY <1>2, <1>3, <1>4, <1>5 DEF L

LEMMA CreationInit == Init => CreationInv
<1> SUFFICES ASSUME Init PROVE CreationInv
    OBVIOUS
<1>1. IntakeType
    BY QuotaInit DEF QuotaInv
<1>2. IdentityInv /\ RowInv /\ AnswerInv
    BY DEF Init, IdentityInv, RowInv, OneNotificationPerIdentity, AnswerInv, Answered
<1> QED BY <1>1, <1>2 DEF CreationInv

\* Steps that write no row, compute no identity and give no answer.
LEMMA QuietCreation ==
    ASSUME CreationInv, IntakeType', UNCHANGED <<rows, outbox, identity>>,
           \A r \in Requests :
                /\ pc'[r] \in {"arrived", "admitted"} => pc[r] \in {"arrived", "admitted"}
                /\ \/ /\ answer'[r] = answer[r] /\ answerId'[r] = answerId[r]
                      /\ pc'[r] \in {"arrived", "admitted", "inserting", "finding_winner"} =>
                            pc[r] \in {"arrived", "admitted", "inserting", "finding_winner"}
                   \/ pc'[r] = "done" /\ answer'[r] \in {"throttled", "failed"}
    PROVE  CreationInv'
<1>1. IdentityInv'
    BY DEF CreationInv, IdentityInv, IdentityAt
<1>2. RowInv'
    BY DEF CreationInv, RowInv, OneNotificationPerIdentity
<1>3. AnswerInv'
    BY DEF CreationInv, AnswerInv, Answered
<1> QED BY <1>1, <1>2, <1>3 DEF CreationInv

\* The answer from a row with the identity of the request is justified.
LEMMA FoundAnswer ==
    ASSUME CreationInv, IntakeType', NEW r \in Requests, NEW i, NEW row \in Found(i),
           identity' = [identity EXCEPT ![r] = {i}] \/ (i \in identity[r] /\ identity' = identity),
           pc[r] \in {"admitted", "finding_winner"},
           AnswerExisting(r, row), UNCHANGED <<rows, outbox>>
    PROVE  AnswerInv'
<1>1. i \in identity'[r] /\ \A q \in Requests : q # r => identity'[q] = identity[q]
    BY DEF CreationInv, IntakeType
<1>2. row \in rows /\ row.identity = i
    BY DEF Found
<1>3. pc'[r] = "responding" /\ \A q \in Requests : q # r => pc'[q] = pc[q]
    BY DEF AnswerExisting, CreationInv, IntakeType
<1>4. \A q \in Requests : q # r => answer'[q] = answer[q] /\ answerId'[q] = answerId[q]
    BY DEF AnswerExisting, CreationInv, IntakeType
<1>5. \/ answer'[r] = "existing" /\ answerId'[r] = row.id /\ row.payload = PayloadOf[r]
      \/ answer'[r] = "conflict" /\ row.payload # PayloadOf[r]
    BY DEF AnswerExisting, SamePayload, CreationInv, IntakeType
<1> QED BY <1>1, <1>2, <1>3, <1>4, <1>5 DEF CreationInv, AnswerInv, Answered

LEMMA FindCreation ==
    ASSUME CreationInv, IntakeType', NEW r \in Requests, Find(r) PROVE CreationInv'
<1> DEFINE i == IdentityAt(r, clock)
<1>1. /\ pc[r] = "admitted"
      /\ identity' = [identity EXCEPT ![r] = {i}]
      /\ UNCHANGED <<rows, outbox>>
      /\ \/ \E row \in Found(i) : AnswerExisting(r, row)
         \/ pc' = [pc EXCEPT ![r] = "inserting"] /\ UNCHANGED <<answer, answerId>>
    BY DEF Find
<1>2. i \in {IdentityAt(r, t) : t \in Time} /\ identity[r] = {}
    BY <1>1 DEF CreationInv, IntakeType, IdentityInv
<1>3. /\ identity'[r] = {i}
      /\ pc'[r] \in {"responding", "inserting"}
      /\ \A q \in Requests : q # r => identity'[q] = identity[q] /\ pc'[q] = pc[q]
    BY <1>1 DEF AnswerExisting, CreationInv, IntakeType
<1> HIDE DEF i
<1>4. IdentityInv'
    <2> SUFFICES ASSUME NEW q \in Requests
                 PROVE  /\ \A j \in identity'[q] : \E t \in Time : j = IdentityAt(q, t)
                        /\ pc'[q] \in {"arrived", "admitted"} => identity'[q] = {}
        BY DEF IdentityInv, IdentityAt
    <2>1. CASE q = r
        BY <1>2, <1>3, <2>1
    <2>2. CASE q # r
        BY <1>3, <2>2 DEF CreationInv, IdentityInv
    <2> QED BY <2>1, <2>2
<1>5. RowInv'
    <2>1. \A row \in rows : row.id \in Requests /\ row.id # r
        BY <1>2 DEF CreationInv, IntakeType, Rows, RowInv
    <2> QED BY <1>1, <1>3, <2>1 DEF CreationInv, RowInv, OneNotificationPerIdentity
<1>6. AnswerInv'
    <2>1. CASE \E row \in Found(i) : AnswerExisting(r, row)
        BY <1>1, <2>1, FoundAnswer
    <2>2. CASE pc' = [pc EXCEPT ![r] = "inserting"] /\ UNCHANGED <<answer, answerId>>
        <3>1. answer[r] = "none"
            BY <1>1 DEF CreationInv, AnswerInv
        <3> QED BY <1>1, <1>3, <2>2, <3>1 DEF CreationInv, AnswerInv, Answered
    <2> QED BY <1>1, <2>1, <2>2
<1> QED BY <1>4, <1>5, <1>6 DEF CreationInv

LEMMA InsertCreation ==
    ASSUME CreationInv, IntakeType', NEW r \in Requests, NEW i \in identity[r], Insert(r, i)
    PROVE  CreationInv'
<1> DEFINE new == [id |-> r, identity |-> i, payload |-> PayloadOf[r]]
<1>1. /\ pc[r] = "inserting"
      /\ \A row \in rows : row.identity # i
      /\ rows' = rows \cup {new} /\ outbox' = outbox \cup {r}
      /\ identity' = identity
    BY DEF Insert, Taken, Found
<1>2. new.id = r /\ new.identity = i /\ new.payload = PayloadOf[r]
    OBVIOUS
<1>3. /\ pc'[r] = "responding" /\ answer'[r] = "created" /\ answerId'[r] = r
      /\ \A q \in Requests : q # r => /\ pc'[q] = pc[q] /\ answer'[q] = answer[q]
                                      /\ answerId'[q] = answerId[q]
    BY DEF Insert, CreationInv, IntakeType
<1> HIDE DEF new
<1>4. IdentityInv'
    <2> SUFFICES ASSUME NEW q \in Requests
                 PROVE  /\ \A j \in identity'[q] : \E t \in Time : j = IdentityAt(q, t)
                        /\ pc'[q] \in {"arrived", "admitted"} => identity'[q] = {}
        BY DEF IdentityInv, IdentityAt
    <2> QED BY <1>1, <1>3 DEF CreationInv, IdentityInv
<1>5. RowInv'
    <2>1. OneNotificationPerIdentity'
        BY <1>1, <1>2 DEF CreationInv, RowInv, OneNotificationPerIdentity
    <2> QED BY <1>1, <1>2, <2>1 DEF CreationInv, RowInv
<1>6. AnswerInv'
    <2> SUFFICES ASSUME NEW q \in Requests
                 PROVE  /\ pc'[q] \in {"arrived", "admitted", "inserting", "finding_winner"} =>
                            answer'[q] = "none"
                        /\ Answered(q)' =>
                            \E row \in rows' :
                                /\ row.id = answerId'[q]
                                /\ row.payload = PayloadOf[q]
                                /\ row.identity \in identity'[q]
                        /\ answer'[q] = "created" => answerId'[q] = q
                        /\ answer'[q] = "conflict" =>
                            \E row \in rows' : row.identity \in identity'[q] /\ row.payload # PayloadOf[q]
        BY DEF AnswerInv, Answered
    <2>1. CASE q = r
        BY <1>1, <1>2, <1>3, <2>1 DEF Answered
    <2>2. CASE q # r
        BY <1>1, <1>3, <2>2 DEF CreationInv, AnswerInv, Answered
    <2> QED BY <2>1, <2>2
<1> QED BY <1>4, <1>5, <1>6 DEF CreationInv

LEMMA CreationNext == ASSUME CreationInv, QuotaInv, [Next]_vars PROVE CreationInv'
<1>0. IntakeType /\ IntakeType'
    BY QuotaNext DEF QuotaInv
<1>1. CASE Tick \/ UNCHANGED vars
    BY <1>0, <1>1, QuietCreation DEF Tick, vars
<1>2. ASSUME NEW r \in Requests, ConsumeQuota(r) PROVE CreationInv'
    BY <1>0, <1>2, QuietCreation DEF ConsumeQuota, IntakeType
<1>3. ASSUME NEW r \in Requests, NEW i \in identity[r], InsertConflict(r, i) PROVE CreationInv'
    BY <1>0, <1>3, QuietCreation DEF InsertConflict, IntakeType
<1>4. ASSUME NEW r \in Requests, Respond(r) PROVE CreationInv'
    BY <1>0, <1>4, QuietCreation DEF Respond, IntakeType
<1>5. ASSUME NEW r \in Requests, Fail(r) PROVE CreationInv'
    BY <1>0, <1>5, QuietCreation DEF Fail, IntakeType
<1>6. ASSUME NEW r \in Requests, NEW i \in identity[r], FindWinner(r, i) PROVE CreationInv'
    <2>1. /\ pc[r] = "finding_winner"
          /\ UNCHANGED <<rows, outbox, identity>>
          /\ \E row \in Found(i) : AnswerExisting(r, row)
        BY <1>6 DEF FindWinner
    <2>2. \A q \in Requests : pc'[q] \in {"arrived", "admitted"} => pc[q] = pc'[q]
        BY <1>0, <2>1 DEF AnswerExisting, IntakeType
    <2>3. AnswerInv'
        BY <1>0, <2>1, FoundAnswer
    <2>4. IdentityInv'
        BY <2>1, <2>2 DEF CreationInv, IdentityInv, IdentityAt
    <2>5. RowInv'
        BY <2>1 DEF CreationInv, RowInv, OneNotificationPerIdentity
    <2> QED BY <1>0, <2>3, <2>4, <2>5 DEF CreationInv
<1> QED
    BY <1>0, <1>1, <1>2, <1>3, <1>4, <1>5, <1>6, FindCreation, InsertCreation DEF Next, RequestStep

LEMMA CreationAlways == Spec => []CreationInv
BY CreationInit, CreationNext, QuotaAlways, PTL DEF Spec

\* Concurrent requests with one identity leave one notification and one event.
THEOREM NotificationsUnique == Spec => []OneNotificationPerIdentity
BY CreationAlways, PTL DEF CreationInv, RowInv

\* A row found under an identity has the service of the request, and one found
\* without a key has its payload.
LEMMA FoundParts ==
    ASSUME CreationInv, NEW r \in Requests, NEW row \in rows, row.identity \in identity[r]
    PROVE  /\ row.identity.service = ServiceOf[r]
           /\ KeyOf[r] = NoKey => row.payload = PayloadOf[r]
           /\ KeyOf[r] # NoKey => row.identity.key = KeyOf[r]
<1>1. row.id \in Requests /\ row.payload = PayloadOf[row.id] /\ row.identity \in identity[row.id]
    BY DEF CreationInv, RowInv, IntakeType, Rows
<1>2. PICK t \in Time : row.identity = IdentityAt(r, t)
    BY DEF CreationInv, IdentityInv
<1>3. PICK u \in Time : row.identity = IdentityAt(row.id, u)
    BY <1>1 DEF CreationInv, IdentityInv
<1>4. (KeyOf[r] = NoKey) = (KeyOf[row.id] = NoKey)
    <2>1. IdentityAt(r, t) = IdentityAt(row.id, u)
        BY <1>2, <1>3
    <2> QED BY <1>1, <2>1, IdentityParts
<1>5. KeyOf[row.id] = NoKey => row.identity.payload = PayloadOf[row.id]
    BY <1>1, <1>3, IdentityParts
<1>6. /\ row.identity.service = ServiceOf[r]
      /\ KeyOf[r] = NoKey => row.identity.payload = PayloadOf[r]
      /\ KeyOf[r] # NoKey => row.identity.key = KeyOf[r]
    BY <1>2, IdentityParts
<1> QED BY <1>1, <1>4, <1>5, <1>6

\* Every answer is justified by a committed row.
THEOREM AnswersJustified == Spec => []AnswerJustified
<1>1. CreationInv => AnswerJustified
    <2> SUFFICES ASSUME CreationInv, NEW r \in Requests
                 PROVE  /\ Answered(r) =>
                            \E row \in rows :
                                /\ row.id = answerId[r]
                                /\ row.payload = PayloadOf[r]
                                /\ row.identity.service = ServiceOf[r]
                        /\ answer[r] = "conflict" =>
                            /\ KeyOf[r] # NoKey
                            /\ \E row \in rows : row.identity \in identity[r] /\ row.payload # PayloadOf[r]
        BY DEF AnswerJustified
    <2> QED BY FoundParts DEF CreationInv, AnswerInv
<1> QED BY <1>1, CreationAlways, PTL

\* All successful answers to one key of one service name one notification.
THEOREM KeysHaveOneAnswer == Spec => []SameKeySameAnswer
<1>1. CreationInv => SameKeySameAnswer
    <2> SUFFICES ASSUME CreationInv, NEW r \in Requests, NEW q \in Requests,
                        KeyOf[r] = KeyOf[q], KeyOf[r] # NoKey, ServiceOf[r] = ServiceOf[q],
                        Answered(r), Answered(q)
                 PROVE  /\ answerId[r] = answerId[q]
                        /\ answer[r] = "created" /\ answer[q] = "created" => r = q
        BY DEF SameKeySameAnswer
    <2>1. PICK a \in rows : a.id = answerId[r] /\ a.identity \in identity[r]
        BY DEF CreationInv, AnswerInv
    <2>2. PICK b \in rows : b.id = answerId[q] /\ b.identity \in identity[q]
        BY DEF CreationInv, AnswerInv
    <2>3. a.identity = b.identity
        BY <2>1, <2>2 DEF CreationInv, IdentityInv, IdentityAt
    <2>4. a = b
        BY <2>3 DEF CreationInv, RowInv, OneNotificationPerIdentity
    <2> QED BY <2>1, <2>2, <2>4 DEF CreationInv, AnswerInv
<1> QED BY <1>1, CreationAlways, PTL

\* Equal requests without a key leave one notification per window.
THEOREM PlainRequestsOncePerWindow == Spec => []PlainOncePerWindow
<1>1. CreationInv => PlainOncePerWindow
    <2> SUFFICES ASSUME CreationInv, NEW a \in rows, NEW b \in rows,
                        a # b, a.payload = b.payload, a.identity.service = b.identity.service,
                        KeyOf[a.id] = NoKey, KeyOf[b.id] = NoKey
                 PROVE  \/ a.identity.window - b.identity.window >= DedupWindow
                        \/ b.identity.window - a.identity.window >= DedupWindow
        BY DEF PlainOncePerWindow
    <2>1. /\ a.id \in Requests /\ a.identity \in identity[a.id] /\ a.payload = PayloadOf[a.id]
          /\ b.id \in Requests /\ b.identity \in identity[b.id] /\ b.payload = PayloadOf[b.id]
        BY DEF CreationInv, RowInv, IntakeType, Rows
    <2>2. PICK t \in Time : a.identity = IdentityAt(a.id, t)
        BY <2>1 DEF CreationInv, IdentityInv
    <2>3. PICK u \in Time : b.identity = IdentityAt(b.id, u)
        BY <2>1 DEF CreationInv, IdentityInv
    <2>4. a.identity # b.identity
        BY DEF CreationInv, RowInv, OneNotificationPerIdentity
    <2>5. /\ a.identity.window = WindowStart(t, DedupWindow)
          /\ b.identity.window = WindowStart(u, DedupWindow)
        BY <2>1, <2>2, <2>3, IdentityParts
    <2>6. WindowStart(t, DedupWindow) # WindowStart(u, DedupWindow)
        <3>1. ServiceOf[a.id] = ServiceOf[b.id]
            BY <2>1, <2>2, <2>3, IdentityParts
        <3> QED BY <2>1, <2>2, <2>3, <2>4, <3>1 DEF IdentityAt
    <2> QED BY <2>5, <2>6, WindowsApart
<1> QED BY <1>1, CreationAlways, PTL

-----------------------------------------------------------------------------
(* Refinement of IntakeLedger *)

\* Only a request that was given a notification names one, and a refused request
\* is over.
NamesNothing ==
    \A r \in Requests :
        /\ ~Answered(r) => answerId[r] = NoRow
        /\ answer[r] = "throttled" => pc[r] = "done"

LEMMA NamesNothingInit == Init => NamesNothing
BY DEF Init, NamesNothing

LEMMA NamesNothingNext ==
    ASSUME CreationInv, NamesNothing, [Next]_vars PROVE NamesNothing'
<1> USE DEF CreationInv, IntakeType, NamesNothing, Answered
<1>1. CASE Tick \/ UNCHANGED vars
    BY <1>1 DEF Tick, vars
<1>2. ASSUME NEW r \in Requests, ConsumeQuota(r) PROVE NamesNothing'
    BY <1>2 DEF ConsumeQuota, AnswerInv
<1>3. ASSUME NEW r \in Requests, NEW row, AnswerExisting(r, row),
             pc[r] \in {"admitted", "finding_winner"}
      PROVE  NamesNothing'
    BY <1>3 DEF AnswerExisting, AnswerInv
<1>4. ASSUME NEW r \in Requests, Find(r) PROVE NamesNothing'
    <2>1. CASE \E row \in Found(IdentityAt(r, clock)) : AnswerExisting(r, row)
        BY <1>3, <1>4, <2>1 DEF Find
    <2>2. CASE pc' = [pc EXCEPT ![r] = "inserting"] /\ UNCHANGED <<answer, answerId>>
        BY <1>4, <2>2 DEF Find
    <2> QED BY <1>4, <2>1, <2>2 DEF Find
<1>5. ASSUME NEW r \in Requests, NEW i \in identity[r], Insert(r, i) PROVE NamesNothing'
    BY <1>5 DEF Insert
<1>6. ASSUME NEW r \in Requests, NEW i \in identity[r], InsertConflict(r, i)
      PROVE  NamesNothing'
    BY <1>6 DEF InsertConflict
<1>7. ASSUME NEW r \in Requests, NEW i \in identity[r], FindWinner(r, i)
      PROVE  NamesNothing'
    BY <1>3, <1>7 DEF FindWinner
<1>8. ASSUME NEW r \in Requests, Respond(r) \/ Fail(r) PROVE NamesNothing'
    BY <1>8 DEF Respond, Fail
<1> QED BY <1>1, <1>2, <1>4, <1>5, <1>6, <1>7, <1>8 DEF Next, RequestStep

IdentitiesOf == [r \in Requests |-> {IdentityAt(r, t) : t \in Time}]

\* Finding a row under the identity is the instant of an answer that repeats it.
LEMMA FoundRepeats ==
    ASSUME CreationInv, NamesNothing, NEW r \in Requests,
           NEW i \in IdentitiesOf[r], NEW row \in Found(i),
           pc[r] \in {"admitted", "finding_winner"},
           AnswerExisting(r, row), UNCHANGED <<rows, outbox>>
    PROVE  Ledger!Repeat(r, i)
<1>1. answer[r] = "none" /\ answerId[r] = NoRow
    BY DEF CreationInv, AnswerInv, NamesNothing, Answered
<1>2. row \in rows /\ row.identity = i
    BY DEF Found
<1>3. CASE row.payload = PayloadOf[r]
    <2>1. Ledger!Answer(r, "existing", row.id)
        BY <1>3 DEF AnswerExisting, SamePayload, Ledger!Answer
    <2> QED BY <1>1, <1>2, <1>3, <2>1 DEF Ledger!Repeat
<1>4. CASE row.payload # PayloadOf[r]
    <2>1. answer' = [answer EXCEPT ![r] = "conflict"] /\ answerId' = answerId
        BY <1>4 DEF AnswerExisting, SamePayload
    <2>2. answerId = [answerId EXCEPT ![r] = NoRow]
        BY <1>1 DEF CreationInv, IntakeType
    <2>3. Ledger!Answer(r, "conflict", NoRow)
        BY <2>1, <2>2 DEF Ledger!Answer
    <2> QED BY <1>1, <1>2, <1>4, <2>3 DEF Ledger!Repeat
<1> QED BY <1>3, <1>4

LEMMA IdentityMay ==
    ASSUME CreationInv, NEW r \in Requests
    PROVE  /\ \A i \in identity[r] : i \in IdentitiesOf[r]
           /\ IdentityAt(r, clock) \in IdentitiesOf[r]
BY DEF CreationInv, IntakeType, IdentityInv, IdentitiesOf

LEMMA NextRefinesLedger ==
    ASSUME CreationInv, NamesNothing, [Next]_vars
    PROVE  Ledger!Next \/ UNCHANGED <<rows, outbox, answer, answerId>>
<1>1. CASE Tick \/ UNCHANGED vars
    BY <1>1 DEF Tick, vars
<1>2. ASSUME NEW r \in Requests, ConsumeQuota(r)
      PROVE  Ledger!Refuse(r) \/ UNCHANGED <<rows, outbox, answer, answerId>>
    <2>1. answer[r] = "none" /\ answerId[r] = NoRow
        BY <1>2 DEF ConsumeQuota, CreationInv, AnswerInv, NamesNothing, Answered
    <2>2. answerId = [answerId EXCEPT ![r] = NoRow]
        BY <2>1 DEF CreationInv, IntakeType
    <2>3. /\ UNCHANGED <<rows, outbox, answerId>>
          /\ answer' = [answer EXCEPT ![r] = "throttled"] \/ UNCHANGED answer
        BY <1>2 DEF ConsumeQuota
    <2> QED BY <2>1, <2>2, <2>3 DEF Ledger!Refuse, Ledger!Answer
<1>3. ASSUME NEW r \in Requests, Find(r)
      PROVE  \/ \E i \in IdentitiesOf[r] : Ledger!Repeat(r, i)
             \/ UNCHANGED <<rows, outbox, answer, answerId>>
    <2>1. pc[r] = "admitted" /\ UNCHANGED <<rows, outbox>>
        BY <1>3 DEF Find
    <2>2. CASE \E row \in Found(IdentityAt(r, clock)) : AnswerExisting(r, row)
        BY <2>1, <2>2, FoundRepeats, IdentityMay
    <2>3. CASE UNCHANGED <<answer, answerId>>
        BY <2>1, <2>3
    <2> QED BY <1>3, <2>2, <2>3 DEF Find
\* The unique index makes the insert the instant of the request.
<1>4. ASSUME NEW r \in Requests, NEW i \in identity[r], Insert(r, i)
      PROVE  Ledger!Create(r, i)
    <2>1. answer[r] = "none"
        BY <1>4 DEF Insert, CreationInv, AnswerInv
    <2>2. \A row \in rows : row.identity # i
        BY <1>4 DEF Insert, Taken, Found
    <2> QED BY <1>4, <2>1, <2>2 DEF Insert, Ledger!Create, Ledger!Answer
<1>5. ASSUME NEW r \in Requests, NEW i \in identity[r], FindWinner(r, i)
      PROVE  Ledger!Repeat(r, i)
    <2>1. i \in IdentitiesOf[r]
        BY IdentityMay
    <2> QED BY <1>5, <2>1, FoundRepeats DEF FindWinner
<1>6. ASSUME NEW r \in Requests,
             Respond(r) \/ \E i \in identity[r] : InsertConflict(r, i)
      PROVE  UNCHANGED <<rows, outbox, answer, answerId>>
    BY <1>6 DEF Respond, InsertConflict
<1>7. ASSUME NEW r \in Requests, Fail(r) PROVE Ledger!Lose(r)
    <2>1. answer[r] # "throttled"
        BY <1>7 DEF Fail, NamesNothing
    <2> QED BY <1>7, <2>1 DEF Fail, Ledger!Lose, Ledger!Answer
<1>8. ASSUME NEW r \in Requests,
             \/ \E i \in IdentitiesOf[r] : Ledger!Create(r, i) \/ Ledger!Repeat(r, i)
             \/ Ledger!Refuse(r)
             \/ Ledger!Lose(r)
      PROVE  Ledger!Next
    BY <1>8 DEF Ledger!Next, IdentitiesOf
<1> QED
    BY <1>1, <1>2, <1>3, <1>4, <1>5, <1>6, <1>7, <1>8, IdentityMay DEF Next, RequestStep

\* Requests that overlap anywhere between quota, search, insert and conflict are
\* answered as if each were handled at one instant.
THEOREM IntakeImplementsLedger == Spec => LedgerSpec
<1>1. Init => Ledger!Init
    BY DEF Init, Ledger!Init
<1>2. CreationInv /\ NamesNothing /\ [Next]_vars =>
        [Ledger!Next]_<<rows, outbox, answer, answerId>>
    BY NextRefinesLedger
<1>3. Spec => []NamesNothing
    <2>1. Spec => []CreationInv
        BY CreationAlways
    <2> QED BY <2>1, NamesNothingInit, NamesNothingNext, PTL DEF Spec
<1> QED BY <1>1, <1>2, <1>3, CreationAlways, PTL DEF Spec, LedgerSpec, Ledger!Spec
=============================================================================
