------------------------- MODULE NotificationIntake -------------------------
(***************************************************************************)
(* POST /notifications: the producer quota, the deduplication by explicit  *)
(* key or by payload within a time window, and the transaction that writes *)
(* the notification and its outbox event.                                  *)
(*                                                                         *)
(* Requests run concurrently in several API processes.  Each consumes      *)
(* quota in a transaction of its own, looks for an existing row, and       *)
(* inserts if it found none; the unique indexes of notification_requests   *)
(* decide between two requests that found none.  A request may fail        *)
(* anywhere, also after its commit; a producer that retries is another     *)
(* request with the same key and payload.                                  *)
(***************************************************************************)
EXTENDS Integers, FiniteSets

CONSTANTS
    Requests,
    ServiceOf,     \* request -> source service of its token
    KeyOf,         \* request -> idempotency key, or NoKey
    PayloadOf,     \* request -> what the payload fingerprint tells apart
    NoKey,
    NoRow,
    DedupWindow,   \* length of the fallback deduplication window
    QuotaWindow,   \* length of the quota window
    QuotaLimit,    \* requests admitted per service and window
    Horizon        \* bound on the clock

ASSUME BoundAssumption ==
    /\ DedupWindow \in Nat \ {0}
    /\ QuotaWindow \in Nat \ {0}
    /\ QuotaLimit \in Nat \ {0}
    /\ Horizon \in Nat
ASSUME NullAssumption == NoRow \notin Requests
ASSUME RequestsAssumption == IsFiniteSet(Requests)

Services == {ServiceOf[r] : r \in Requests}
Payloads == {PayloadOf[r] : r \in Requests}
Keys == {KeyOf[r] : r \in Requests}
Time == 0 .. Horizon

\* The columns of the two unique indexes: the key, or the fallback hash (which
\* covers the payload) with its window, each within one service.
Identities ==
    [service : Services, key : Keys \ {NoKey}] \cup
    [service : Services, payload : Payloads, window : Time]

Rows == [id : Requests, identity : Identities, payload : Payloads]
Outcomes == {"none", "created", "existing", "conflict", "throttled", "failed"}

VARIABLES
    clock,
    quota,     \* producer_quotas: service -> window start -> request_count
    rows,      \* notification_requests; a row is named after its request
    outbox,    \* rows with a notification.requested event
    pc,        \* request -> control point
    identity,  \* request -> identity it computed, in a set of at most one
    answer,    \* request -> outcome
    answerId,  \* request -> the notification id it answers with
    admittedIn \* history: request -> quota window it was counted in, or -1

vars == <<clock, quota, rows, outbox, pc, identity, answer, answerId, admittedIn>>

\* Mutation of WindowStart: the window starts with the request.
WindowSliding(t, length) == t

WindowStart(t, length) == t - (t % length)

Init ==
    /\ clock = 0
    /\ quota = [s \in Services |-> [t \in Time |-> 0]]
    /\ rows = {}
    /\ outbox = {}
    /\ pc = [r \in Requests |-> "arrived"]
    /\ identity = [r \in Requests |-> {}]
    /\ answer = [r \in Requests |-> "none"]
    /\ answerId = [r \in Requests |-> NoRow]
    /\ admittedIn = [r \in Requests |-> -1]

Tick ==
    /\ clock < Horizon
    /\ clock' = clock + 1
    /\ UNCHANGED <<quota, rows, outbox, pc, identity, answer, answerId, admittedIn>>

-----------------------------------------------------------------------------
(* Quota *)

\* Mutation of WithinQuota: off by one at the limit.
WithinQuotaLate(count) == count - 1 =< QuotaLimit

WithinQuota(count) == count =< QuotaLimit

\* The upsert counts the request before the limit is looked at; a rejected
\* request stays counted.
ConsumeQuota(r) ==
    LET s == ServiceOf[r]
        w == WindowStart(clock, QuotaWindow)
        count == quota[s][w] + 1
    IN  /\ pc[r] = "arrived"
        /\ quota' = [quota EXCEPT ![s][w] = count]
        /\ IF WithinQuota(count)
           THEN /\ pc' = [pc EXCEPT ![r] = "admitted"]
                /\ admittedIn' = [admittedIn EXCEPT ![r] = w]
                /\ UNCHANGED answer
           ELSE /\ pc' = [pc EXCEPT ![r] = "done"]
                /\ answer' = [answer EXCEPT ![r] = "throttled"]
                /\ UNCHANGED admittedIn
        /\ UNCHANGED <<clock, rows, outbox, identity, answerId>>

-----------------------------------------------------------------------------
(* Creation *)

IdentityAt(r, t) ==
    IF KeyOf[r] # NoKey
    THEN [service |-> ServiceOf[r], key |-> KeyOf[r]]
    ELSE [service |-> ServiceOf[r], payload |-> PayloadOf[r],
          window |-> WindowStart(t, DedupWindow)]

Found(i) == {row \in rows : row.identity = i}

\* Mutation of SamePayload: the fingerprint is not compared.
SamePayloadAlways(row, r) == TRUE

SamePayload(row, r) == row.payload = PayloadOf[r]

\* The answer to request r when row was found.
AnswerExisting(r, row) ==
    /\ pc' = [pc EXCEPT ![r] = "responding"]
    /\ IF SamePayload(row, r)
       THEN /\ answer' = [answer EXCEPT ![r] = "existing"]
            /\ answerId' = [answerId EXCEPT ![r] = row.id]
       ELSE /\ answer' = [answer EXCEPT ![r] = "conflict"]
            /\ UNCHANGED answerId

\* The service reads the clock, computes the identity and looks for a row.
Find(r) ==
    LET i == IdentityAt(r, clock)
    IN  /\ pc[r] = "admitted"
        /\ identity' = [identity EXCEPT ![r] = {i}]
        /\ \/ \E row \in Found(i) : AnswerExisting(r, row)
           \/ /\ Found(i) = {}
              /\ pc' = [pc EXCEPT ![r] = "inserting"]
              /\ UNCHANGED <<answer, answerId>>
        /\ UNCHANGED <<clock, quota, rows, outbox, admittedIn>>

\* Mutation of Taken: no unique index.
TakenNever(i) == FALSE

\* The unique index that covers identity i rejects another row.
Taken(i) == Found(i) # {}

\* One transaction writes the notification and its event.
Insert(r, i) ==
    /\ pc[r] = "inserting"
    /\ i \in identity[r]
    /\ ~Taken(i)
    /\ rows' = rows \cup {[id |-> r, identity |-> i, payload |-> PayloadOf[r]]}
    /\ outbox' = outbox \cup {r}
    /\ pc' = [pc EXCEPT ![r] = "responding"]
    /\ answer' = [answer EXCEPT ![r] = "created"]
    /\ answerId' = [answerId EXCEPT ![r] = r]
    /\ UNCHANGED <<clock, quota, identity, admittedIn>>

\* IntegrityError: the transaction is rolled back.
InsertConflict(r, i) ==
    /\ pc[r] = "inserting"
    /\ i \in identity[r]
    /\ Taken(i)
    /\ pc' = [pc EXCEPT ![r] = "finding_winner"]
    /\ UNCHANGED <<clock, quota, rows, outbox, identity, answer, answerId, admittedIn>>

FindWinner(r, i) ==
    /\ pc[r] = "finding_winner"
    /\ i \in identity[r]
    /\ \E row \in Found(i) : AnswerExisting(r, row)
    /\ UNCHANGED <<clock, quota, rows, outbox, identity, admittedIn>>

Respond(r) ==
    /\ pc[r] = "responding"
    /\ pc' = [pc EXCEPT ![r] = "done"]
    /\ UNCHANGED <<clock, quota, rows, outbox, identity, answer, answerId, admittedIn>>

\* The process dies, a database call raises or the response is lost: whatever
\* was committed stays, and the producer learns nothing.
Fail(r) ==
    /\ pc[r] \notin {"arrived", "done"}
    /\ pc' = [pc EXCEPT ![r] = "done"]
    /\ answer' = [answer EXCEPT ![r] = "failed"]
    /\ answerId' = [answerId EXCEPT ![r] = NoRow]
    /\ UNCHANGED <<clock, quota, rows, outbox, identity, admittedIn>>

-----------------------------------------------------------------------------

RequestStep(r) ==
    \/ ConsumeQuota(r)
    \/ Find(r)
    \/ \E i \in identity[r] : Insert(r, i) \/ InsertConflict(r, i) \/ FindWinner(r, i)
    \/ Respond(r)

Next ==
    \/ Tick
    \/ \E r \in Requests : RequestStep(r) \/ Fail(r)

Spec == Init /\ [][Next]_vars

-----------------------------------------------------------------------------
(* The abstract specification of the intake *)

Ledger == INSTANCE IntakeLedger WITH
    IdentitiesOf <- [r \in Requests |-> {IdentityAt(r, t) : t \in Time}]

\* Requests that overlap between the quota, the search, the insert and its
\* conflict are answered as if each were handled at one instant.
LedgerSpec == Ledger!Spec

-----------------------------------------------------------------------------
(* Properties *)

TypeOK ==
    /\ clock \in Time
    /\ quota \in [Services -> [Time -> 0 .. Cardinality(Requests)]]
    /\ rows \subseteq Rows
    /\ outbox \subseteq Requests
    /\ pc \in [Requests -> {"arrived", "admitted", "inserting", "finding_winner",
                            "responding", "done"}]
    /\ identity \in [Requests -> SUBSET Identities]
    /\ answer \in [Requests -> Outcomes]
    /\ answerId \in [Requests -> Requests \cup {NoRow}]
    /\ admittedIn \in [Requests -> Time \cup {-1}]

\* Concurrent requests with one identity leave one notification and one event
\* to fan it out, however they interleave between find and insert.
OneNotificationPerIdentity ==
    /\ \A a, b \in rows : a.identity = b.identity => a = b
    /\ outbox = {row.id : row \in rows}

Answered(r) == answer[r] \in {"created", "existing"}

\* What a producer is told is justified by committed rows: the notification it
\* is given exists, carries the payload it sent and belongs to its service, and
\* a conflict is reported only where its key is taken by another payload.
AnswerJustified ==
    \A r \in Requests :
        /\ Answered(r) =>
            \E row \in rows :
                /\ row.id = answerId[r]
                /\ row.payload = PayloadOf[r]
                /\ row.identity.service = ServiceOf[r]
        /\ answer[r] = "conflict" =>
            /\ KeyOf[r] # NoKey
            /\ \E row \in rows : row.identity \in identity[r] /\ row.payload # PayloadOf[r]

\* All successful answers to one explicit key of one service name the same
\* notification, and one of them at most says it was created.
SameKeySameAnswer ==
    \A r, q \in Requests :
        /\ KeyOf[r] = KeyOf[q] /\ KeyOf[r] # NoKey /\ ServiceOf[r] = ServiceOf[q]
        /\ Answered(r) /\ Answered(q)
        => /\ answerId[r] = answerId[q]
           /\ answer[r] = "created" /\ answer[q] = "created" => r = q

\* Without a key, equal requests of a service leave at most one notification per
\* window, and windows do not overlap, whatever time passes between their steps.
PlainOncePerWindow ==
    \A a, b \in rows :
        /\ a # b /\ a.payload = b.payload /\ a.identity.service = b.identity.service
        /\ KeyOf[a.id] = NoKey /\ KeyOf[b.id] = NoKey
        => \/ a.identity.window - b.identity.window >= DedupWindow
           \/ b.identity.window - a.identity.window >= DedupWindow

AdmittedIn(s, w) == {r \in Requests : ServiceOf[r] = s /\ admittedIn[r] = w}

\* The quota is exact under concurrency: never more than the limit are admitted
\* in a window, and nobody is turned away while there is room.
QuotaExact ==
    \A s \in Services, w \in Time :
        Cardinality(AdmittedIn(s, w)) =
            IF quota[s][w] < QuotaLimit THEN quota[s][w] ELSE QuotaLimit
=============================================================================
