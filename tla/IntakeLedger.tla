---------------------------- MODULE IntakeLedger ----------------------------
(***************************************************************************)
(* What the intake promises its producers, as if every request were        *)
(* handled at one instant: the first request with an identity writes its   *)
(* notification and its event, each later one is answered with that        *)
(* notification, or with a conflict if its payload is another one.  A      *)
(* request may be refused before, and its answer may be lost after.        *)
(***************************************************************************)
CONSTANTS
    Requests,
    IdentitiesOf,  \* request -> the identities it may have, one per window
    PayloadOf,     \* request -> payload
    NoRow

VARIABLES
    rows,      \* notifications: the request that wrote it, identity, payload
    outbox,    \* requests whose notification has an event
    answer,    \* request -> outcome
    answerId   \* request -> the notification it is answered with

Init ==
    /\ rows = {}
    /\ outbox = {}
    /\ answer = [r \in Requests |-> "none"]
    /\ answerId = [r \in Requests |-> NoRow]

Answer(r, outcome, id) ==
    /\ answer' = [answer EXCEPT ![r] = outcome]
    /\ answerId' = [answerId EXCEPT ![r] = id]

Create(r, i) ==
    /\ answer[r] = "none"
    /\ \A row \in rows : row.identity # i
    /\ rows' = rows \cup {[id |-> r, identity |-> i, payload |-> PayloadOf[r]]}
    /\ outbox' = outbox \cup {r}
    /\ Answer(r, "created", r)

Repeat(r, i) ==
    /\ answer[r] = "none"
    /\ \E row \in rows :
        /\ row.identity = i
        /\ IF row.payload = PayloadOf[r]
           THEN Answer(r, "existing", row.id)
           ELSE Answer(r, "conflict", NoRow)
    /\ UNCHANGED <<rows, outbox>>

Refuse(r) ==
    /\ answer[r] = "none"
    /\ Answer(r, "throttled", NoRow)
    /\ UNCHANGED <<rows, outbox>>

Lose(r) ==
    /\ answer[r] # "throttled"
    /\ Answer(r, "failed", NoRow)
    /\ UNCHANGED <<rows, outbox>>

Next == \E r \in Requests :
    \/ \E i \in IdentitiesOf[r] : Create(r, i) \/ Repeat(r, i)
    \/ Refuse(r)
    \/ Lose(r)

Spec == Init /\ [][Next]_<<rows, outbox, answer, answerId>>
=============================================================================
