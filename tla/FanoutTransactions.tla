------------------------- MODULE FanoutTransactions -------------------------
(***************************************************************************)
(* NotificationFanoutService.fanout_notification, run by several consumers *)
(* for one notification at once: the handling of its requested event, of a *)
(* copy of it after a rebalance, and of its replay events.                 *)
(*                                                                         *)
(* Each fanout is one READ COMMITTED transaction and each action one       *)
(* statement of it: a statement sees what is committed when it starts and  *)
(* what its own transaction wrote.  INSERT ... ON CONFLICT DO NOTHING      *)
(* waits for a row another open transaction inserted, row by row in the    *)
(* order of its VALUES, and keeps what it has inserted until then.         *)
(***************************************************************************)
EXTENDS Integers, FiniteSets

CONSTANTS
    Users,         \* user ids: numbers, since the queries order by id
    Channels,      \* channels of the notification
    Fanouts,       \* transactions
    BlockSize,     \* users each member of Users stands for: a block of
                   \* adjacent ids that join and leave the audience together
    MaxRecipients, MaxDeliveries,
    BindLimit,     \* parameters PostgreSQL takes in one statement
    MaxAborts,     \* bound on failed transactions
    MaxChanges     \* bound on changes of the audience

ASSUME BoundAssumption ==
    /\ Users \subseteq Nat
    /\ BlockSize \in Nat \ {0}
    /\ BindLimit \in Nat
    /\ MaxRecipients \in Nat
    /\ MaxDeliveries \in Nat
    /\ MaxAborts \in Nat
    /\ MaxChanges \in Nat
ASSUME FinitenessAssumption == IsFiniteSet(Users) /\ IsFiniteSet(Channels)

\* Columns the multi-row INSERTs bind for each row.
RecipientColumns == 4
DeliveryColumns == 11

\* The recipients statement of an admitted fanout fits: true of the defaults.
ASSUME RecipientsFitAssumption == MaxRecipients * RecipientColumns =< BindLimit

VARIABLES
    audience,       \* active users the audience selects now
    recipients,     \* committed rows of notification_recipients (users)
    deliveries,     \* committed rows of notification_deliveries (user, channel)
    counts,         \* committed recipient_count and delivery_count
    \* per transaction: control point, counts loaded with the notification,
    \* resolved users, users still to insert, and what it inserted or counted
    pc, loaded, users, missing, ownRecipients, ownDeliveries, counted,
    aborts, changes

rowVars == <<recipients, deliveries, counts>>
txnVars == <<pc, loaded, users, missing, ownRecipients, ownDeliveries, counted>>
vars == <<audience, rowVars, txnVars, aborts, changes>>

NoCounts == [r |-> 0, d |-> 0]

Init ==
    /\ audience \in SUBSET Users
    /\ recipients = {}
    /\ deliveries = {}
    /\ counts = NoCounts
    /\ pc = [t \in Fanouts |-> "idle"]
    /\ loaded = [t \in Fanouts |-> NoCounts]
    /\ users = [t \in Fanouts |-> {}]
    /\ missing = [t \in Fanouts |-> {}]
    /\ ownRecipients = [t \in Fanouts |-> {}]
    /\ ownDeliveries = [t \in Fanouts |-> {}]
    /\ counted = [t \in Fanouts |-> NoCounts]
    /\ aborts = 0
    /\ changes = 0

Goto(t, from, to) == pc[t] = from /\ pc' = [pc EXCEPT ![t] = to]

\* What a statement of t sees.
Recipients(t) == recipients \cup ownRecipients[t]
Deliveries(t) == deliveries \cup ownDeliveries[t]

-----------------------------------------------------------------------------

Load(t) ==
    /\ Goto(t, "idle", "resolving")
    /\ loaded' = [loaded EXCEPT ![t] = counts]
    /\ UNCHANGED <<audience, rowVars, users, missing, ownRecipients, ownDeliveries,
                   counted, aborts, changes>>

OverLimit(selected) ==
    \/ Cardinality(selected) * BlockSize > MaxRecipients
    \/ Cardinality(selected) * BlockSize * Cardinality(Channels) > MaxDeliveries

Resolve(t) ==
    /\ ~OverLimit(audience)
    /\ Goto(t, "resolving", "listing")
    /\ users' = [users EXCEPT ![t] = audience]
    /\ UNCHANGED <<audience, rowVars, loaded, missing, ownRecipients, ownDeliveries,
                   counted, aborts, changes>>

\* Mutation of Missing: recipients are created only if there are none.
MissingAtFirst(t) == IF Recipients(t) = {} THEN users[t] ELSE {}

Missing(t) == users[t] \ Recipients(t)

ListMissing(t) ==
    /\ Goto(t, "listing", "inserting")
    /\ missing' = [missing EXCEPT ![t] = Missing(t)]
    /\ UNCHANGED <<audience, rowVars, loaded, users, ownRecipients, ownDeliveries,
                   counted, aborts, changes>>

\* Mutation of NextUser: the audience is not ordered.
NextUserAny(t) == missing[t]

\* The next row of the VALUES list: user ids come ordered from the query.
NextUser(t) == {u \in missing[t] : \A v \in missing[t] : u =< v}

\* Mutation of Uncommitted: the conflict check does not wait.
UncommittedIgnored(t, u) == FALSE

\* Another open transaction inserted the row: the insert has to wait.
Uncommitted(t, u) == \E s \in Fanouts \ {t} : u \in ownRecipients[s]

InsertRecipient(t, u) ==
    /\ pc[t] = "inserting"
    /\ u \in NextUser(t)
    /\ ~Uncommitted(t, u)
    /\ missing' = [missing EXCEPT ![t] = @ \ {u}]
    /\ ownRecipients' = [ownRecipients EXCEPT ![t] = @ \cup ({u} \ recipients)]
    /\ UNCHANGED <<audience, rowVars, pc, loaded, users, ownDeliveries, counted,
                   aborts, changes>>

\* The recipients are listed again; their number becomes recipient_count.
ListRecipients(t) ==
    /\ missing[t] = {}
    /\ Goto(t, "inserting", "delivering")
    /\ counted' = [counted EXCEPT ![t].r = Cardinality(Recipients(t))]
    /\ UNCHANGED <<audience, rowVars, loaded, users, missing, ownRecipients,
                   ownDeliveries, aborts, changes>>

\* Mutation of Wanted: existing recipients get their deliveries only.
WantedOfRecipients(t) == (users[t] \cap recipients) \X Channels

Wanted(t) == users[t] \X Channels

\* The delivery pairs are listed and the missing ones inserted, all by one
\* statement.
Fits(t) ==
    Cardinality(Wanted(t) \ Deliveries(t)) * BlockSize * DeliveryColumns =< BindLimit

InsertDeliveries(t) ==
    /\ Fits(t)
    /\ \A s \in Fanouts \ {t} : ownDeliveries[s] \cap Wanted(t) = {}
    /\ Goto(t, "delivering", "counting")
    /\ ownDeliveries' = [ownDeliveries EXCEPT ![t] = Wanted(t) \ deliveries]
    /\ UNCHANGED <<audience, rowVars, loaded, users, missing, ownRecipients, counted,
                   aborts, changes>>

CountDeliveries(t) ==
    /\ Goto(t, "counting", "committing")
    /\ counted' = [counted EXCEPT ![t].d = Cardinality(Deliveries(t))]
    /\ UNCHANGED <<audience, rowVars, loaded, users, missing, ownRecipients,
                   ownDeliveries, aborts, changes>>

\* The open transaction ends; a later event may start it anew.
Close(t) ==
    /\ pc' = [pc EXCEPT ![t] = "idle"]
    /\ loaded' = [loaded EXCEPT ![t] = NoCounts]
    /\ users' = [users EXCEPT ![t] = {}]
    /\ missing' = [missing EXCEPT ![t] = {}]
    /\ ownRecipients' = [ownRecipients EXCEPT ![t] = {}]
    /\ ownDeliveries' = [ownDeliveries EXCEPT ![t] = {}]
    /\ counted' = [counted EXCEPT ![t] = NoCounts]

\* Mutation of Flushed: the counts are added to the committed ones.
FlushedAdding(t) ==
    [r |-> counts.r + counted[t].r, d |-> counts.d + counted[t].d]

\* The session writes a count only if it differs from the one it loaded.
Flushed(t) ==
    [r |-> IF counted[t].r # loaded[t].r THEN counted[t].r ELSE counts.r,
     d |-> IF counted[t].d # loaded[t].d THEN counted[t].d ELSE counts.d]

Commit(t) ==
    /\ pc[t] = "committing"
    /\ recipients' = Recipients(t)
    /\ deliveries' = Deliveries(t)
    /\ counts' = Flushed(t)
    /\ Close(t)
    /\ UNCHANGED <<audience, aborts, changes>>

\* FanoutLimitExceeded: nothing was written.
RejectOverLimit(t) ==
    /\ pc[t] = "resolving"
    /\ OverLimit(audience)
    /\ Close(t)
    /\ UNCHANGED <<audience, rowVars, aborts, changes>>

\* The statement has more parameters than the protocol can count: it raises
\* before it is sent and the transaction is rolled back.
RejectStatement(t) ==
    /\ pc[t] = "delivering"
    /\ ~Fits(t)
    /\ Close(t)
    /\ UNCHANGED <<audience, rowVars, aborts, changes>>

\* A statement raises or the process dies: the transaction is rolled back.
Abort(t) ==
    /\ pc[t] # "idle"
    /\ aborts < MaxAborts
    /\ aborts' = aborts + 1
    /\ Close(t)
    /\ UNCHANGED <<audience, rowVars, changes>>

\* Users join or leave the audience, or are (de)activated.
ChangeAudience ==
    /\ changes < MaxChanges
    /\ changes' = changes + 1
    /\ audience' \in SUBSET Users
    /\ UNCHANGED <<rowVars, txnVars, aborts>>

FanoutStep(t) ==
    \/ Load(t)
    \/ Resolve(t)
    \/ ListMissing(t)
    \/ \E u \in Users : InsertRecipient(t, u)
    \/ ListRecipients(t)
    \/ InsertDeliveries(t)
    \/ CountDeliveries(t)
    \/ Commit(t)
    \/ RejectOverLimit(t)
    \/ RejectStatement(t)

Next ==
    \/ \E t \in Fanouts : FanoutStep(t) \/ Abort(t)
    \/ ChangeAudience

Spec == Init /\ [][Next]_vars

-----------------------------------------------------------------------------
(* The abstract specification of a fanout *)

Ledger == INSTANCE FanoutLedger WITH
    resolved <- [t \in Fanouts |->
        IF pc[t] \in {"idle", "resolving"} THEN {} ELSE {users[t]}]

\* Overlapping READ COMMITTED transactions that wait, conflict and abort leave
\* what fanouts leave that run one at a time, each to the audience it resolved.
LedgerSpec == Ledger!Spec

-----------------------------------------------------------------------------
(* Properties *)

Counts == [r : 0 .. Cardinality(Users),
           d : 0 .. Cardinality(Users) * Cardinality(Channels)]

TypeOK ==
    /\ audience \subseteq Users
    /\ recipients \subseteq Users
    /\ deliveries \subseteq Users \X Channels
    /\ counts \in Counts
    /\ pc \in [Fanouts -> {"idle", "resolving", "listing", "inserting", "delivering",
                           "counting", "committing"}]
    /\ loaded \in [Fanouts -> Counts]
    /\ users \in [Fanouts -> SUBSET Users]
    /\ missing \in [Fanouts -> SUBSET Users]
    /\ ownRecipients \in [Fanouts -> SUBSET Users]
    /\ ownDeliveries \in [Fanouts -> SUBSET (Users \X Channels)]
    /\ counted \in [Fanouts -> Counts]
    /\ aborts \in 0 .. MaxAborts
    /\ changes \in 0 .. MaxChanges

\* No two transactions insert one row.
InsertsDisjoint ==
    \A s, t \in Fanouts : s # t =>
        /\ ownRecipients[s] \cap Recipients(t) = {}
        /\ ownDeliveries[s] \cap Deliveries(t) = {}

\* After its inserts a transaction sees a recipient row for every user it
\* resolved, also those another transaction inserted.
RecipientsKnown ==
    \A t \in Fanouts : pc[t] \in {"delivering", "counting", "committing"} =>
        users[t] \subseteq Recipients(t)

\* No fanout fails because another one runs: the unique constraints are never
\* violated, and looking up the recipient id of a delivery cannot fail.
FanoutsIndependent == InsertsDisjoint /\ RecipientsKnown

\* Whatever ran, failed or was resolved anew in between, every recipient has
\* exactly one delivery on every channel.
RecipientsFullyServed == deliveries = recipients \X Channels

\* The stored counts never exceed the rows, and are exact as long as the
\* audience did not change under the fanouts.
CountsBounded ==
    /\ counts.r =< Cardinality(recipients)
    /\ counts.d =< Cardinality(deliveries)
    /\ changes = 0 => /\ counts.r = Cardinality(recipients)
                      /\ counts.d = Cardinality(deliveries)

WaitsFor(s, t) ==
    /\ pc[s] = "inserting"
    /\ NextUser(s) \cap ownRecipients[t] # {}

\* Two fanouts never wait for each other's rows.
NoCircularWait == ~ \E s, t \in Fanouts : s # t /\ WaitsFor(s, t) /\ WaitsFor(t, s)

\* The design's promise for the default limits: an audience of the 5,000 demo
\* users is not rejected.  Short of an aborted statement, a fanout to that many
\* users that the limits admitted commits.
DemoUsers == 5000
AdmittedFits ==
    [][\A t \in Fanouts :
        /\ Cardinality(users[t]) * BlockSize =< DemoUsers
        /\ pc[t] \in {"listing", "inserting", "delivering"} /\ pc'[t] = "idle"
        => aborts' # aborts]_vars
=============================================================================
