------------------------ MODULE NotificationConsumer ------------------------
(***************************************************************************)
(* The notification consumers: Kafka partitions read by the members of one *)
(* consumer group, the table of processed events, the dead-letter topic    *)
(* and the fanout each event triggers, for the events of one notification. *)
(*                                                                         *)
(* A consumer reads one record at a time.  Reading advances the position   *)
(* its client keeps in memory; commit() stores the positions of all the    *)
(* partitions the consumer owns.  An exception abandons the poll, the      *)
(* runtime logs it and polls again: the position is not moved back.  Only  *)
(* a restart or a rebalance returns to the committed offsets.              *)
(***************************************************************************)
EXTENDS Integers, Sequences, FiniteSets

CONSTANTS
    Partitions,
    Log,             \* partition -> its records: an event or Invalid
    Events,          \* outbox events; a record may be a copy of an earlier one
    Invalid,         \* a record that decodes to no supported envelope
    TypeOf,          \* event -> "requested" or "replay_requested"
    Users,
    MaxRecipients,   \* limit on the resolved audience
    Consumers,
    NoRecord,
    MaxDisruptions,  \* bound on crashes, exceptions and rebalances explored
    MaxChanges       \* bound on changes of the audience

ASSUME LogAssumption ==
    /\ Invalid \notin Events
    /\ Log \in [Partitions -> Seq(Events \cup {Invalid})]
    /\ TypeOf \in [Events -> {"requested", "replay_requested"}]
ASSUME BoundAssumption ==
    /\ MaxRecipients \in Nat
    /\ MaxDisruptions \in Nat
    /\ MaxChanges \in Nat
ASSUME ConsumersAssumption == IsFiniteSet(Consumers)

\* The copies of an event carry its key, and so share a partition.
ASSUME CopiesAssumption ==
    \A p, q \in Partitions :
        \A i \in 1 .. Len(Log[p]), j \in 1 .. Len(Log[q]) :
            Log[p][i] = Log[q][j] /\ Log[p][i] # Invalid => p = q

VARIABLES
    owner,        \* partition -> the consumer it is assigned to
    committed,    \* partition -> records covered by the committed offset
    position,     \* partition -> records its owner has read
    pc, record,   \* consumer -> control point, and the record in hand
    processed,    \* rows of processed_events
    audience,     \* users the notification's audience selects now
    recipients,   \* users with recipient and delivery rows
    deadLetters,  \* records published to the dead-letter topic
    abandoned,    \* history: records in hand when an exception was raised
    handled,      \* history: event -> completed fanouts (saturating)
    disruptions, changes

kafkaVars == <<owner, committed, position>>
tableVars == <<processed, recipients, deadLetters>>
boundVars == <<disruptions, changes>>
vars == <<kafkaVars, pc, record, tableVars, audience, abandoned, handled, boundVars>>

Content(r) == Log[r[1]][r[2]]
MaxHandled == MaxDisruptions + 2 \* bound: saturation

Init ==
    /\ owner \in [Partitions -> Consumers]
    /\ committed = [p \in Partitions |-> 0]
    /\ position = [p \in Partitions |-> 0]
    /\ pc = [c \in Consumers |-> "idle"]
    /\ record = [c \in Consumers |-> NoRecord]
    /\ processed = {}
    /\ audience \in SUBSET Users
    /\ recipients = {}
    /\ deadLetters = {}
    /\ abandoned = {}
    /\ handled = [e \in Events |-> 0]
    /\ disruptions = 0 /\ changes = 0

-----------------------------------------------------------------------------
(* One record: consume, decode, handle, mark, commit *)

\* A replay event is written by a retry of a failed delivery, so only after a
\* fanout created deliveries.
Written(r) ==
    \A i \in 1 .. r[2] :
        LET content == Log[r[1]][i]
        IN  content \in Events /\ TypeOf[content] = "replay_requested" => recipients # {}

HasRecord(p) == position[p] < Len(Log[p]) /\ Written(<<p, position[p] + 1>>)

Consume(c, p) ==
    /\ pc[c] = "idle"
    /\ owner[p] = c
    /\ HasRecord(p)
    /\ position' = [position EXCEPT ![p] = @ + 1]
    /\ record' = [record EXCEPT ![c] = <<p, position[p] + 1>>]
    /\ pc' = [pc EXCEPT ![c] = "received"]
    /\ UNCHANGED <<owner, committed, tableVars, audience, abandoned, handled, boundVars>>

\* An undecodable record is published to the dead-letter topic.
DeadLetter(c) ==
    /\ pc[c] = "received"
    /\ Content(record[c]) = Invalid
    /\ deadLetters' = deadLetters \cup {record[c]}
    /\ pc' = [pc EXCEPT ![c] = "committing"]
    /\ UNCHANGED <<kafkaVars, record, processed, recipients, audience, abandoned,
                   handled, boundVars>>

\* Mutation of AlreadyProcessed: no deduplication by event id.
AlreadyProcessedNever(e) == FALSE

AlreadyProcessed(e) == e \in processed

Check(c) ==
    /\ pc[c] = "received"
    /\ Content(record[c]) # Invalid
    /\ pc' = [pc EXCEPT ![c] =
                IF AlreadyProcessed(Content(record[c])) THEN "committing" ELSE "handling"]
    /\ UNCHANGED <<kafkaVars, record, tableVars, audience, abandoned, handled, boundVars>>

\* The handler fans the notification out to the audience as it is now; events
\* of both types take this path.
Handle(c) ==
    /\ pc[c] = "handling"
    /\ Cardinality(audience) =< MaxRecipients
    /\ recipients' = recipients \cup audience
    /\ handled' = [handled EXCEPT ![Content(record[c])] =
                        IF @ < MaxHandled THEN @ + 1 ELSE @]
    /\ pc' = [pc EXCEPT ![c] = "marking"]
    /\ UNCHANGED <<kafkaVars, record, processed, deadLetters, audience, abandoned,
                   boundVars>>

\* Back to polling without the record in hand.
Drop(c) ==
    /\ pc' = [pc EXCEPT ![c] = "idle"]
    /\ record' = [record EXCEPT ![c] = NoRecord]

\* The audience is over the limit: FanoutLimitExceeded, nothing is written.
HandleTooLarge(c) ==
    /\ pc[c] = "handling"
    /\ Cardinality(audience) > MaxRecipients
    /\ Drop(c)
    /\ abandoned' = abandoned \cup {record[c]}
    /\ UNCHANGED <<kafkaVars, tableVars, audience, handled, boundVars>>

Mark(c) ==
    /\ pc[c] = "marking"
    /\ Content(record[c]) \notin processed
    /\ processed' = processed \cup {Content(record[c])}
    /\ pc' = [pc EXCEPT ![c] = "committing"]
    /\ UNCHANGED <<kafkaVars, record, recipients, deadLetters, audience, abandoned,
                   handled, boundVars>>

\* Another consumer marked the event first: IntegrityError, the poll ends.
MarkConflict(c) ==
    /\ pc[c] = "marking"
    /\ Content(record[c]) \in processed
    /\ Drop(c)
    /\ UNCHANGED <<kafkaVars, tableVars, audience, abandoned, handled, boundVars>>

Commit(c) ==
    /\ pc[c] = "committing"
    /\ committed' = [p \in Partitions |->
                        IF owner[p] = c THEN position[p] ELSE committed[p]]
    /\ Drop(c)
    /\ UNCHANGED <<owner, position, tableVars, audience, abandoned, handled, boundVars>>

-----------------------------------------------------------------------------
(* Failures *)

\* A broker or database call raises and the runtime starts the next poll.  A
\* dead-letter publish that raises may have been stored.
Raise(c) ==
    /\ pc[c] # "idle"
    /\ disruptions < MaxDisruptions
    /\ disruptions' = disruptions + 1
    /\ \/ UNCHANGED deadLetters
       \/ /\ pc[c] = "received"
          /\ Content(record[c]) = Invalid
          /\ deadLetters' = deadLetters \cup {record[c]}
    /\ abandoned' = abandoned \cup {record[c]}
    /\ Drop(c)
    /\ UNCHANGED <<kafkaVars, processed, recipients, audience, handled, changes>>

\* Mutation of ResumeOffset: where it stood in memory.
ResumeOffsetInMemory(p) == position[p]

\* Where a consumer that is assigned partition p starts to read.
ResumeOffset(p) == committed[p]

\* The process dies and restarts with its partitions.
Crash(c) ==
    /\ disruptions < MaxDisruptions
    /\ disruptions' = disruptions + 1
    /\ position' = [p \in Partitions |->
                        IF owner[p] = c THEN ResumeOffset(p) ELSE position[p]]
    /\ Drop(c)
    /\ UNCHANGED <<owner, committed, tableVars, audience, abandoned, handled, changes>>

\* The group is rebalanced: every member starts from the committed offsets of
\* its new partitions, while the record it was working on stays in its hands.
Rebalance ==
    /\ disruptions < MaxDisruptions
    /\ disruptions' = disruptions + 1
    /\ owner' \in [Partitions -> Consumers]
    /\ position' = [p \in Partitions |-> ResumeOffset(p)]
    /\ UNCHANGED <<committed, pc, record, tableVars, audience, abandoned, handled,
                   changes>>

\* Users join or leave the audience, or are (de)activated.
ChangeAudience ==
    /\ changes < MaxChanges
    /\ changes' = changes + 1
    /\ audience' \in SUBSET Users
    /\ UNCHANGED <<kafkaVars, pc, record, tableVars, abandoned, handled,
                   disruptions>>

-----------------------------------------------------------------------------

ConsumerStep(c) ==
    \/ \E p \in Partitions : Consume(c, p)
    \/ DeadLetter(c)
    \/ Check(c)
    \/ Handle(c)
    \/ HandleTooLarge(c)
    \/ Mark(c)
    \/ MarkConflict(c)
    \/ Commit(c)

Next ==
    \/ \E c \in Consumers : ConsumerStep(c) \/ Raise(c) \/ Crash(c)
    \/ Rebalance
    \/ ChangeAudience

Spec == Init /\ [][Next]_vars

\* A poll cycle that returned or raised is followed by the next one.
Fairness == \A c \in Consumers : WF_vars(ConsumerStep(c))

FairSpec == Spec /\ Fairness

-----------------------------------------------------------------------------
(* The abstract specification of the consumer group *)

LogRecords == UNION {{<<p, i>> : i \in 1 .. Len(Log[p])} : p \in Partitions}

Ledger == INSTANCE ConsumerLedger WITH
    Records <- LogRecords,
    ContentOf <- [r \in LogRecords |-> Content(r)],
    dropped <- abandoned,
    passed <- {r \in LogRecords : r[2] =< committed[r[1]]}

\* However records, rebalances, restarts and exceptions interleave, the group
\* keeps what it promises of every record.
LedgerSpec == Ledger!Spec

-----------------------------------------------------------------------------
(* Properties *)

TypeOK ==
    /\ owner \in [Partitions -> Consumers]
    /\ \A p \in Partitions :
        /\ committed[p] \in 0 .. Len(Log[p])
        /\ position[p] \in committed[p] .. Len(Log[p])
    /\ pc \in [Consumers ->
                {"idle", "received", "handling", "marking", "committing"}]
    /\ record \in [Consumers -> LogRecords \cup {NoRecord}]
    /\ processed \subseteq Events
    /\ audience \subseteq Users
    /\ recipients \subseteq Users
    /\ deadLetters \subseteq LogRecords
    /\ abandoned \subseteq LogRecords
    /\ handled \in [Events -> 0 .. MaxHandled]

\* What became of record r: its event is marked, or it is dead-lettered, or an
\* exception was raised while a consumer had it in hand.
AccountedFor(r) ==
    \/ Content(r) \in processed
    \/ r \in deadLetters
    \/ r \in abandoned

\* No offset is committed past a record that a crash or a rebalance
\* interrupted: only an exception can make the group pass over a record.
CommittedAccountedFor ==
    \A r \in LogRecords : r[2] =< committed[r[1]] => AccountedFor(r)

\* An event is fanned out once, plus at most once for each crash, exception or
\* rebalance, however many copies of it the topic holds.
HandledOncePerDisruption ==
    \A e \in Events : handled[e] =< 1 + disruptions

\* The design's rule for poison records: the source offset is committed only
\* after the dead-letter publish of the record succeeded.
CommittedIsDeadLettered ==
    \A r \in LogRecords :
        r[2] =< committed[r[1]] /\ Content(r) = Invalid => r \in deadLetters

\* The architecture's rule for retries: handling a replay event creates no
\* recipient.
ReplayKeepsRecipients ==
    [][\A c \in Consumers :
        (pc[c] = "handling" /\ TypeOf[Content(record[c])] = "replay_requested"
                            /\ pc'[c] = "marking")
            => recipients' = recipients]_vars

\* A committed offset never moves back, although consumers that lost a
\* partition still finish the record they hold and commit.
CommitForward == [][\A p \in Partitions : committed'[p] >= committed[p]]_vars

\* Every record written is eventually processed, dead-lettered or dropped by an
\* exception: crashes and rebalances alone lose nothing.
EventuallyAccountedFor == \A r \in LogRecords : Written(r) ~> AccountedFor(r)
=============================================================================
