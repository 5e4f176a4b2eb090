------------------------------ MODULE Pipeline ------------------------------
(***************************************************************************)
(* One notification on its way through the system: the transaction that    *)
(* accepts it and adds its event, the outbox, the topic, the consumer that *)
(* fans it out to the audience the directory selects at that moment, the   *)
(* delivery rows, and a retry that sends the notification round again.     *)
(*                                                                         *)
(* Outbox and deliveries are the ledgers that OutboxPublisher and          *)
(* DeliveryWorkers implement; the consumer is the single owner of the      *)
(* topic.  The notification has one channel, so a row is a user.           *)
(***************************************************************************)
EXTENDS Directory, Sequences, Functions

CONSTANTS
    Selection,       \* audience of the notification
    OutboxAttempts,  \* outbox_max_attempts
    MaxAttempts,     \* max_attempts of a delivery
    MaxDuplicates,   \* bounds: copies of events on the topic,
    MaxDisruptions   \*   restarts of the consumer and exceptions in it

ASSUME PipelineAssumption ==
    /\ Selection \in Selections
    /\ OutboxAttempts \in Nat \ {0}
    /\ MaxAttempts \in Nat \ {0}
    /\ MaxDuplicates \in Nat
    /\ MaxDisruptions \in Nat

VARIABLES
    eventPhase, eventFails,   \* outbox
    topic,                    \* events on the topic, in order
    committed, position, pc,  \* consumer
    processed,                \* processed_events
    rows,                     \* users with a recipient and a delivery row
    phase, tries,             \* deliveries
    dropped,                  \* history: events in hand when an exception was raised
    disruptions

outboxVars == <<eventPhase, eventFails, topic>>
consumerVars == <<committed, position, pc, processed, dropped, disruptions>>
deliveryVars == <<rows, phase, tries>>
vars == <<directoryVars, outboxVars, consumerVars, deliveryVars>>

Events == {"requested", "replay"}

Outbox == INSTANCE OutboxLedger WITH
    MaxAttempts <- OutboxAttempts, phase <- eventPhase, fails <- eventFails,
    stored <- Range(topic)
Deliveries == INSTANCE DeliveryLedger WITH Deliveries <- Profiles

Init ==
    /\ DirectoryInit
    /\ topic = <<>>
    /\ Outbox!Init
    /\ Deliveries!Init
    /\ rows = {}
    /\ committed = 0 /\ position = 0 /\ pc = "idle"
    /\ processed = {}
    /\ dropped = {}
    /\ disruptions = 0

-----------------------------------------------------------------------------
(* API and directory *)

\* The creation transaction adds the requested event.
Accept ==
    /\ UNCHANGED topic
    /\ Outbox!Add("requested")
    /\ UNCHANGED <<directoryVars, consumerVars, deliveryVars>>

\* Mutation of Eligible: the event is added for any notification there is.
EligibleAny == eventPhase["requested"] # "absent"

\* Some row's last try failed and may be repeated.
Eligible == \E u \in rows : phase[u] = "open" /\ tries[u] > 0

\* The retry transaction adds the replay event; that the rows become due at once
\* is invisible to the ledger.
Retry ==
    /\ UNCHANGED topic
    /\ Eligible
    /\ Outbox!Add("replay")
    /\ UNCHANGED <<directoryVars, consumerVars, deliveryVars>>

ChangeDirectory ==
    /\ Edit \/ Seed
    /\ UNCHANGED <<outboxVars, consumerVars, deliveryVars>>

-----------------------------------------------------------------------------
(* Outbox publisher *)

Claim(e) ==
    /\ UNCHANGED topic
    /\ Outbox!Take({e})
    /\ UNCHANGED <<directoryVars, consumerVars, deliveryVars>>

\* The broker appends the event, perhaps once more.
Store(e) ==
    /\ e \in Range(topic) => Len(topic) - Cardinality(Range(topic)) < MaxDuplicates
    /\ topic' = Append(topic, e)
    /\ Outbox!Store(e)
    /\ UNCHANGED <<directoryVars, consumerVars, deliveryVars>>

Finalize(e) ==
    /\ UNCHANGED topic
    /\ Outbox!ReportPublished(e) \/ Outbox!ReportFailed(e)
    /\ UNCHANGED <<directoryVars, consumerVars, deliveryVars>>

-----------------------------------------------------------------------------
(* Consumer *)

Event == topic[position]

\* Read a record and look it up in processed_events.
Consume ==
    /\ pc = "idle"
    /\ position < Len(topic)
    /\ position' = position + 1
    /\ pc' = IF topic[position'] \in processed THEN "committing" ELSE "handling"
    /\ UNCHANGED <<committed, processed, dropped, disruptions>>
    /\ UNCHANGED <<directoryVars, outboxVars, deliveryVars>>

\* Mutation of NewRow: rows that exist are set back (ON CONFLICT DO UPDATE).
NewRowAny(u) == TRUE

\* The rows the fanout inserts: ON CONFLICT DO NOTHING.
NewRow(u) == u \notin rows

\* The fanout transaction, for a requested and for a replay event.
Handle ==
    /\ pc = "handling"
    /\ rows' = rows \cup Resolve(Selection)
    /\ LET inserted == {u \in Resolve(Selection) : NewRow(u)}
       IN  /\ phase' = [u \in Profiles |-> IF u \in inserted THEN "open" ELSE phase[u]]
           /\ tries' = [u \in Profiles |-> IF u \in inserted THEN 0 ELSE tries[u]]
    /\ pc' = "marking"
    /\ UNCHANGED <<committed, position, processed, dropped, disruptions>>
    /\ UNCHANGED <<directoryVars, outboxVars>>

Mark ==
    /\ pc = "marking"
    /\ processed' = processed \cup {Event}
    /\ pc' = "committing"
    /\ UNCHANGED <<committed, position, dropped, disruptions>>
    /\ UNCHANGED <<directoryVars, outboxVars, deliveryVars>>

Commit ==
    /\ pc = "committing"
    /\ committed' = position
    /\ pc' = "idle"
    /\ UNCHANGED <<position, processed, dropped, disruptions>>
    /\ UNCHANGED <<directoryVars, outboxVars, deliveryVars>>

\* A call of the poll raises: the next poll reads the next record.
Raise ==
    /\ pc # "idle"
    /\ disruptions < MaxDisruptions
    /\ disruptions' = disruptions + 1
    /\ dropped' = dropped \cup {Event}
    /\ pc' = "idle"
    /\ UNCHANGED <<committed, position, processed>>
    /\ UNCHANGED <<directoryVars, outboxVars, deliveryVars>>

\* Mutation of ResumeOffset: where it stood in memory.
ResumeOffsetInMemory == position

ResumeOffset == committed

Crash ==
    /\ disruptions < MaxDisruptions
    /\ disruptions' = disruptions + 1
    /\ position' = ResumeOffset
    /\ pc' = "idle"
    /\ UNCHANGED <<committed, processed, dropped>>
    /\ UNCHANGED <<directoryVars, outboxVars, deliveryVars>>

-----------------------------------------------------------------------------
(* Delivery worker *)

Take(u) ==
    /\ u \in rows
    /\ Deliveries!Take({u})
    /\ UNCHANGED <<directoryVars, outboxVars, consumerVars, rows>>

Report(u) ==
    /\ \E result \in {"open", "delivered", "failed_terminal"} : Deliveries!Report(u, result)
    /\ UNCHANGED <<directoryVars, outboxVars, consumerVars, rows>>

-----------------------------------------------------------------------------

\* A publisher publishes what it has claimed; a copy, or an event that was given
\* up meanwhile, the broker stores or not.
PublisherStep(e) ==
    \/ Claim(e)
    \/ Finalize(e)
    \/ eventPhase[e] = "claimed" /\ e \notin Range(topic) /\ Store(e)
ConsumerStep == Consume \/ Handle \/ Mark \/ Commit
DeliveryStep(u) == Take(u) \/ Report(u)

Next ==
    \/ Accept \/ Retry \/ ChangeDirectory
    \/ \E e \in Events : PublisherStep(e) \/ Store(e)
    \/ ConsumerStep \/ Raise \/ Crash
    \/ \E u \in Profiles : DeliveryStep(u)

Spec == Init /\ [][Next]_vars

\* The workers poll for ever.  That an event or a row that is claimed again and
\* again settles in the end is what EventuallySettled says of the modules that
\* implement the ledgers.
Fairness ==
    /\ \A e \in Events : WF_vars(PublisherStep(e))
    /\ WF_vars(ConsumerStep)
    /\ \A u \in Profiles : WF_vars(DeliveryStep(u))

FairSpec == Spec /\ Fairness

-----------------------------------------------------------------------------
(* Refinement *)

\* A user is addressed by a row; the audience is what the selection means, not
\* what the queries return.
Service == INSTANCE NotificationLedger WITH
    Users <- Profiles,
    audience <- Meant(Selection),
    accepted <- eventPhase["requested"] # "absent",
    status <- [u \in Profiles |-> IF u \in rows THEN phase[u] ELSE "none"]

\* The pipeline keeps the broker's promise of one notification: copies of
\* events, replays, restarts of the consumer and exceptions in it, and a
\* directory that is edited and seeded again are invisible in it.
ServiceSpec == Service!Spec

-----------------------------------------------------------------------------
(* Properties *)

Settled(u) == phase[u] \in {"delivered", "failed_terminal"}

TypeOK ==
    /\ active \subseteq users
    /\ users \subseteq Profiles
    /\ \A r \in userLabels : r[1] \in users /\ r[2] \in Keys
    /\ LabelsUnique
    /\ seeded \in BOOLEAN
    /\ memberships \subseteq users \X groups
    /\ eventPhase \in [Events ->
            {"absent", "open", "claimed", "published", "failed_terminal"}]
    /\ eventFails \in [Events -> 0 .. OutboxAttempts]
    /\ topic \in Seq(Events)
    /\ committed \in 0 .. position
    /\ position \in 0 .. Len(topic)
    /\ pc \in {"idle", "handling", "marking", "committing"}
    /\ processed \subseteq Events
    /\ rows \subseteq Profiles
    /\ phase \in [Profiles -> {"open", "claimed", "delivered", "failed_terminal"}]
    /\ tries \in [Profiles -> 0 .. MaxAttempts]
    /\ dropped \subseteq Events

\* A copy of an event and a replay go through the whole fanout again, but no
\* user who was served, or given up, is served a second time.
ServedOnce ==
    [][\A u \in rows : Settled(u) => Settled(u)' /\ tries'[u] = tries[u]]_vars

\* What the topic says comes in the order of its causes: a replay follows a copy
\* of the request whose rows it retries, and every row follows one too.
CausesFirst ==
    /\ rows # {} => "requested" \in Range(topic)
    /\ \A i \in DOMAIN topic : topic[i] = "replay" =>
            \E j \in 1 .. i - 1 : topic[j] = "requested"

\* An accepted notification reaches the end of the pipeline and stays there: its
\* event is processed and every delivery row it has, those of a replay
\* included, is settled, unless the broker never got the event in all its
\* attempts, or an exception dropped it.  An event given up by the outbox may
\* still be on the topic, and is then served like any other.
Served ==
    \/ eventPhase["requested"] = "failed_terminal" /\ "requested" \notin Range(topic)
    \/ "requested" \in dropped
    \/ "requested" \in processed /\ \A u \in rows : Settled(u)
EventuallyServed == eventPhase["requested"] = "open" ~> []Served
=============================================================================
