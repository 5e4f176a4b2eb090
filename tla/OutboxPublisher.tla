-------------------------- MODULE OutboxPublisher --------------------------
(***************************************************************************)
(* The transactional outbox: events written with the business rows, and    *)
(* the publisher processes that claim them under a lease, publish them to  *)
(* the topic and record the result.                                        *)
(*                                                                         *)
(* A publish that raises may still have reached the broker, and a process  *)
(* may die between the publish and the transaction that records it, so an  *)
(* event may be on the topic more than once.  Time is modelled as in       *)
(* DeliveryWorkers: Horizon stands for every later instant.                *)
(***************************************************************************)
EXTENDS Integers, FiniteSets

CONSTANTS
    Events,         \* rows of outbox_events
    Publishers,     \* outbox publisher processes
    Tokens,         \* claim tokens (uuid4)
    NoToken,        \* claim_token IS NULL
    NoEvent,        \* no event in progress
    MaxAttempts,    \* outbox_max_attempts
    BatchSize,      \* limit of one claim
    LeaseDuration,
    RetryDelay,
    Horizon,        \* bound: the last clock value told apart
    MaxAborts       \* bound: crashes and database errors explored

ASSUME NullAssumption ==
    /\ NoToken \notin Tokens
    /\ NoEvent \notin Events
ASSUME BoundAssumption ==
    /\ MaxAttempts \in Nat \ {0}
    /\ BatchSize \in Nat \ {0}
    /\ LeaseDuration \in Nat
    /\ RetryDelay \in Nat
    /\ Horizon \in Nat
    /\ MaxAborts \in Nat

VARIABLES
    clock,
    \* columns of an outbox row; a row is "absent" before its transaction
    status, attempts, nextAt, lease, token,
    \* copies of the event on the topic (saturating)
    copies,
    \* per publisher: control point, clock reading of the batch, claims still
    \* to be published, the one in progress and how its publish ended
    pc, now, hand, cur, raised,
    aborts,
    \* history: a claim of the row was taken over after its lease
    overrun

rowVars == <<status, attempts, nextAt, lease, token>>
publisherVars == <<pc, now, hand, cur, raised, aborts>>
vars == <<clock, rowVars, copies, publisherVars, overrun>>

Waiting == {"pending", "failed_retryable"}
Settled == {"published", "failed_terminal"}
Time == 0 .. Horizon
MaxCopies == MaxAttempts + 2   \* bound: where the count of copies saturates
Cap(t) == IF t > Horizon THEN Horizon ELSE t
NoLease == -1

-----------------------------------------------------------------------------

Ready(e, t) == status[e] \in Waiting /\ nextAt[e] =< t
LeaseOver(e, t) == lease[e] < t \/ t = Horizon

\* Mutations of LeaseExpired: any publishing row is taken; none ever is.
LeaseExpiredUnchecked(e, t) == status[e] = "publishing"
LeaseExpiredNever(e, t) == FALSE

LeaseExpired(e, t) == status[e] = "publishing" /\ LeaseOver(e, t)
Publishable(p) == {e \in Events : Ready(e, now[p]) \/ LeaseExpired(e, now[p])}

\* Rows a finalize transaction may hold locked: SKIP LOCKED may miss them.
MaybeLocked == {e \in Events : \E p \in Publishers : pc[p] = "finalizing" /\ cur[p] = e}

\* The rows ORDER BY next_attempt_at LIMIT BatchSize returns from S.
OldestOf(S, batch) ==
    /\ batch \subseteq S
    /\ Cardinality(batch) = IF Cardinality(S) < BatchSize
                            THEN Cardinality(S) ELSE BatchSize
    /\ \A e \in batch, f \in S \ batch : nextAt[e] =< nextAt[f]

TokensInUse(e) == {token[e]} \cup {hand[p][e] : p \in Publishers}

\* Mutation of FreshToken: a row that already carries a token keeps it.
FreshTokenKept(e) ==
    IF token[e] # NoToken THEN token[e]
    ELSE CHOOSE t \in Tokens : t \notin TokensInUse(e)

FreshToken(e) == CHOOSE t \in Tokens : t \notin TokensInUse(e)

Init ==
    /\ clock = 0
    /\ status = [e \in Events |-> "absent"]
    /\ attempts = [e \in Events |-> 0]
    /\ nextAt = [e \in Events |-> 0]
    /\ lease = [e \in Events |-> NoLease]
    /\ token = [e \in Events |-> NoToken]
    /\ copies = [e \in Events |-> 0]
    /\ pc = [p \in Publishers |-> "idle"]
    /\ now = [p \in Publishers |-> 0]
    /\ hand = [p \in Publishers |-> [e \in Events |-> NoToken]]
    /\ cur = [p \in Publishers |-> NoEvent]
    /\ raised = [p \in Publishers |-> FALSE]
    /\ aborts = 0
    /\ overrun = [e \in Events |-> FALSE]

Tick ==
    /\ clock < Horizon
    /\ clock' = clock + 1
    /\ UNCHANGED <<rowVars, copies, publisherVars, overrun>>

\* The transaction of a creation or of a retry adds its event.
Add(e) ==
    /\ status[e] = "absent"
    /\ status' = [status EXCEPT ![e] = "pending"]
    /\ nextAt' = [nextAt EXCEPT ![e] = clock]
    /\ UNCHANGED <<clock, attempts, lease, token, copies, publisherVars, overrun>>

Begin(p) ==
    /\ pc[p] = "idle"
    /\ pc' = [pc EXCEPT ![p] = "claiming"]
    /\ now' = [now EXCEPT ![p] = clock]
    /\ UNCHANGED <<clock, rowVars, copies, hand, cur, raised, aborts, overrun>>

\* The claim transaction.  The guard on Tokens is the bound on uuid4 values.
ClaimRows(p, S) ==
    /\ pc[p] = "claiming"
    /\ \A e \in S : Tokens \ TokensInUse(e) # {}
    /\ status' = [e \in Events |-> IF e \in S THEN "publishing" ELSE status[e]]
    /\ lease' = [e \in Events |->
                    IF e \in S THEN Cap(now[p] + LeaseDuration) ELSE lease[e]]
    /\ token' = [e \in Events |-> IF e \in S THEN FreshToken(e) ELSE token[e]]
    /\ hand' = [hand EXCEPT ![p] =
                    [e \in Events |-> IF e \in S THEN FreshToken(e) ELSE NoToken]]
    /\ overrun' = [e \in Events |->
                    overrun[e] \/ (e \in S /\ status[e] = "publishing"
                                       /\ LeaseOver(e, now[p]))]
    /\ pc' = [pc EXCEPT ![p] = "batch"]
    /\ UNCHANGED <<clock, attempts, nextAt, copies, now, cur, raised, aborts>>

Claim(p) ==
    \E skipped \in SUBSET (MaybeLocked \cap Publishable(p)) :
        \E batch \in SUBSET (Publishable(p) \ skipped) :
            OldestOf(Publishable(p) \ skipped, batch) /\ ClaimRows(p, batch)

\* The broker call: it succeeds, or raises before or after the broker stored
\* the record.  The claim is not looked at again before the call.
Publish(p, e, stored, error) ==
    /\ pc[p] = "batch"
    /\ hand[p][e] # NoToken
    /\ stored \/ error
    /\ copies' = [copies EXCEPT ![e] = IF stored /\ @ < MaxCopies THEN @ + 1 ELSE @]
    /\ raised' = [raised EXCEPT ![p] = error]
    /\ cur' = [cur EXCEPT ![p] = e]
    /\ pc' = [pc EXCEPT ![p] = "finalizing"]
    /\ UNCHANGED <<clock, rowVars, now, hand, aborts, overrun>>

\* Mutation of HoldsClaim: the token is not compared.
HoldsClaimAnyToken(p, e) == status[e] = "publishing"

HoldsClaim(p, e) == status[e] = "publishing" /\ token[e] = hand[p][e]

MarkPublished(p, e) ==
    /\ status' = [status EXCEPT ![e] = "published"]
    /\ nextAt' = [nextAt EXCEPT ![e] = now[p]]
    /\ UNCHANGED attempts

Exhausted(n) == n >= MaxAttempts

MarkPublishFailed(p, e) ==
    /\ attempts' = [attempts EXCEPT ![e] = @ + 1]
    /\ status' = [status EXCEPT ![e] = IF Exhausted(attempts[e] + 1)
                                       THEN "failed_terminal" ELSE "failed_retryable"]
    /\ nextAt' = [nextAt EXCEPT ![e] = IF Exhausted(attempts[e] + 1)
                                       THEN now[p] ELSE Cap(now[p] + RetryDelay)]

\* Mutation of Report: a raised publish is recorded as published.
ReportAlwaysPublished(p, e) == MarkPublished(p, e)

Report(p, e) == IF raised[p] THEN MarkPublishFailed(p, e) ELSE MarkPublished(p, e)

\* The finalize transaction: recorded if the claim still holds, else dropped.
Finalize(p, e) ==
    /\ pc[p] = "finalizing"
    /\ cur[p] = e
    /\ IF HoldsClaim(p, e)
       THEN /\ Report(p, e)
            /\ lease' = [lease EXCEPT ![e] = NoLease]
            /\ token' = [token EXCEPT ![e] = NoToken]
       ELSE UNCHANGED rowVars
    /\ pc' = [pc EXCEPT ![p] = "batch"]
    /\ hand' = [hand EXCEPT ![p][e] = NoToken]
    /\ cur' = [cur EXCEPT ![p] = NoEvent]
    /\ raised' = [raised EXCEPT ![p] = FALSE]
    /\ UNCHANGED <<clock, copies, now, aborts, overrun>>

EndBatch(p) ==
    /\ pc[p] = "batch"
    /\ \A e \in Events : hand[p][e] = NoToken
    /\ pc' = [pc EXCEPT ![p] = "idle"]
    /\ now' = [now EXCEPT ![p] = 0]
    /\ UNCHANGED <<clock, rowVars, copies, hand, cur, raised, aborts, overrun>>

\* The process dies or a database call raises: the batch is forgotten.
Abort(p) ==
    /\ pc[p] # "idle"
    /\ aborts < MaxAborts
    /\ aborts' = aborts + 1
    /\ pc' = [pc EXCEPT ![p] = "idle"]
    /\ now' = [now EXCEPT ![p] = 0]
    /\ hand' = [hand EXCEPT ![p] = [e \in Events |-> NoToken]]
    /\ cur' = [cur EXCEPT ![p] = NoEvent]
    /\ raised' = [raised EXCEPT ![p] = FALSE]
    /\ UNCHANGED <<clock, rowVars, copies, overrun>>

-----------------------------------------------------------------------------

PublisherStep(p) ==
    \/ Begin(p)
    \/ Claim(p)
    \/ \E e \in Events :
        \/ \E stored, error \in BOOLEAN : Publish(p, e, stored, error)
        \/ Finalize(p, e)
    \/ EndBatch(p)

Next ==
    \/ Tick
    \/ \E e \in Events : Add(e)
    \/ \E p \in Publishers : PublisherStep(p) \/ Abort(p)

Spec == Init /\ [][Next]_vars

-----------------------------------------------------------------------------
(* Properties *)

TypeOK ==
    /\ clock \in Time
    /\ status \in [Events -> Waiting \cup Settled \cup {"absent", "publishing"}]
    /\ attempts \in [Events -> 0 .. MaxAttempts]
    /\ nextAt \in [Events -> Time]
    /\ lease \in [Events -> Time \cup {NoLease}]
    /\ token \in [Events -> Tokens \cup {NoToken}]
    /\ copies \in [Events -> 0 .. MaxCopies]
    /\ pc \in [Publishers -> {"idle", "claiming", "batch", "finalizing"}]
    /\ now \in [Publishers -> Time]
    /\ hand \in [Publishers -> [Events -> Tokens \cup {NoToken}]]
    /\ cur \in [Publishers -> Events \cup {NoEvent}]
    /\ raised \in [Publishers -> BOOLEAN]
    /\ aborts \in 0 .. MaxAborts
    /\ overrun \in [Events -> BOOLEAN]

\* An event is recorded as published only if the broker has it, whichever of
\* several publishers of the event wrote the record; one with an attempt left
\* is never given up.
PublishedIsOnTopic ==
    \A e \in Events :
        /\ status[e] = "published" => copies[e] > 0
        /\ status[e] = "failed_terminal" <=> attempts[e] = MaxAttempts

\* While no lease of the event ran out, each copy beyond the first belongs to a
\* recorded failed attempt.
CopiesAccountedFor ==
    \A e \in Events : ~overrun[e] =>
        copies[e] =< attempts[e] + (IF status[e] \in {"publishing", "published"} THEN 1 ELSE 0)

\* At most one publisher holds the token an event carries.
ClaimExclusive ==
    \A e \in Events :
        /\ status[e] = "publishing" <=> token[e] # NoToken
        /\ \A p, q \in Publishers :
            token[e] # NoToken /\ hand[p][e] = token[e] /\ hand[q][e] = token[e] => p = q

\* A publisher that lost its claim changes nothing in the row.
StaleReportIgnored(p, e) ==
    /\ cur[p] = e /\ cur'[p] = NoEvent
    /\ hand[p][e] # token[e]
    => UNCHANGED <<status[e], attempts[e], nextAt[e], lease[e], token[e]>>
StaleClaimHarmless ==
    [][\A p \in Publishers, e \in Events : StaleReportIgnored(p, e)]_vars

\* What the ledger of events sees of a row.
Phase(e) ==
    CASE status[e] \in Waiting -> "open"
      [] status[e] = "publishing" -> "claimed"
      [] OTHER -> status[e]
OnTopic == {e \in Events : copies[e] > 0}

Ledger == INSTANCE OutboxLedger WITH
    phase <- [e \in Events |-> Phase(e)],
    fails <- attempts,
    stored <- OnTopic

\* Publishers with leases and tokens, slow or dead, keep the promises of the
\* abstract ledger: what each event goes through is one history of open,
\* claimed and settled, whichever publishers wrote it.
LedgerSpec == Ledger!Spec

-----------------------------------------------------------------------------
(* Fairness: publishers keep polling and time passes; a publishable event is  *)
(* not skipped for ever, since finalize transactions are short.               *)

ClaimsRow(p, e) == Claim(p) /\ hand'[p][e] # NoToken

Fairness ==
    /\ WF_vars(Tick)
    /\ \A p \in Publishers :
        /\ WF_vars(PublisherStep(p))
        /\ \A e \in Events : SF_vars(ClaimsRow(p, e))

FairSpec == Spec /\ Fairness

TakenOver(e) == status[e] = "publishing" /\ token'[e] \notin {token[e], NoToken}

\* Every event that a transaction added is eventually published, or given up
\* after MaxAttempts recorded failures, although publishers may die; only
\* broker calls that outlive their lease again and again, so that the event
\* is taken over for ever, can prevent it.
EventuallySettled ==
    \A e \in Events :
        \/ status[e] = "pending" ~> status[e] \in Settled
        \/ []<><<TakenOver(e)>>_vars
=============================================================================
