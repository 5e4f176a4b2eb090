-------------------------- MODULE DeliveryWorkers --------------------------
(***************************************************************************)
(* The delivery rows of one notification, the workers that claim, send and *)
(* finalize them under a lease, and the callers that request a retry.      *)
(*                                                                         *)
(* A row lives in PostgreSQL and every action below is one transaction on  *)
(* it, or one step of a worker between two transactions.  A worker reads   *)
(* its clock once per batch, claims rows in one transaction, and then      *)
(* loads, sends and finalizes the claimed rows one at a time; a claim is   *)
(* fenced by the claim token of the row.  A retry reads its eligible rows  *)
(* without a lock and later marks them in a conditional UPDATE.            *)
(*                                                                         *)
(* Time is an integer up to Horizon.  The clock value Horizon stands for   *)
(* every later instant: a deadline beyond it is stored as Horizon, and a   *)
(* worker that reads Horizon sees every lease as expired.                  *)
(***************************************************************************)
EXTENDS Integers, FiniteSets

CONSTANTS
    Deliveries,     \* rows of notification_deliveries
    ChannelOf,      \* delivery -> "web" or "email"
    RecipientOf,    \* delivery -> its notification recipient
    Workers,        \* delivery worker processes
    WorkerChannel,  \* worker -> the channel it is built for
    Callers,        \* services and users that ask for a retry
    Tokens,         \* claim tokens (uuid4)
    NoToken,        \* claim_token IS NULL
    NoDelivery,     \* no delivery in progress
    MaxAttempts,    \* max_attempts of a row
    BatchSize,      \* limit of one claim
    LeaseDuration,  \* lease granted by a claim
    RetryDelay,     \* delay before a retryable failure is due again
    Horizon,        \* bound: the last clock value told apart
    MaxAborts       \* bound: worker crashes and database errors explored

Channels == {"web", "email"}

ASSUME ChannelAssumption ==
    /\ ChannelOf \in [Deliveries -> Channels]
    /\ WorkerChannel \in [Workers -> Channels]
ASSUME NullAssumption ==
    /\ NoToken \notin Tokens
    /\ NoDelivery \notin Deliveries
ASSUME BoundAssumption ==
    /\ MaxAttempts \in Nat \ {0}
    /\ BatchSize \in Nat \ {0}
    /\ LeaseDuration \in Nat
    /\ RetryDelay \in Nat
    /\ Horizon \in Nat
    /\ MaxAborts \in Nat

VARIABLES
    clock,
    \* columns of a delivery row
    status, attemptCount, nextAt, lease, token,
    \* rows of notification_delivery_attempts, and the replay events of the
    \* outbox: how many name delivery d while its attempt count is n
    attempts, replays,
    \* per worker: control point, the clock reading of its batch, the claims
    \* still to be processed, the one in progress and its outcome
    pc, now, hand, cur, outcome,
    aborts,
    \* per retry caller: the rows it selected and when it was asked
    rids, rat,
    \* history: messages handed to the outside per row (saturating), and
    \* whether a claim of the row was ever taken over after its lease
    sends, overrun

rowVars == <<status, attemptCount, nextAt, lease, token, attempts, replays>>
workerVars == <<pc, now, hand, cur, outcome, aborts>>
callerVars == <<rids, rat>>
histVars == <<sends, overrun>>
vars == <<clock, rowVars, workerVars, callerVars, histVars>>

Settled == {"delivered", "failed_terminal"}
Waiting == {"pending", "replay_requested", "failed_retryable"}
Outcomes == {"delivered", "failed_retryable", "failed_terminal"}

Time == 0 .. Horizon
MaxSends == MaxAttempts + 1   \* bound: where the history of sends saturates
Cap(t) == IF t > Horizon THEN Horizon ELSE t
NoLease == -1

-----------------------------------------------------------------------------
(* Claiming *)

Due(d, t) == status[d] \in Waiting /\ nextAt[d] =< t

LeaseOver(d, t) == lease[d] < t \/ t = Horizon

\* Mutations of LeaseExpired: the lease is not compared with the clock; a
\* processing row is never claimed again.
LeaseExpiredUnchecked(d, t) == status[d] = "processing"
LeaseExpiredNever(d, t) == FALSE

\* A row left in processing by a worker whose lease ran out.
LeaseExpired(d, t) == status[d] = "processing" /\ LeaseOver(d, t)

Claimable(w) ==
    {d \in Deliveries : /\ ChannelOf[d] = WorkerChannel[w]
                        /\ Due(d, now[w]) \/ LeaseExpired(d, now[w])}

\* Rows another transaction may hold locked: FOR UPDATE SKIP LOCKED may miss
\* them although they are due.
MaybeLocked ==
    {d \in Deliveries :
        \/ \E c \in Callers : d \in rids[c]
        \/ \E w \in Workers : pc[w] = "finalizing" /\ cur[w] = d}

\* The rows ORDER BY next_attempt_at LIMIT BatchSize returns from S.
OldestOf(S, batch) ==
    /\ batch \subseteq S
    /\ Cardinality(batch) = IF Cardinality(S) < BatchSize
                            THEN Cardinality(S) ELSE BatchSize
    /\ \A d \in batch, e \in S \ batch : nextAt[d] =< nextAt[e]

TokensInUse(d) == {token[d]} \cup {hand[w][d] : w \in Workers}

\* Mutation of FreshToken: a row that already carries a token keeps it.
FreshTokenKept(d) ==
    IF token[d] # NoToken THEN token[d]
    ELSE CHOOSE t \in Tokens : t \notin TokensInUse(d)

FreshToken(d) == CHOOSE t \in Tokens : t \notin TokensInUse(d)

Init ==
    /\ clock = 0
    /\ status = [d \in Deliveries |-> "pending"]
    /\ attemptCount = [d \in Deliveries |-> 0]
    /\ nextAt = [d \in Deliveries |-> 0]
    /\ lease = [d \in Deliveries |-> NoLease]
    /\ token = [d \in Deliveries |-> NoToken]
    /\ attempts = [d \in Deliveries |-> {}]
    /\ replays = [d \in Deliveries |-> [n \in 0 .. MaxAttempts |-> 0]]
    /\ pc = [w \in Workers |-> "idle"]
    /\ now = [w \in Workers |-> 0]
    /\ hand = [w \in Workers |-> [d \in Deliveries |-> NoToken]]
    /\ cur = [w \in Workers |-> NoDelivery]
    /\ outcome = [w \in Workers |-> "delivered"]
    /\ aborts = 0
    /\ rids = [c \in Callers |-> {}]
    /\ rat = [c \in Callers |-> 0]
    /\ sends = [d \in Deliveries |-> 0]
    /\ overrun = [d \in Deliveries |-> FALSE]

Tick ==
    /\ clock < Horizon
    /\ clock' = clock + 1
    /\ UNCHANGED <<rowVars, workerVars, callerVars, histVars>>

\* A poll starts: the clock is read once for the whole batch.
Begin(w) ==
    /\ pc[w] = "idle"
    /\ pc' = [pc EXCEPT ![w] = "claiming"]
    /\ now' = [now EXCEPT ![w] = clock]
    /\ UNCHANGED <<clock, rowVars, hand, cur, outcome, aborts, callerVars, histVars>>

\* The claim transaction.  The guard on Tokens is the bound on uuid4 values.
ClaimRows(w, S) ==
    /\ pc[w] = "claiming"
    /\ \A d \in S : Tokens \ TokensInUse(d) # {}
    /\ status' = [d \in Deliveries |-> IF d \in S THEN "processing" ELSE status[d]]
    /\ lease' = [d \in Deliveries |->
                    IF d \in S THEN Cap(now[w] + LeaseDuration) ELSE lease[d]]
    /\ token' = [d \in Deliveries |-> IF d \in S THEN FreshToken(d) ELSE token[d]]
    /\ hand' = [hand EXCEPT ![w] =
                    [d \in Deliveries |-> IF d \in S THEN FreshToken(d) ELSE NoToken]]
    /\ overrun' = [d \in Deliveries |->
                    overrun[d] \/ (d \in S /\ status[d] = "processing"
                                       /\ LeaseOver(d, now[w]))]
    /\ pc' = [pc EXCEPT ![w] = "batch"]
    /\ UNCHANGED <<clock, attemptCount, nextAt, attempts, replays, now, cur,
                   outcome, aborts, callerVars, sends>>

Claim(w) ==
    \E skipped \in SUBSET (MaybeLocked \cap Claimable(w)) :
        \E batch \in SUBSET (Claimable(w) \ skipped) :
            OldestOf(Claimable(w) \ skipped, batch) /\ ClaimRows(w, batch)

-----------------------------------------------------------------------------
(* Processing a batch *)

\* Mutation of HoldsClaim: the token is not compared.
HoldsClaimAnyToken(w, d) == status[d] = "processing"

\* The WHERE clause by which a worker finds the row it claimed.
HoldsClaim(w, d) == status[d] = "processing" /\ token[d] = hand[w][d]

\* The context of the next claim is read; a claim whose token is no longer the
\* row's is skipped.  The lease itself is not looked at.
Load(w, d) ==
    /\ pc[w] = "batch"
    /\ hand[w][d] # NoToken
    /\ IF HoldsClaim(w, d)
       THEN /\ pc' = [pc EXCEPT ![w] = "sending"]
            /\ cur' = [cur EXCEPT ![w] = d]
            /\ UNCHANGED hand
       ELSE /\ hand' = [hand EXCEPT ![w][d] = NoToken]
            /\ UNCHANGED <<pc, cur>>
    /\ UNCHANGED <<clock, rowVars, now, outcome, aborts, callerVars, histVars>>

\* What an adapter may report, and whether the message took effect.  The web
\* adapter always delivers.  An SMTP session may fail after the server accepted
\* the message, so an error says nothing about the effect.
AdapterResults(channel) ==
    IF channel = "web"
    THEN {[status |-> "delivered", effect |-> TRUE]}
    ELSE {r \in [status : Outcomes, effect : BOOLEAN] :
            r.status = "delivered" => r.effect}

Deliver(w, d) ==
    /\ pc[w] = "sending"
    /\ cur[w] = d
    /\ \E r \in AdapterResults(ChannelOf[d]) :
        /\ outcome' = [outcome EXCEPT ![w] = r.status]
        /\ sends' = [sends EXCEPT ![d] = IF r.effect /\ @ < MaxSends THEN @ + 1 ELSE @]
    /\ pc' = [pc EXCEPT ![w] = "finalizing"]
    /\ UNCHANGED <<clock, rowVars, now, hand, cur, aborts, callerVars, overrun>>

\* Mutation of FinalStatus: off by one at the last attempt.
FinalStatusLate(result, count) ==
    IF result = "failed_retryable" /\ count > MaxAttempts
    THEN "failed_terminal" ELSE result

FinalStatus(result, count) ==
    IF result = "failed_retryable" /\ count >= MaxAttempts
    THEN "failed_terminal" ELSE result

RecordOutcome(w, d) ==
    LET n == attemptCount[d] + 1
        final == FinalStatus(outcome[w], n)
    IN  /\ attemptCount' = [attemptCount EXCEPT ![d] = n]
        /\ status' = [status EXCEPT ![d] = final]
        /\ nextAt' = [nextAt EXCEPT ![d] =
                        IF final = "failed_retryable"
                        THEN Cap(now[w] + RetryDelay) ELSE now[w]]
        /\ lease' = [lease EXCEPT ![d] = NoLease]
        /\ token' = [token EXCEPT ![d] = NoToken]
        /\ attempts' = [attempts EXCEPT ![d] = @ \cup {[number |-> n, status |-> final]}]

\* The finalize transaction: the outcome is recorded if the claim still holds
\* and dropped otherwise.
Finalize(w, d) ==
    /\ pc[w] = "finalizing"
    /\ cur[w] = d
    /\ IF HoldsClaim(w, d)
       THEN RecordOutcome(w, d)
       ELSE UNCHANGED <<status, attemptCount, nextAt, lease, token, attempts>>
    /\ pc' = [pc EXCEPT ![w] = "batch"]
    /\ hand' = [hand EXCEPT ![w][d] = NoToken]
    /\ cur' = [cur EXCEPT ![w] = NoDelivery]
    /\ outcome' = [outcome EXCEPT ![w] = "delivered"]
    /\ UNCHANGED <<clock, replays, now, aborts, callerVars, histVars>>

EndBatch(w) ==
    /\ pc[w] = "batch"
    /\ \A d \in Deliveries : hand[w][d] = NoToken
    /\ pc' = [pc EXCEPT ![w] = "idle"]
    /\ now' = [now EXCEPT ![w] = 0]
    /\ UNCHANGED <<clock, rowVars, hand, cur, outcome, aborts, callerVars, histVars>>

\* The process dies, or a database call raises and the poll is abandoned: the
\* open transaction is rolled back and the rest of the batch is forgotten.
Abort(w) ==
    /\ pc[w] # "idle"
    /\ aborts < MaxAborts
    /\ aborts' = aborts + 1
    /\ pc' = [pc EXCEPT ![w] = "idle"]
    /\ now' = [now EXCEPT ![w] = 0]
    /\ hand' = [hand EXCEPT ![w] = [d \in Deliveries |-> NoToken]]
    /\ cur' = [cur EXCEPT ![w] = NoDelivery]
    /\ outcome' = [outcome EXCEPT ![w] = "delivered"]
    /\ UNCHANGED <<clock, rowVars, callerVars, histVars>>

-----------------------------------------------------------------------------
(* Retry requests *)

Retryable == {d \in Deliveries : status[d] = "failed_retryable"}

RetrySelect(c, ids) ==
    /\ rids[c] = {}
    /\ ids # {}
    /\ rids' = [rids EXCEPT ![c] = ids]
    /\ rat' = [rat EXCEPT ![c] = clock]
    /\ UNCHANGED <<clock, rowVars, workerVars, histVars>>

\* A service retries the whole notification.
ServiceRetry(c) == RetrySelect(c, Retryable)

\* A user retries from the visible web notification v: the other channels of
\* the same recipient.
UserRetry(c, v) ==
    /\ ChannelOf[v] = "web"
    /\ status[v] = "delivered"
    /\ RetrySelect(c, {d \in Retryable : /\ RecipientOf[d] = RecipientOf[v]
                                         /\ ChannelOf[d] # "web"})

\* Mutation of Marked: the UPDATE does not check the status again.
MarkedUnchecked(c) == rids[c]

\* The rows the conditional UPDATE finds, and RetryCommit: the UPDATE, the replay event and the
\* commit.  Only rows still failed_retryable are marked and named by the event.
Marked(c) == rids[c] \cap Retryable
RetryCommit(c) ==
    LET marked == Marked(c)
    IN  /\ rids[c] # {}
        /\ status' = [d \in Deliveries |->
                        IF d \in marked THEN "replay_requested" ELSE status[d]]
        /\ nextAt' = [d \in Deliveries |-> IF d \in marked THEN rat[c] ELSE nextAt[d]]
        /\ lease' = [d \in Deliveries |-> IF d \in marked THEN NoLease ELSE lease[d]]
        /\ token' = [d \in Deliveries |-> IF d \in marked THEN NoToken ELSE token[d]]
        /\ replays' = [d \in Deliveries |->
                        IF d \in marked
                        THEN [replays[d] EXCEPT ![attemptCount[d]] = @ + 1]
                        ELSE replays[d]]
        /\ rids' = [rids EXCEPT ![c] = {}]
        /\ rat' = [rat EXCEPT ![c] = 0]
        /\ UNCHANGED <<clock, attemptCount, attempts, workerVars, histVars>>

\* The request fails before its commit.
RetryAbort(c) ==
    /\ rids[c] # {}
    /\ rids' = [rids EXCEPT ![c] = {}]
    /\ rat' = [rat EXCEPT ![c] = 0]
    /\ UNCHANGED <<clock, rowVars, workerVars, histVars>>

-----------------------------------------------------------------------------

WorkerStep(w) ==
    \/ Begin(w)
    \/ Claim(w)
    \/ \E d \in Deliveries : Load(w, d) \/ Deliver(w, d) \/ Finalize(w, d)
    \/ EndBatch(w)

CallerStep(c) ==
    \/ ServiceRetry(c)
    \/ \E v \in Deliveries : UserRetry(c, v)
    \/ RetryCommit(c)
    \/ RetryAbort(c)

Next ==
    \/ Tick
    \/ \E w \in Workers : WorkerStep(w) \/ Abort(w)
    \/ \E c \in Callers : CallerStep(c)

Spec == Init /\ [][Next]_vars

-----------------------------------------------------------------------------
(* Properties *)

TypeOK ==
    /\ clock \in Time
    /\ status \in [Deliveries -> Waiting \cup Settled \cup {"processing"}]
    /\ attemptCount \in [Deliveries -> 0 .. MaxAttempts]
    /\ nextAt \in [Deliveries -> Time]
    /\ lease \in [Deliveries -> Time \cup {NoLease}]
    /\ token \in [Deliveries -> Tokens \cup {NoToken}]
    /\ attempts \in [Deliveries ->
                        SUBSET [number : 1 .. MaxAttempts, status : Outcomes]]
    /\ replays \in [Deliveries -> [0 .. MaxAttempts -> Nat]]
    /\ pc \in [Workers -> {"idle", "claiming", "batch", "sending", "finalizing"}]
    /\ now \in [Workers -> Time]
    /\ hand \in [Workers -> [Deliveries -> Tokens \cup {NoToken}]]
    /\ cur \in [Workers -> Deliveries \cup {NoDelivery}]
    /\ outcome \in [Workers -> Outcomes]
    /\ aborts \in 0 .. MaxAborts
    /\ rids \in [Callers -> SUBSET Deliveries]
    /\ rat \in [Callers -> Time]
    /\ sends \in [Deliveries -> 0 .. MaxSends]
    /\ overrun \in [Deliveries -> BOOLEAN]

\* A row is in processing exactly while it carries a token and a lease, and at
\* most one worker holds the token it carries.
ClaimExclusive ==
    \A d \in Deliveries :
        /\ status[d] = "processing" <=> token[d] # NoToken
        /\ status[d] = "processing" <=> lease[d] # NoLease
        /\ \A w, v \in Workers :
            token[d] # NoToken /\ hand[w][d] = token[d] /\ hand[v][d] = token[d]
                => w = v

\* The attempt rows of a delivery are numbered 1 .. attempt_count, one each;
\* every attempt but a last one that settled the row was retryable, and a row
\* that is not settled has an attempt left.
AttemptLedger ==
    \A d \in Deliveries :
        /\ \A n \in 1 .. attemptCount[d] : \E a \in attempts[d] : a.number = n
        /\ \A a, b \in attempts[d] : a.number = b.number => a = b
        /\ \A a \in attempts[d] :
            /\ a.number =< attemptCount[d]
            /\ a.status = IF a.number = attemptCount[d] /\ status[d] \in Settled
                          THEN status[d] ELSE "failed_retryable"
        /\ status[d] \in Settled \/ attemptCount[d] < MaxAttempts

\* As long as no lease of a row ran out, every message sent for it is recorded
\* by an attempt of its own or belongs to the claim in progress: without an
\* overrun nothing is sent twice for one attempt.
SendsAccountedFor ==
    \A d \in Deliveries : ~overrun[d] =>
        sends[d] =< attemptCount[d] + (IF status[d] = "processing" THEN 1 ELSE 0)

\* Two workers are inside the adapter for one row only after a lease ran out.
SendersExclusive ==
    \A d \in Deliveries, w, v \in Workers :
        /\ w # v
        /\ cur[w] = d /\ cur[v] = d
        => overrun[d]

\* However many services and users retry at once, one retryable failure is
\* queued for replay at most once, and only a recorded retryable failure is.
ReplayOncePerFailure ==
    \A d \in Deliveries, n \in 0 .. MaxAttempts :
        /\ replays[d][n] =< 1
        /\ replays[d][n] = 1 =>
            \E a \in attempts[d] : a.number = n /\ a.status = "failed_retryable"

\* A delivered or terminally failed row never changes again, whoever still
\* holds an old claim or an old selection of it.
SettledRowUnchanged(d) ==
    status[d] \in Settled =>
        UNCHANGED <<status[d], attemptCount[d], nextAt[d], token[d], attempts[d], replays[d]>>
SettledStable == [][\A d \in Deliveries : SettledRowUnchanged(d)]_vars

\* A worker that reports on a claim that was taken over changes nothing in the
\* row: neither its status nor its attempts nor the claim of the new owner.
StaleReportIgnored(w, d) ==
    /\ cur[w] = d /\ cur'[w] = NoDelivery
    /\ hand[w][d] # token[d]
    => UNCHANGED <<status[d], attemptCount[d], nextAt[d], lease[d], token[d], attempts[d]>>
StaleClaimHarmless ==
    [][\A w \in Workers, d \in Deliveries : StaleReportIgnored(w, d)]_vars

\* A claim ends only when its holder reports on it or after its lease ran out:
\* no retry, no other worker and no late transaction takes it away.
ClaimKept(d) ==
    status[d] = "processing" /\ token'[d] # token[d] =>
        \/ \E w \in Workers : LeaseOver(d, now[w]) /\ hand'[w][d] = token'[d]
        \/ \E w \in Workers : hand[w][d] = token[d] /\ hand'[w][d] = NoToken
ClaimEndsByHolderOrLease == [][\A d \in Deliveries : ClaimKept(d)]_vars

\* The rows implement the ledger: see DeliveryLedger.
Phase(s) ==
    IF s \in Waiting THEN "open" ELSE IF s = "processing" THEN "claimed" ELSE s
Ledger == INSTANCE DeliveryLedger WITH
    phase <- [d \in Deliveries |-> Phase(status[d])],
    tries <- attemptCount
LedgerSpec == Ledger!Spec

-----------------------------------------------------------------------------
(* Fairness: a polling worker keeps polling and a batch keeps going, time     *)
(* passes, and a due row is not skipped for ever, since the transactions that *)
(* lock it are short.                                                          *)

ClaimsRow(w, d) == Claim(w) /\ hand'[w][d] # NoToken

Fairness ==
    /\ WF_vars(Tick)
    /\ \A w \in Workers :
        /\ WF_vars(WorkerStep(w))
        /\ \A d \in Deliveries : SF_vars(ClaimsRow(w, d))
    /\ \A c \in Callers : WF_vars(RetryCommit(c) \/ RetryAbort(c))

FairSpec == Spec /\ Fairness

\* Every delivery row is eventually delivered or terminally failed, in spite of
\* crashes (finitely many), lost leases and retries.
EventuallySettled ==
    \A d \in Deliveries : <>(status[d] \in Settled)
=============================================================================
