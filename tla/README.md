# Verification of the notification broker

TLA+ modules of the notification broker in `src/`, checked with TLC and, where
stated, proved with TLAPS. Paths below are relative to the repository.

## The system

A producer sends `POST /notifications`. The request consumes quota, is
deduplicated and, in one transaction, writes a notification and an outbox
event. The **outbox publisher** claims events under a lease and publishes them to
Kafka. The **notification consumers**, members of one consumer group, read the topic and
**fan out** the notification: they resolve its audience and write one recipient row per
user and one delivery row per user and channel. **Delivery workers**, one process per
channel and possibly several, claim due rows under a lease, send them and
record the outcome. Services and users may ask for a **retry** of retryable
failures, which marks rows and writes a replay event to the outbox. Users list
and read their **web inbox**. Everything durable is in PostgreSQL; processes
share nothing else but the Kafka topics.

| Component | State | Operations | Hard because | Correct when |
|---|---|---|---|---|
| Intake (`notification_service.py`, `routers/notifications.py`) | `notification_requests` | create | find and insert are not atomic; a response is lost after its commit | one notification and one event per identity; answers name committed rows |
| Idempotency (`intake/idempotency.py`) | none | window, fingerprint | window boundaries | one plain notification per window |
| Quota (`quota_service.py`) | `producer_quotas` | consume | concurrent requests at the limit | exactly the limit is admitted |
| Outbox (`repositories/outbox.py`, `outbox/publisher.py`) | `outbox_events` | add, claim, publish, finalize | crash or error after the broker stored the record; lease overruns | published events are on the topic; a stale publisher changes nothing |
| Consumer (`notifications/consumer.py`, `kafka/consumer.py`) | offsets, positions, `processed_events` | consume, dead-letter, check, handle, mark, commit | exceptions, crashes, rebalances between any two steps | no record is passed over unnoticed; one fanout per event and disruption |
| Fanout (`notification_fanout_service.py`) | recipients, deliveries, counts | one transaction | overlapping transactions, insert conflicts, statement size | every recipient is fully served; no deadlock |
| Audience (`audience_service.py`, `repositories/users.py`) | users, groups, labels | resolve | a count of keys stands for "has all the labels"; rows are seeded again over edits | a query returns the users the selection means |
| Delivery workers (`delivery/worker.py`, `repositories/notifications.py`) | `notification_deliveries`, `delivery_attempts` | claim, load, send, finalize | leases that run out during a batch, crashes | claims exclude each other; attempts are bounded; settled rows stay settled |
| Retry (`retry_service.py`) | the same rows, replay events | select, mark | unlocked selection against claims and other retries | one replay per failure |
| Web inbox (`web_notification_service.py`, `cursors.py`) | `read_at` | list, mark read | two requests mark at once; rows become visible out of their order; ties between pages | a traversal neither repeats nor skips a row; `read_at` is the time of a request |
| Demo seeder (`seeding/demo_data.py`) | the same tables | ensure profiles | runs again over rows that exist, were edited or deleted | every selection finds the users whose profiles it means again |
| Body limit (`core/http_limits.py`) | the buffered body of a request | read, refuse, play back | bodies in pieces, disconnects | whole bodies within the limit, or a refusal |
| Metrics refresher (`pipeline_metrics_service.py`) | time of the last refresh, a lock, the gauges | check, refresh | checks outside and inside the lock, failing queries | no rendered value is older than the interval |
| Metrics middleware (`core/metrics.py`, `core/app_factory.py`) | request counter | count | refused, abandoned and failing requests leave by different paths | each call counted once, as it was answered |
| Polling runtime (`runtime.py`) | backoff | poll cycle | exceptions are logged and swallowed | (in the other modules: an abandoned poll is followed by the next) |

`PROJECT.json` lists every part, the ones that are not modelled with the
reason, and every hazard with its line.

## The modules

| Module | Models | State and actions |
|---|---|---|
| `DeliveryWorkers` | delivery rows, workers, retry callers | columns of a row as functions on `Deliveries`; per worker its control point, clock reading, claims in hand. `Begin`/`Claim` = `process_due_deliveries` up to its commit, `Load`, `Deliver`, `Finalize` = the loop over the claims, `Abort` = a crash or an exception that abandons the poll. `ServiceRetry`/`UserRetry` select, `RetryCommit` is `_record_retry` |
| `DeliveryLedger` | what the workers promise of a row | `Take`, `Report` |
| `DeliveryWorkersProofs` | theorems about `DeliveryWorkers` | |
| `OutboxLedger` | what the publishers promise of an event | `Add`, `Take`, `Store`, `ReportPublished`, `ReportFailed` |
| `OutboxPublisher` | outbox rows, publishers, the topic | `Add`, `Begin`, `Claim`, `Publish` (stored or not, raising or not), `Finalize`, `EndBatch`, `Abort` |
| `OutboxPublisherProofs` | theorems about `OutboxPublisher` | |
| `NotificationConsumer` | consumer group, offsets, processed events, dead letters | one action per step of `run_once`; `Raise`, `Crash`, `Rebalance` |
| `ConsumerLedger` | what the group promises of the records on its topic | `Fanout`, `Mark`, `DeadLetter`, `GiveUp`, `Raise`, `Disturb`, `PassOver`, `ChangeAudience` |
| `NotificationConsumerProofs` | theorems about `NotificationConsumer` | |
| `NotificationIntake` | quota, notification rows, requests | `ConsumeQuota`, `Find`, `Insert`, `InsertConflict`, `FindWinner`, `Respond`, `Fail` |
| `IntakeLedger` | what the intake promises its producers, one request at a time | `Create`, `Repeat`, `Refuse`, `Lose` |
| `NotificationIntakeProofs` | theorems about `NotificationIntake` | |
| `FanoutTransactions` | overlapping fanout transactions | one action per statement, each seeing the committed rows and its own; `InsertRecipient` inserts row by row and waits for uncommitted rows of others |
| `FanoutLedger` | what a fanout promises, one fanout at a time | `Resolve`, `Complete`, `GiveUp`, `ChangeAudience` |
| `FanoutTransactionsProofs` | theorems about `FanoutTransactions` | |
| `WebInbox` | one user's web deliveries, mark-read requests, one traversal with a cursor | `Claim`, `Deliver` (what the inbox sees of a delivery worker), `MarkBegin`, `MarkFind`, `MarkCommit`, `MarkFail`, `ListPage` |
| `WebInboxProofs` | theorems about `WebInbox` | |
| `RequestBodyLimit` | one buffered body per request | `Start` with or without a `Content-Length`, `Receive` and `ReceiveDisconnect` = the messages of the client, `Replay` = what the application is given first, `Forget` |
| `PipelineMetricsCache` | last refresh, lock, gauges; per scrape its control point and clock reading | `Begin`, `CheckFresh`, `Acquire` = the check under the lock, `Select` and `SetGauges` for each query, `FinishRefresh`, `QueryError`, `Render`. A gauge is represented by the time at which its counts were read |
| `ApiProcess` | requests on their way through both middlewares, the thread pool and the endpoint | extends the two modules above: `Arrive`, `ReadBody`, `Refuse`, `Parse`, `RunCall`, `RunScrape`, ..., `Leave` = the `finally` clause of the metrics middleware |
| `ApiProcessProofs` | theorems about `ApiProcess` and its two parts | |
| `Directory` | users, groups, labels, memberships | `Resolve` = the three audience queries, `Seed` = one run of the seeder, one transaction under the unique constraint of `user_labels`; `Edit` = rows changed by hand |
| `Pipeline` | one notification from the API to its settled deliveries | extends `Directory`; the outbox is `OutboxLedger`, the deliveries are `DeliveryLedger`, the consumer takes the steps of `NotificationConsumer` with one owner and one partition |
| `NotificationLedger` | what the broker promises of one notification | `Accept`, `Address`, `Try`, `Report`, `ChangeAudience` |
| `PipelineProofs` | theorems about `Pipeline` and `Directory` | |

`MC*` modules give the constants of the larger instances; the other modules are
run as they are.

Every component that the pipeline composes has an abstract specification, its
ledger, which it is shown to implement by a refinement mapping, checked by a
run and proved. The ledgers meet in `Pipeline`, which is shown in the same way
to implement the one specification a user of the broker would want:

    DeliveryWorkers       =>  DeliveryLedger   }
    OutboxPublisher       =>  OutboxLedger     }
    NotificationConsumer  =>  ConsumerLedger   }  Pipeline  =>  NotificationLedger
    FanoutTransactions    =>  FanoutLedger     }
    NotificationIntake    =>  IntakeLedger     }

`Pipeline` takes its outbox and its deliveries from the first two ledgers, so
that what it says of the whole holds with leases, tokens and crashes underneath.
It fans out in one step, as `FanoutLedger` completes a fanout, although there
the audience may change between `Resolve` and `Complete`; its `Accept` is
`Create` of `IntakeLedger`, and its `Retry` is `RetryCommit`. `WebInbox`
continues with the delivered web rows.

`ConsumerLedger` knows records but no consumers, partitions or positions. It
counts disruptions only to say what they cost, one repeated fanout of an event
each; a record is passed over when the committed offset covers it, and it stays so.

`NotificationLedger` has no events, topic, consumers or retries. Its `audience`
is mapped to what the selection *means* (`Meant`), not to what the queries
return, so the refinement also says that the queries are right whenever a
fanout runs; a user is `none` until a row exists. All that the pipeline does
more than once (copies of an event, replays, restarts) is `Address` for an
audience without new users, or a stutter.

### Abstractions

* **Time.** Clocks are integers up to `Horizon`. The reading `Horizon` stands
  for every later instant: deadlines beyond it are stored as `Horizon`, and a
  worker that reads it sees every lease as expired. A worker keeps the reading
  of the start of its batch, as the code does.
* **Locks.** `FOR UPDATE SKIP LOCKED` may miss a row that an open transaction
  may hold: one a worker is finalizing or a retry has selected.
* **Tokens.** A claim takes a token that neither the row nor a worker knows,
  which is what `uuid4` gives; the number of tokens is a bound.
* **Adapters.** The web adapter delivers. An e-mail may fail after the server
  accepted the message, so an error leaves open whether it was sent.
* **History.** `sends`, `copies`, `handled` count up to a bound at which they
  stay; `overrun`, `abandoned` and `admittedIn` record what a property needs
  to know of the past and are read by no guard, nor is `seeded` (nothing was edited since
  the last seeding: a seeding that changes nothing would be a stutter, of which an action
  property could say nothing).
* **Audience.** A set of users that may change at any time. In
  `FanoutTransactions` a user stands for a block of `BlockSize` users that
  have adjacent ids and change together, so that the real limits can be used.
* **API calls** answer `ok` for every status an endpoint returns by itself; an
  exception is the 500 the server sends outside the middleware. Only
  `GET /metrics` is followed inside its endpoint.
* **The directory** knows the demo profiles by their sequence number; group
  names and labels are the seeder's own. `Edit` stands for changes in the
  database, since no code changes a user.
* **Retry** leaves out its audit row (`notification_action_invocations`), which nothing
  reads, and with it the answer `no_eligible`, of which that row is the only effect.
* **Hashes** are injective; a payload is what its fingerprint tells apart.

## The runs

| Run | Instance | Shows |
|---|---|---|
| `delivery_lease` | one e-mail row, two workers, two callers, two attempts, one crash, clock 0..3 | exclusive claims that end by their holder or their lease, exclusive senders, the attempt ledger, sends accounted for, one replay per failure, refinement of `DeliveryLedger` |
| `delivery_live` | web and e-mail row, a worker each, a user who retries | every row settles |
| `outbox` | one event, two publishers, two attempts, one crash, clock 0..3 | exclusive claims, stale reports harmless, copies accounted for, refinement of `OutboxLedger`; the event settles, or is taken over again and again |
| `consumer_group` | two partitions (event, copy; poison record, replay), two consumers, two disruptions | accounting of committed records, bounded repetition, refinement of `ConsumerLedger` (with it, offsets that never move back); every record is accounted for |
| `consumer_poison` | one consumer, one exception | **violation**: finding 2 |
| `consumer_replay` | one consumer, one change of the audience | **violation**: finding 1 |
| `intake` | five concurrent requests of a service (a key, its resend, the key with another payload, two equal requests without a key), quota of three, windows of two ticks, clock 0..2 | uniqueness, justified answers and conflicts, one answer per key, one plain notification per window, exact quota, refinement of `IntakeLedger` |
| `fanout_race` | four blocks of 1,300 users, two channels, two fanouts, a limit of 5,000 recipients | fanouts independent of each other, counts, no deadlock, refinement of `FanoutLedger` (complete deliveries for the audience resolved) |
| `fanout_demo` | two blocks of 2,500 users, default limits | **violation**: finding 3 |
| `inbox` | three rows, two mark-read requests, pages of one or two rows, clock 0..1 | pages descend, nothing is skipped, `read_at` is the time of a request that found the row unread |
| `api` | two scrapes and one call, a limit of two bytes and bodies of two and three, two queries, a pool of two threads, one failing query, clock 0..2 | whole bodies or a refusal, fresh gauges, spaced refreshes, each call counted once as answered; every request that was read or refused is answered |
| `pipeline` | two demo users, six selections, one edit, a copy of an event, one disruption | queries exact, audiences restored by another seeding, rows and replays follow their cause, refinement of `NotificationLedger` (nobody addressed or served twice); an accepted notification reaches the end of the pipeline |

Type invariants are proved, not run. Proved only are also `SettledStable` and
`StaleClaimHarmless` of `DeliveryWorkers`, `PublishedIsOnTopic` of `OutboxPublisher`,
`CommitForward` of `NotificationConsumer`,
`RecipientsFullyServed` of `FanoutTransactions` and `ServedOnce` of `Pipeline`, which the
refinements of the ledgers imply, and the properties that delimit the findings (below).

**Bounds.** Two workers, publishers, consumers or fanouts are needed for every
race described in the code and a third one repeats the role of one of them.
`MaxAttempts` 2 has a first, a last and no middle attempt; the guards compare
with the last one only. The clock is long enough for a lease to run out, its
row to be taken over and the second lease to run out. Crashes, exceptions and rebalances of
the consumers share one budget of disruptions (two in `consumer_group`, so that every pair
of kinds meets); the other runs have one crash, at any step. The rows
of a batch share only its clock reading, and a slow step of a batch of one makes that
reading as old as a long batch does; for delivery rows the proofs cover every batch. Three
inbox rows on two instants give ties within a page and across two. In `api` both scrapes may
fill the pool, the interval is as long as the clock, so a value may just expire, and two
queries are enough for a refresh to be half done. The requests of `intake` come
from one service, since a sixth request makes the instance too large; that a key and a quota
count within a service is proved for any services (`AnswersJustified`, `KeysHaveOneAnswer`,
`QuotaIsExact`). In `pipeline` the first demo user matches
the selection and the second one does once its region is edited; with one attempt per event
an ambiguous publish settles as failed while the topic has the event.
Deadlock is checked except in the runs of `NotificationConsumer` (a group that
has read its log waits), `NotificationIntake` (all requests are answered),
`WebInbox` (everything is delivered, marked and listed), `ApiProcess` (requests that are
answered stay so) and `Pipeline` (everything is settled). In `intake` a request
and its resend are interchangeable, and so are the two requests without a key: both pairs
are permuted by symmetry.

**Fairness.** A worker, publisher or consumer keeps taking steps: `run_forever` polls
again after each cycle, also after one that raised. Time passes. `FOR UPDATE SKIP LOCKED`
may miss a locked row at one poll, but a row that is claimable again and again
is claimed in the end (strong fairness of a claim of that row), since the
transactions that lock rows are single statements and a commit. Retry requests
end. `EventuallySettled` of the outbox leaves one way out: a broker call may outlive its lease
each time, and two publishers may then take an event over from each other for ever, none of them
ever reporting in time; the code has no bound on that. In `ApiProcess` the event loop and the threads
take their steps, but a client need neither send the rest of its body nor disconnect, and a
query need not fail. In `Pipeline` every worker keeps polling, and a publisher publishes the event it has claimed
(a copy, or an event that was given up meanwhile, the broker may store or not); that a row or an event that
is claimed again and again settles is what the two liveness runs of the workers show, and the ledgers bound the failures.
Nothing is assumed of crashes, exceptions and rebalances but that the bounds stop them.

## Findings

1. **A replay event repeats the fanout** (`notifications/requested.py:17`, run
   `consumer_replay`). The hardening design (lines 130-131) and
   `docs/architecture.md:57` say that it does not; since the audience is
   resolved anew, a retry can create recipients.
2. **A poison record can be lost** (`notifications/consumer.py:75`, run
   `consumer_poison`). The design (lines 135-136) has the record read again
   if its dead-letter publish fails. The position in the client has moved on,
   the runtime swallows the exception, and the next commit covers the record.
   The same holds for a record whose handler raised: `CommittedAccountedFor`
   counts it as abandoned.
3. **The demo audience does not fit** (`notification_fanout_service.py:84`, run
   `fanout_demo`). One INSERT binds 11 parameters for each missing delivery and
   PostgreSQL takes 65,535 in a statement, so more than 5,957 new deliveries
   fail although the limits admit 20,000. The design (lines 108-109) says the
   defaults allow 5,000 users.

How far each finding reaches is proved:

1. A replay creates recipients only if the audience has changed since the system
   started (`ReplaysKeepRecipientsUnlessChanged`): a consumer holds a replay only
   after a fanout, which left all of the audience in the table.
2. A poison record is passed over without a dead letter only if an exception was
   raised while a consumer had it in hand (`PoisonIsDeadLettered`). Crashes,
   rebalances and copies lose none.
3. A fanout that the limits admit and whose deliveries fit one statement is
   never rejected, whatever other fanouts insert meanwhile
   (`FittingFanoutsAreCommitted`); so the promise for 5,000 users holds for
   notifications on one channel (`DemoUsersFit`: 5,000 users times 11 parameters
   times the channels is within the limit).

Weaknesses that contradict no document, or not clearly:

* The stored counts fall behind the rows if fanouts overlap while the audience
  changes (`CountsBounded` claims exactness only without a change).
* A crash between a claim and its finalize costs no attempt, so nothing limits
  a row that crashes its worker. The runs bound the crashes; no property speaks of it.
* A record whose handler raised is given up: the commit of the next record covers it
  (`notifications/consumer.py:89`). The documents promise the contrary of poison records
  only (finding 2); the accounting of the consumer counts such a record as abandoned.
* A web row gets the clock reading of its batch as `delivered_at`, so a row
  delivered while the user pages may lie before the cursor and is missing from
  that traversal; `NothingSkipped` speaks of the rows that were there at its start.
* Two mark-read requests that overlap both find the row unread, and each stores
  and answers its own time (`repositories/notifications.py:364`);
  `tests/unit/test_notifications_api.py:561` has two requests in sequence
  answer the same. `ReadTimeIsAMark` is what holds in both cases.
* A scrape that passed the first check renders while a later refresh is half
  way, so a page may mix two snapshots; the design (lines 217-219) speaks of
  one. `RenderedFresh` is what holds: each value is fresh. A refresh that fails
  leaves the gauges it had set, and every waiting scrape tries its own.
* The Kafka clients start lazily; a start that fails leaves its half-started
  client behind, and the factories never call `close`.
* The demo profiles' region and tier are functions of the same remainder, so
  three of the nine combinations of the two labels select anybody.

## Proofs

All safety properties of `DeliveryWorkers` are proved for all values of the
constants, from the assumptions that module names: any number of rows, workers,
callers and tokens, any bounds. `DeliveryWorkersProofs`:

* `TypeCorrect` (`TypeOK`). `TypeOK` alone is not inductive: it bounds
  the attempt count by `MaxAttempts`, and a finalize adds one. The inductive
  invariant `TypeInv` adds `AttemptsLeft`, that a row which is not settled has an
  attempt left; `FinalStatus` re-establishes it by settling the row at the last
  attempt.
* `ClaimsAreExclusive` (`ClaimExclusive`), in two halves that are inductive
  over `TypeOK`: `Fenced` (claimed, token and lease go together) and `OneHolder`. It
  needs of a token only that it is in nobody's hand when a claim draws it.
* `SettledRowsStable` (`SettledStable`) and `StaleReportsIgnored`
  (`StaleClaimHarmless`), action by action from the type alone.
* `AttemptsRecordedOnce` (`AttemptLedger`) and `OneReplayPerFailure`
  (`ReplayOncePerFailure`). Both rest on `NextRowStep`: to a row a step does
  nothing, takes it, records one attempt, or marks it for a replay. `ReplayRow`
  strengthens the second: a row that failed has no replay event at its present
  attempt count, and no event is ahead of the count.
* `WorkersImplementLedger` (`LedgerSpec`): a claim maps to `Take`, a report that finds
  its claim to `Report`, everything else stutters.

What the lease gives:

* `ClaimsEndByHolderOrLease` (`ClaimEndsByHolderOrLease`).
* `SendersAreExclusive` (`SendersExclusive`). The invariant `HandsInv` says
  that, unless a row was taken over, a claim in a hand is the row's (`Current`), and
  that a worker inside the adapter has a claim in its hand (`AtWork`); two senders
  would then both hold the token.
* `SendsAreAccountedFor` (`SendsAccountedFor`). `SendsRow` strengthens it: a holder that
  has not sent yet has a send left. A crash after a send leaves the row one send
  ahead, and nobody holds it until a takeover, which is an overrun.

`OutboxPublisherProofs`, about every set of events and publishers. The
invariant has three layers, each inductive over the ones before it:

* `TypeInv`: `TypeOK`, `AttemptsLeft` (the last attempt settles the event and
  nothing else settles it as failed) and `HandsClaimed` (an event in a hand was
  claimed before), for `OutboxTypeCorrect`.
* `FenceInv` adds `Fenced` and `OneHolder`, for `OutboxClaimsExclusive`.
  `OutboxStaleReportsIgnored` follows from the guards of a report and the type.
* `TopicInv`: a publish that did not raise has stored a copy (`Stored`), which
  gives `OutboxPublishedIsOnTopic`. While no lease of an event ran out, a claim
  in a hand is the event's, and the holder that has not sent yet finds no more
  copies than recorded attempts (`CopiesRow`), which gives
  `OutboxCopiesAccountedFor`: it needs the invariant about hands because a
  publish knows nothing of the row.
* `PublishersImplementLedger` maps `Claim` to `Take`, a publish that stored the
  event to `Store`, a finalize that finds its claim to a report.

`ApiProcessProofs`, for any number of requests, threads, queries and bytes. The
process is a conjunction of its parts, so each part has an invariant of its own:

* `CacheInv` is proved of the cache alone and carried over by
  `ProcessRunsCache` (`Spec => CacheSpec`). No gauge is older than the noted
  time of the last refresh (`GaugesSinceLast`), which needs that the time noted
  is the one before the first query; whoever queries holds the lock and saw the
  last refresh expire (`RefreshesUnderLock`). `GaugesRenderedFresh` and
  `RefreshesAreSpaced` follow.
* `BodyInv`, for `BodiesWholeOrRefused`: a body that reached the application
  without a disconnect is whole and within the limit.
* `HttpInv`, for `CallsCountedAsAnswered`: until there is an answer the
  middleware would record a 500, and afterwards what was answered.
* `ProcessTypeCorrect` (`TypeOK`), from the three.

`PipelineProofs`, for any number of demo users, any selection and any bounds:

* `AudiencesExact` (`AudienceExact`) rests on `DirectoryInv` (the foreign keys and
  the unique constraint of the tables) and on `CountMeansAll`: the
  keys of a selection are in bijection with its pairs, so a count of matched
  keys that equals the number of pairs means that all of them match.
* `CausesComeFirst` (`CausesFirst`) is inductive with two facts: a replay event
  exists only if rows do, and the consumer handles a record of the topic.
* `SeedingRestoresAudiences` (`SeedingRestores`) carries in `DirectoryInv` what a
  seeding leaves (`Restored`); that it leaves it over any tables is `SeededLabels`: rows
  updated and rows inserted are together one row for each profile and key. `QueriesExact`
  turns rows into what the queries find.
* `RowsServedOnce` (`ServedOnce`) and `PipelineTypeCorrect` (`TypeOK`).
* `PipelineKeepsPromise` (`ServiceSpec`), over `ServiceInv`: the request is on the
  topic only if it was accepted (`StoredAccepted`), with which a consumer that fans
  out knows that it was, since whatever it handles is a copy of the request or
  follows one (`ReplaysFollow`); and no delivery worker touches a user without a
  row (`UntouchedWithoutRow`), without which an inserted row might be one that was
  tried before. `QueriesExact` turns the users found into the users meant.
  `Handle` maps to `Address`, `Take` and `Report` to `Try` and `Report`, an edit or a seeding to
  `ChangeAudience`; publishing, marking, committing, retrying and restarting stutter.
* `PipelineRunsLedgers`: seen through the variables of one ledger, the pipeline is
  a behaviour of that ledger. A fanout stutters in `DeliveryLedger`, again by
  `UntouchedWithoutRow`.

`NotificationIntakeProofs`, for any finite set of requests and any windows:

* `QuotaIsExact` (`QuotaExact`) over `QuotaInv`: no counter exceeds the number
  of requests that were counted (`QuotaBounded`), so the bound of the counters
  is never what stops a request, and a request that was not counted is in no window.
* `NotificationsUnique`, `AnswersJustified` and `KeysHaveOneAnswer` over
  `CreationInv`: a request computes one identity, once (`IdentityInv`); a row
  carries the payload and the identity of the request that wrote it (`RowInv`);
  whoever was answered found or wrote a row with its own identity (`AnswerInv`).
* `PlainRequestsOncePerWindow` (`PlainOncePerWindow`): equal identities without a
  key are of one window (`IdentityParts`).
* `IntakeImplementsLedger` (`LedgerSpec`). A request takes effect at its insert
  (`Create`), or when it finds the row of another one, before or after its conflict
  (`Repeat`, by `FoundRepeats`); the quota's refusal is `Refuse`, an error or a lost
  response `Lose`. Besides `CreationInv` it needs `NamesNothing`: a request that has no
  answer names no notification, and one that was refused takes no further step.

`NotificationConsumerProofs`, for any log, any partitions and any finite set of
consumers:

* `ConsumerTypeCorrect` (`TypeOK`) over `ConsumerType`, in which whoever is not
  idle has a record; `CommitsMoveForward` (`CommitForward`) follows, since no
  position is behind its offset.
* `ProcessedEventsWereHandled`: an event in `processed_events` was fanned out, whichever
  consumer marked it and whatever was rebalanced between the fanout and the mark.
* `CommitsAreAccountedFor` (`CommittedAccountedFor`) over `AccountInv`: of the
  records read since the last commit at most the one in the owner's hand is
  open, and whoever is about to commit has closed it. A consumer that lost its
  partition commits nothing of it.
* `EventsHandledOncePerDisruption` (`HandledOncePerDisruption`) over
  `HandledInv`: the fanouts completed, and the consumers that may yet complete
  one, are paid for by the disruptions and, until the event is marked, by the
  owner that holds it. It needs that the copies of an event share a partition
  (`CopiesAssumption`, which the key of the envelope gives).
* `ConsumersImplementLedger` (`LedgerSpec`) over `LedgerInv`, which joins the invariants
  above in the states before and after a step: a fanout is within its budget because the
  count after it is, a mark follows a fanout (`MarksHandled`), a replay in hand was
  written after one (`WorksOnWritten`), and a commit covers accounted records alone.

`FanoutTransactionsProofs`, for any finite sets of users and channels and any
number of overlapping fanouts:

* `FanoutsAreIndependent`, `RecipientsAreFullyServed` and `FanoutsDoNotDeadlock`
  over `RowsInv`: what a transaction inserted and has still to insert (`OwnRow`),
  in particular that all it inserted precedes all it has yet to insert; two
  fanouts that wait for each other would need two users each before the other.
* `CountsAreBounded` (`CountsBounded`) over `CountInv`: every count a
  transaction carries is one of rows that exist or that it is about to commit, and
  while the audience has not changed it is that of all the rows (`Exact`).
* `FanoutsImplementLedger` (`LedgerSpec`), over `RowsInv`: between `Resolve` and the
  commit every statement stutters, since others see none of it, and a commit adds for
  each resolved user the rows that are not there yet, its own ones together with those
  it waited for. A fanout to users whose rows another one inserted completes as well.
* `FittingFanoutsAreCommitted` and `DemoUsersFit`, by arithmetic on the size of the
  delivery statement (`AllFitFits`) and the steps that end a fanout (`EarlyEnd`).

`WebInboxProofs`, for any finite set of rows, any requests and any page sizes:

* `ReadTimesAreMarks` (`ReadTimeIsAMark`) with `SeenIsAMark`: a time that a
  request found is that of another request that found the row unread.
* `PagesAreDescending` (`PagesDescend`) and `NothingIsSkipped`
  (`NothingSkipped`) over `TraversalInv`: the cursor is the last row listed
  so far, all the rows listed before come before it, and a row of the start that
  still matches was listed or lies beyond it. `OnePage` is what one SELECT with
  a limit gives: a page that precedes the rest, never empty if there is more
  (an empty page would lose the cursor), and everything if there is not. The last
  row of a page exists because a finite family of sets has a minimal member.
* `TraversalsAreComplete`: a finished traversal has shown every row that matched at its
  start and still does, since there is no cursor left to be beyond.
* `InboxTypeCorrect` (`TypeOK`).

Only model-checked: liveness under fairness (tlapm does not reason about
`ENABLED`). Every safety property of the passing runs is proved. The theorems speak of
`Spec`; a run that starts from `MCInit` or adds fairness checks a behaviour of `Spec` too.

## Not modelled

* Authentication, settings, routing and request schemas decide on one request
  alone and keep nothing between requests.
* The pauses and the backoff of the polling runtime change when a poll happens,
  not what it does; the modules let a poll happen at any time. The command line
  and the factories are wiring.
* The Kafka clients' event loop thread serialises the calls of one worker, which
  is sequential already.
* Migrations are one-time scripts; the constraints they create are in the
  modules. Histograms and worker counters have no reader in the system. The
  workload generator is a client like any other. Compose files and dashboards
  are configuration.

## Plan

What a next step would take on: the lifecycle of the Kafka clients (lazy start,
failed start, close) together with the backoff of the polling runtime, and
larger instances of the liveness runs.
