------------------------ MODULE PipelineMetricsCache ------------------------
(***************************************************************************)
(* The time-based cache of the pipeline gauges behind GET /metrics.        *)
(* Scrapes run in threads of one process.  A scrape that finds the last    *)
(* refresh fresh renders the gauges at once, without the lock; another one *)
(* waits for the lock, looks again and, if it still has to, runs the       *)
(* queries one by one, each setting its gauges, before it notes the time   *)
(* of the refresh: the time at which it began.                             *)
(***************************************************************************)
EXTENDS Integers

CONSTANTS
    Scrapes,
    NoScrape,        \* the lock is free
    QueryCount,      \* queries of a refresh; the code runs five
    Interval,        \* refresh_interval_seconds
    Horizon,         \* bound: the last clock value explored
    MaxQueryErrors   \* bound on queries that raise

ASSUME CacheAssumption ==
    /\ NoScrape \notin Scrapes
    /\ QueryCount \in Nat \ {0}
    /\ Interval \in Nat \ {0}
    /\ Horizon \in Nat
    /\ MaxQueryErrors \in Nat

VARIABLES
    clock,      \* the monotonic clock
    last,       \* _last_refresh_at
    gauge,      \* query -> when the counts its gauges show were read
    lock,       \* who holds _refresh_lock
    scrape,     \* scrape -> control point
    observed,   \* scrape -> its last reading of the clock
    query,      \* scrape -> queries done in its refresh
    result,     \* scrape -> when its last SELECT ran, before the gauges are set
    queryErrors

cacheVars == <<clock, last, gauge, lock, scrape, observed, query, result, queryErrors>>

Never == -1
Queries == 1 .. QueryCount
NoResult == -1

CacheInit ==
    /\ clock = 0
    /\ last = Never
    /\ gauge = [q \in Queries |-> Never]
    /\ lock = NoScrape
    /\ scrape = [s \in Scrapes |-> "new"]
    /\ observed = [s \in Scrapes |-> 0]
    /\ query = [s \in Scrapes |-> 0]
    /\ result = [s \in Scrapes |-> NoResult]
    /\ queryErrors = 0

Tick ==
    /\ clock < Horizon
    /\ clock' = clock + 1
    /\ UNCHANGED <<last, gauge, lock, scrape, observed, query, result, queryErrors>>

IsFresh(t) == last # Never /\ t - last < Interval

Begin(s) ==
    /\ scrape[s] = "new"
    /\ observed' = [observed EXCEPT ![s] = clock]
    /\ scrape' = [scrape EXCEPT ![s] = "checking"]
    /\ UNCHANGED <<clock, last, gauge, lock, query, result, queryErrors>>

CheckFresh(s) ==
    /\ scrape[s] = "checking"
    /\ scrape' = [scrape EXCEPT ![s] =
                    IF IsFresh(observed[s]) THEN "rendering" ELSE "waiting"]
    /\ UNCHANGED <<clock, last, gauge, lock, observed, query, result, queryErrors>>

\* Mutation of FreshUnderLock: no second check.
FreshUnderLockUnchecked(s) == FALSE

FreshUnderLock(s) == IsFresh(clock)

\* The clock is read again and the check repeated under the lock.
Acquire(s) ==
    /\ scrape[s] = "waiting"
    /\ lock = NoScrape
    /\ observed' = [observed EXCEPT ![s] = clock]
    /\ IF FreshUnderLock(s)
       THEN /\ scrape' = [scrape EXCEPT ![s] = "rendering"]
            /\ UNCHANGED lock
       ELSE /\ scrape' = [scrape EXCEPT ![s] = "querying"]
            /\ lock' = s
    /\ UNCHANGED <<clock, last, gauge, query, result, queryErrors>>

Select(s) ==
    /\ scrape[s] = "querying"
    /\ query[s] < QueryCount
    /\ result[s] = NoResult
    /\ result' = [result EXCEPT ![s] = clock]
    /\ UNCHANGED <<clock, last, gauge, lock, scrape, observed, query, queryErrors>>

SetGauges(s) ==
    /\ result[s] # NoResult
    /\ gauge' = [gauge EXCEPT ![query[s] + 1] = result[s]]
    /\ query' = [query EXCEPT ![s] = @ + 1]
    /\ result' = [result EXCEPT ![s] = NoResult]
    /\ UNCHANGED <<clock, last, lock, scrape, observed, queryErrors>>

\* Mutation of RefreshTime: the time at which the refresh ended.
RefreshTimeAtEnd(s) == clock

RefreshTime(s) == observed[s]

FinishRefresh(s) ==
    /\ scrape[s] = "querying"
    /\ query[s] = QueryCount
    /\ last' = RefreshTime(s)
    /\ lock' = NoScrape
    /\ scrape' = [scrape EXCEPT ![s] = "rendering"]
    /\ query' = [query EXCEPT ![s] = 0]
    /\ UNCHANGED <<clock, gauge, observed, result, queryErrors>>

\* The scrape returns, its local variables are gone.
End(s, how) ==
    /\ scrape' = [scrape EXCEPT ![s] = how]
    /\ observed' = [observed EXCEPT ![s] = 0]
    /\ query' = [query EXCEPT ![s] = 0]

\* Mutation of LockAfterError: a failed refresh keeps the lock.
LockAfterErrorKept == lock

LockAfterError == NoScrape

\* A query raises: the lock is released, the time of the refresh stays as it
\* was, and the gauges already set keep their new values.
QueryError(s) ==
    /\ scrape[s] = "querying"
    /\ query[s] < QueryCount
    /\ result[s] = NoResult
    /\ queryErrors < MaxQueryErrors
    /\ queryErrors' = queryErrors + 1
    /\ lock' = LockAfterError
    /\ End(s, "failed")
    /\ UNCHANGED <<clock, last, gauge, result>>

Render(s) ==
    /\ scrape[s] = "rendering"
    /\ End(s, "rendered")
    /\ UNCHANGED <<clock, last, gauge, lock, result, queryErrors>>

ScrapeStep(s) ==
    \/ CheckFresh(s)
    \/ Acquire(s)
    \/ Select(s)
    \/ SetGauges(s)
    \/ FinishRefresh(s)
    \/ Render(s)

CacheNext ==
    \/ Tick
    \/ \E s \in Scrapes : Begin(s) \/ ScrapeStep(s) \/ QueryError(s)

CacheSpec == CacheInit /\ [][CacheNext]_cacheVars

-----------------------------------------------------------------------------
(* Properties *)

\* Whatever refreshes overlap it, each value a scrape may render was read from
\* the tables less than Interval before the scrape's last look at the clock.
RenderedFresh ==
    \A s \in Scrapes : scrape[s] = "rendering" =>
        \A q \in Queries : gauge[q] # Never /\ observed[s] - gauge[q] < Interval

\* Two successful refreshes begin at least Interval apart, however many scrapes
\* came while the first one ran.
RefreshesSpaced ==
    [][last' # last /\ last # Never => last' - last >= Interval]_cacheVars
=============================================================================
