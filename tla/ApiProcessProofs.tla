-------------------------- MODULE ApiProcessProofs --------------------------
(***************************************************************************)
(* Proofs about ApiProcess and its two parts, for every set of requests    *)
(* and every value of the bounds.  The cache and the body limit are proved *)
(* on their own; a step of the process is one of each or leaves it alone.  *)
(***************************************************************************)
EXTENDS ApiProcess, FiniteSetTheorems, TLAPS

-----------------------------------------------------------------------------
(* The cache of the pipeline gauges *)

CachePoints == {"new", "checking", "waiting", "querying", "rendering", "rendered", "failed"}

CacheType ==
    /\ clock \in Nat
    /\ last \in Nat \cup {Never}
    /\ gauge \in [Queries -> Nat \cup {Never}]
    /\ lock \in Scrapes \cup {NoScrape}
    /\ scrape \in [Scrapes -> CachePoints]
    /\ observed \in [Scrapes -> Nat]
    /\ query \in [Scrapes -> 0 .. QueryCount]
    /\ result \in [Scrapes -> Nat \cup {NoResult}]

\* No gauge is older than the time noted for the last refresh.
GaugesSinceLast == last # Never => \A q \in Queries : gauge[q] # Never /\ gauge[q] >= last

\* A refresh holds the lock, began at least Interval after the last one, and
\* what it has read is not older than its begin.
Refreshing(s) ==
    /\ lock = s
    /\ observed[s] =< clock
    /\ last # Never => observed[s] - last >= Interval
    /\ \A q \in Queries :
        q =< query[s] => gauge[q] # Never /\ gauge[q] >= observed[s]
    /\ result[s] # NoResult => result[s] >= observed[s] /\ query[s] < QueryCount
RefreshesUnderLock == \A s \in Scrapes : scrape[s] = "querying" => Refreshing(s)

\* A SELECT has a result only inside a refresh.
ResultsInRefresh == \A s \in Scrapes : result[s] # NoResult => scrape[s] = "querying"

\* A scrape that renders found the last refresh fresh, or made it.
RendersFresh == \A s \in Scrapes : scrape[s] = "rendering" => IsFresh(observed[s])

CacheInv ==
    /\ CacheType
    /\ GaugesSinceLast
    /\ RefreshesUnderLock
    /\ ResultsInRefresh
    /\ RendersFresh

\* Before the first scrape nothing was read.
LEMMA CacheInitInv == CacheInit => CacheInv
BY CacheAssumption
DEF CacheInit, CacheInv, CacheType, GaugesSinceLast, RefreshesUnderLock, ResultsInRefresh,
    RendersFresh, CachePoints, Never, NoResult, Queries

\* A step of a scrape that is not refreshing, to a point outside a refresh.
LEMMA OutsideRefresh ==
    ASSUME CacheInv, NEW s \in Scrapes, scrape[s] # "querying",
           UNCHANGED <<clock, last, gauge, lock, result>>,
           NEW point \in CachePoints \ {"querying"},
           scrape' = [scrape EXCEPT ![s] = point],
           NEW time \in Nat, observed' = [observed EXCEPT ![s] = time],
           NEW n \in 0 .. QueryCount, query' = [query EXCEPT ![s] = n],
           point = "rendering" => IsFresh(time)
    PROVE  CacheInv'
<1>1. CacheType'
    BY DEF CacheInv, CacheType
<1>2. \A t \in Scrapes : t # s =>
        scrape'[t] = scrape[t] /\ observed'[t] = observed[t] /\ query'[t] = query[t]
    BY DEF CacheInv, CacheType
<1>3. scrape'[s] = point /\ observed'[s] = time /\ scrape'[s] # "querying"
    BY DEF CacheInv, CacheType
<1>4. GaugesSinceLast'
    BY DEF CacheInv, GaugesSinceLast
<1>5. RefreshesUnderLock'
    BY <1>2, <1>3 DEF CacheInv, RefreshesUnderLock, Refreshing
<1>6. ResultsInRefresh'
    BY <1>2 DEF CacheInv, ResultsInRefresh
<1>7. RendersFresh'
    BY <1>2, <1>3 DEF CacheInv, RendersFresh, IsFresh
<1> QED BY <1>1, <1>4, <1>5, <1>6, <1>7 DEF CacheInv

\* The first look at the clock.
LEMMA BeginInv == ASSUME CacheInv, NEW s \in Scrapes, Begin(s) PROVE CacheInv'
<1>1. query' = [query EXCEPT ![s] = query[s]] /\ query[s] \in 0 .. QueryCount /\ clock \in Nat
    BY DEF Begin, CacheInv, CacheType
<1>2. scrape[s] = "new" /\ "checking" \in CachePoints \ {"querying"}
    BY DEF Begin, CachePoints
<1> QED BY <1>1, <1>2, OutsideRefresh DEF Begin

\* The check without the lock.
LEMMA CheckFreshInv == ASSUME CacheInv, NEW s \in Scrapes, CheckFresh(s) PROVE CacheInv'
<1>1. /\ query' = [query EXCEPT ![s] = query[s]] /\ query[s] \in 0 .. QueryCount
      /\ observed' = [observed EXCEPT ![s] = observed[s]] /\ observed[s] \in Nat
    BY DEF CheckFresh, CacheInv, CacheType
<1>2. scrape[s] = "checking" /\ {"rendering", "waiting"} \subseteq CachePoints \ {"querying"}
    BY DEF CheckFresh, CachePoints
<1>3. PICK point \in {"rendering", "waiting"} :
        /\ scrape' = [scrape EXCEPT ![s] = point]
        /\ point = "rendering" => IsFresh(observed[s])
    BY DEF CheckFresh
<1> QED BY <1>1, <1>2, <1>3, OutsideRefresh DEF CheckFresh

\* The check under the lock: a refresh begins only if the last one is over
\* Interval ago.
LEMMA AcquireInv ==
    ASSUME CacheInv, NEW s \in Scrapes, query[s] = 0, Acquire(s) PROVE CacheInv'
<1>1. /\ query' = [query EXCEPT ![s] = query[s]] /\ query[s] \in 0 .. QueryCount
      /\ clock \in Nat /\ scrape[s] = "waiting"
    BY DEF Acquire, CacheInv, CacheType
<1>2. CASE IsFresh(clock)
    BY <1>1, <1>2, OutsideRefresh DEF Acquire, FreshUnderLock, CachePoints
<1>3. CASE ~IsFresh(clock)
    <2>1. /\ scrape' = [scrape EXCEPT ![s] = "querying"]
          /\ observed' = [observed EXCEPT ![s] = clock]
          /\ lock = NoScrape /\ lock' = s
          /\ UNCHANGED <<clock, last, gauge, query, result>>
        BY <1>3 DEF Acquire, FreshUnderLock
    <2>2. /\ scrape'[s] = "querying" /\ observed'[s] = clock
          /\ \A t \in Scrapes : t # s => scrape'[t] = scrape[t] /\ observed'[t] = observed[t]
        BY <2>1 DEF CacheInv, CacheType
    <2>3. \A t \in Scrapes : scrape[t] # "querying"
        BY <2>1, CacheAssumption DEF CacheInv, RefreshesUnderLock, Refreshing
    <2>4. result[s] = NoResult
        BY <2>3 DEF CacheInv, ResultsInRefresh
    <2>5. last # Never => clock - last >= Interval
        BY <1>3, CacheAssumption DEF IsFresh, CacheInv, CacheType
    <2>6. CacheType'
        BY <2>1 DEF CacheInv, CacheType, CachePoints
    <2>7. Refreshing(s)'
        BY <1>1, <2>1, <2>2, <2>4, <2>5 DEF Refreshing, Queries
    <2>8. RefreshesUnderLock'
        BY <2>2, <2>3, <2>7 DEF RefreshesUnderLock
    <2>9. GaugesSinceLast' /\ ResultsInRefresh'
        BY <2>1, <2>2, <2>3 DEF CacheInv, GaugesSinceLast, ResultsInRefresh
    <2>10. RendersFresh'
        BY <2>1, <2>2 DEF CacheInv, RendersFresh, IsFresh
    <2> QED BY <2>6, <2>8, <2>9, <2>10 DEF CacheInv
<1> QED BY <1>2, <1>3

\* A query reads the tables now.
LEMMA SelectInv == ASSUME CacheInv, NEW s \in Scrapes, Select(s) PROVE CacheInv'
<1>1. /\ scrape[s] = "querying" /\ query[s] < QueryCount
      /\ result' = [result EXCEPT ![s] = clock]
      /\ UNCHANGED <<clock, last, gauge, lock, scrape, observed, query>>
    BY DEF Select
<1>2. /\ result'[s] = clock
      /\ \A t \in Scrapes : t # s => result'[t] = result[t]
    BY <1>1 DEF CacheInv, CacheType
<1>3. CacheType'
    BY <1>1 DEF CacheInv, CacheType
<1>4. RefreshesUnderLock'
    BY <1>1, <1>2 DEF CacheInv, RefreshesUnderLock, Refreshing
<1>5. GaugesSinceLast' /\ ResultsInRefresh' /\ RendersFresh'
    BY <1>1, <1>2 DEF CacheInv, GaugesSinceLast, ResultsInRefresh, RendersFresh, IsFresh
<1> QED BY <1>3, <1>4, <1>5 DEF CacheInv

\* Gauges are set to what was just read, which is younger than the last refresh.
LEMMA SetGaugesInv == ASSUME CacheInv, NEW s \in Scrapes, SetGauges(s) PROVE CacheInv'
<1> DEFINE q == query[s] + 1
<1>1. /\ scrape[s] = "querying" /\ Refreshing(s)
      /\ result[s] # NoResult /\ result[s] \in Nat /\ result[s] >= observed[s]
    BY DEF SetGauges, CacheInv, ResultsInRefresh, RefreshesUnderLock, Refreshing, CacheType
<1>2. /\ query[s] \in 0 .. QueryCount /\ query[s] < QueryCount
      /\ observed[s] \in Nat /\ last \in Nat \cup {Never} /\ QueryCount \in Nat
    BY <1>1, CacheAssumption DEF SetGauges, Refreshing, CacheInv, CacheType
<1>3. q \in Queries /\ q \in 0 .. QueryCount
    BY <1>2 DEF Queries
<1>4. /\ gauge' = [gauge EXCEPT ![q] = result[s]]
      /\ query' = [query EXCEPT ![s] = q]
      /\ result' = [result EXCEPT ![s] = NoResult]
      /\ UNCHANGED <<clock, last, lock, scrape, observed>>
    BY DEF SetGauges, CacheInv, CacheType
<1>5. /\ gauge'[q] = result[s]
      /\ \A x \in Queries : x # q => gauge'[x] = gauge[x]
      /\ query'[s] = q /\ result'[s] = NoResult
      /\ \A t \in Scrapes : t # s => query'[t] = query[t] /\ result'[t] = result[t]
    BY <1>3, <1>4 DEF CacheInv, CacheType
<1>6. \A t \in Scrapes : scrape[t] = "querying" => t = s
    BY <1>1 DEF CacheInv, RefreshesUnderLock, Refreshing
<1> HIDE DEF q
<1>7. CacheType'
    BY <1>1, <1>3, <1>4 DEF CacheInv, CacheType
<1>8. GaugesSinceLast'
    <2>1. last # Never => result[s] >= last /\ result[s] # Never
        BY <1>1, <1>2, CacheAssumption DEF Refreshing, Never
    <2> QED BY <1>4, <1>5, <2>1 DEF CacheInv, GaugesSinceLast
<1>9. Refreshing(s)'
    <2>1. \A x \in Queries : x =< q => gauge'[x] # Never /\ gauge'[x] >= observed[s]
        <3> SUFFICES ASSUME NEW x \in Queries, x =< q
                     PROVE  gauge'[x] # Never /\ gauge'[x] >= observed[s]
            OBVIOUS
        <3>1. CASE x = q
            BY <1>1, <1>5, <3>1 DEF Never
        <3>2. CASE x # q
            <4>1. x =< query[s]
                BY <1>2, <3>2 DEF q, Queries
            <4> QED BY <1>1, <1>5, <3>2, <4>1 DEF Refreshing
        <3> QED BY <3>1, <3>2
    <2> QED BY <1>1, <1>4, <1>5, <2>1 DEF Refreshing
<1>10. RefreshesUnderLock'
    BY <1>4, <1>6, <1>9 DEF RefreshesUnderLock
<1>11. ResultsInRefresh' /\ RendersFresh'
    BY <1>4, <1>5 DEF CacheInv, ResultsInRefresh, RendersFresh, IsFresh
<1> QED BY <1>7, <1>8, <1>10, <1>11 DEF CacheInv

\* The time noted is the one at which the refresh began, so that every gauge is
\* at least that young.
LEMMA FinishRefreshInv ==
    ASSUME CacheInv, NEW s \in Scrapes, result[s] = NoResult, FinishRefresh(s) PROVE CacheInv'
<1>1. /\ scrape[s] = "querying" /\ Refreshing(s) /\ query[s] = QueryCount
      /\ last' = observed[s] /\ lock' = NoScrape
      /\ scrape' = [scrape EXCEPT ![s] = "rendering"]
      /\ query' = [query EXCEPT ![s] = 0]
      /\ UNCHANGED <<clock, gauge, observed, result>>
    BY DEF FinishRefresh, RefreshTime, CacheInv, RefreshesUnderLock
<1>2. /\ scrape'[s] = "rendering"
      /\ \A t \in Scrapes : t # s => scrape'[t] = scrape[t]
      /\ observed[s] \in Nat /\ last \in Nat \cup {Never}
    BY <1>1 DEF CacheInv, CacheType
<1>3. \A t \in Scrapes : scrape'[t] # "querying"
    BY <1>1, <1>2 DEF CacheInv, RefreshesUnderLock, Refreshing
<1>4. CacheType'
    BY <1>1, <1>2, CacheAssumption DEF CacheInv, CacheType, CachePoints
<1>5. GaugesSinceLast'
    BY <1>1 DEF GaugesSinceLast, Refreshing, Queries
<1>6. RefreshesUnderLock'
    BY <1>3 DEF RefreshesUnderLock
<1>7. ResultsInRefresh'
    BY <1>1, <1>2 DEF CacheInv, ResultsInRefresh
<1>8. RendersFresh'
    <2> SUFFICES ASSUME NEW t \in Scrapes, scrape'[t] = "rendering"
                 PROVE  last' # Never /\ observed[t] - last' < Interval
        BY <1>1 DEF RendersFresh, IsFresh
    <2>1. observed[t] \in Nat /\ last' # Never
        BY <1>1, <1>2 DEF CacheInv, CacheType, Never
    <2>2. CASE t = s
        BY <1>1, <1>2, <2>1, <2>2, CacheAssumption
    <2>3. CASE t # s
        <3>1. last # Never /\ observed[t] - last < Interval
            BY <1>2, <2>3 DEF CacheInv, RendersFresh, IsFresh
        <3>2. observed[s] - last >= Interval
            BY <1>1, <3>1 DEF Refreshing
        <3> QED BY <1>1, <1>2, <2>1, <3>1, <3>2, CacheAssumption
    <2> QED BY <2>2, <2>3
<1> QED BY <1>4, <1>5, <1>6, <1>7, <1>8 DEF CacheInv

\* A query that raises ends the refresh; the gauges it has set stay.
LEMMA QueryErrorInv == ASSUME CacheInv, NEW s \in Scrapes, QueryError(s) PROVE CacheInv'
<1>1. /\ scrape[s] = "querying" /\ Refreshing(s) /\ lock' = NoScrape
      /\ scrape' = [scrape EXCEPT ![s] = "failed"]
      /\ observed' = [observed EXCEPT ![s] = 0]
      /\ query' = [query EXCEPT ![s] = 0]
      /\ result[s] = NoResult
      /\ UNCHANGED <<clock, last, gauge, result>>
    BY DEF QueryError, LockAfterError, End, CacheInv, RefreshesUnderLock
<1>2. /\ scrape'[s] = "failed"
      /\ \A t \in Scrapes : t # s => scrape'[t] = scrape[t] /\ observed'[t] = observed[t]
    BY <1>1 DEF CacheInv, CacheType
<1>3. CacheType'
    BY <1>1, CacheAssumption DEF CacheInv, CacheType, CachePoints
<1>4. RefreshesUnderLock'
    BY <1>1, <1>2 DEF CacheInv, RefreshesUnderLock, Refreshing
<1>5. GaugesSinceLast' /\ ResultsInRefresh' /\ RendersFresh'
    BY <1>1, <1>2 DEF CacheInv, GaugesSinceLast, ResultsInRefresh, RendersFresh, IsFresh
<1> QED BY <1>3, <1>4, <1>5 DEF CacheInv

\* A scrape outside a refresh has no query done.
QueriesInRefresh == \A s \in Scrapes : query[s] # 0 => scrape[s] = "querying"

LEMMA NextQueriesInRefresh ==
    ASSUME CacheInv, QueriesInRefresh, [CacheNext]_cacheVars PROVE QueriesInRefresh'
<1>1. /\ scrape \in [Scrapes -> CachePoints]
      /\ query \in [Scrapes -> 0 .. QueryCount]
    BY DEF CacheInv, CacheType
<1>2. ASSUME NEW s \in Scrapes, SetGauges(s) PROVE QueriesInRefresh'
    <2>1. scrape[s] = "querying"
        BY <1>2 DEF SetGauges, CacheInv, ResultsInRefresh
    <2> QED BY <1>1, <1>2, <2>1 DEF SetGauges, QueriesInRefresh
<1> QED
    BY <1>1, <1>2
    DEF QueriesInRefresh, CacheNext, ScrapeStep, Tick, Begin, CheckFresh, Acquire, Select,
        FinishRefresh, QueryError, Render, End, cacheVars

\* CacheInv is inductive.
LEMMA CacheNextInv ==
    ASSUME CacheInv, QueriesInRefresh, [CacheNext]_cacheVars PROVE CacheInv'
<1>1. CASE Tick
    <2>1. clock' = clock + 1 /\ UNCHANGED <<last, gauge, lock, scrape, observed, query, result>>
        BY <1>1 DEF Tick
    <2>2. CacheType'
        BY <2>1 DEF CacheInv, CacheType
    <2>3. RefreshesUnderLock'
        BY <2>1 DEF CacheInv, CacheType, RefreshesUnderLock, Refreshing
    <2> QED
        BY <2>1, <2>2, <2>3
        DEF CacheInv, GaugesSinceLast, ResultsInRefresh, RendersFresh, IsFresh
<1>2. ASSUME NEW s \in Scrapes, Acquire(s) PROVE CacheInv'
    <2>1. query[s] = 0
        BY <1>2 DEF Acquire, QueriesInRefresh
    <2> QED BY <1>2, <2>1, AcquireInv
<1>3. ASSUME NEW s \in Scrapes, FinishRefresh(s) PROVE CacheInv'
    <2>1. result[s] = NoResult
        BY <1>3, CacheAssumption
        DEF FinishRefresh, CacheInv, RefreshesUnderLock, Refreshing
    <2> QED BY <1>3, <2>1, FinishRefreshInv
<1>4. ASSUME NEW s \in Scrapes, Render(s) PROVE CacheInv'
    <2>1. /\ scrape[s] = "rendering" /\ "rendered" \in CachePoints \ {"querying"}
          /\ 0 \in Nat /\ 0 \in 0 .. QueryCount
        BY <1>4, CacheAssumption DEF Render, CachePoints
    <2> QED BY <1>4, <2>1, OutsideRefresh DEF Render, End
<1>5. CASE UNCHANGED cacheVars
    BY <1>5
    DEF cacheVars, CacheInv, CacheType, GaugesSinceLast, RefreshesUnderLock, Refreshing,
        ResultsInRefresh, RendersFresh, IsFresh
<1> QED
    BY <1>1, <1>2, <1>3, <1>4, <1>5, BeginInv, CheckFreshInv, SelectInv, SetGaugesInv,
       QueryErrorInv
    DEF CacheNext, ScrapeStep

LEMMA CacheInvAlways == CacheSpec => [](CacheInv /\ QueriesInRefresh)
<1>1. CacheInit => QueriesInRefresh
    BY DEF CacheInit, QueriesInRefresh
<1> QED BY <1>1, CacheInitInv, CacheNextInv, NextQueriesInRefresh, PTL DEF CacheSpec

\* A step of the process is a step of the cache or leaves it alone.
LEMMA ProcessRunsCache == Spec => CacheSpec
<1>1. Init => CacheInit
    BY DEF Init
<1>2. [Next]_vars => [CacheNext]_cacheVars
    BY ApiAssumption
    DEF Next, RequestStep, Arrive, Refuse, Parse, Queue, RunCall, RunScrape, ReturnCall,
        RefreshStep, AnswerScrape, Leave, ReadBody, FailScrape, CacheNext, ScrapeStep, vars
<1> QED BY <1>1, <1>2, PTL DEF Spec, CacheSpec

\* Whatever scrapes overlap and whichever queries fail, no rendered gauge is
\* older than Interval.
THEOREM GaugesRenderedFresh == Spec => []RenderedFresh
<1>1. CacheInv => RenderedFresh
    <2> SUFFICES ASSUME CacheInv, NEW s \in Scrapes, scrape[s] = "rendering", NEW q \in Queries
                 PROVE  gauge[q] # Never /\ observed[s] - gauge[q] < Interval
        BY DEF RenderedFresh
    <2>1. last # Never /\ observed[s] - last < Interval
        BY DEF CacheInv, RendersFresh, IsFresh
    <2>2. gauge[q] # Never /\ gauge[q] >= last
        BY <2>1 DEF CacheInv, GaugesSinceLast
    <2>3. observed[s] \in Nat /\ last \in Nat /\ gauge[q] \in Nat
        BY <2>1, <2>2 DEF CacheInv, CacheType
    <2> QED BY <2>1, <2>2, <2>3, CacheAssumption
<1> QED BY <1>1, ProcessRunsCache, CacheInvAlways, PTL

\* Two successful refreshes begin at least Interval apart.
THEOREM RefreshesAreSpaced == Spec => RefreshesSpaced
<1>1. CacheInv /\ [CacheNext]_cacheVars =>
        (last' # last /\ last # Never => last' - last >= Interval)
    <2> SUFFICES ASSUME CacheInv, [CacheNext]_cacheVars, last' # last, last # Never
                 PROVE  last' - last >= Interval
        OBVIOUS
    <2>1. PICK s \in Scrapes : FinishRefresh(s)
        BY DEF CacheNext, ScrapeStep, Tick, Begin, CheckFresh, Acquire, Select, SetGauges,
               QueryError, Render, cacheVars
    <2> QED BY <2>1 DEF FinishRefresh, RefreshTime, CacheInv, RefreshesUnderLock, Refreshing
<1> QED BY <1>1, ProcessRunsCache, CacheInvAlways, PTL DEF CacheSpec, RefreshesSpaced

-----------------------------------------------------------------------------
(* The body limit *)

BodyType ==
    /\ bodyOf \in [Requests -> BodySizes \cup {0}]
    /\ stage \in [Requests -> {"new", "reading", "app", "rejected", "over"}]
    /\ received \in [Requests -> Nat]
    /\ \A r \in Requests : received[r] =< bodyOf[r]
    /\ gone \in [Requests -> BOOLEAN]
    /\ given \in [Requests -> {"nothing", "body", "disconnect"}]

\* Nothing of a request is read before it came in.
ReadAfterStart == \A r \in Requests : stage[r] = "new" => received[r] = 0

\* A body that was read without a disconnect is whole and within the limit.
WholeInApp ==
    \A r \in Requests : stage[r] = "app" /\ ~gone[r] =>
        received[r] = bodyOf[r] /\ bodyOf[r] =< MaxBody

\* A body is played back only to the application, and for a client that stayed.
PlayedInApp == \A r \in Requests : given[r] = "body" => stage[r] = "app" /\ ~gone[r]

\* What is refused is too large.
RejectedTooLarge == \A r \in Requests : stage[r] = "rejected" => bodyOf[r] > MaxBody

BodyInv == BodyType /\ ReadAfterStart /\ WholeInApp /\ PlayedInApp /\ RejectedTooLarge

LEMMA BodyInitInv == BodyInit => BodyInv
BY DEF BodyInit, BodyInv, BodyType, ReadAfterStart, WholeInApp, PlayedInApp, RejectedTooLarge

LEMMA StartInv ==
    ASSUME BodyInv, NEW r \in Requests, NEW n \in BodySizes \cup {0},
           NEW declared \in BOOLEAN, Start(r, n, declared)
    PROVE  BodyInv'
<1>1. /\ bodyOf' = [bodyOf EXCEPT ![r] = n]
      /\ stage' = [stage EXCEPT ![r] =
                     IF declared /\ TooLarge(n) THEN "rejected" ELSE "reading"]
      /\ stage[r] = "new" /\ received[r] = 0
      /\ UNCHANGED <<received, gone, given>>
    BY DEF Start, BodyInv, ReadAfterStart
<1>2. n \in Nat
    BY BodyAssumption
<1>3. BodyType'
    BY <1>1, <1>2 DEF BodyInv, BodyType
<1> QED
    BY <1>1, <1>2, <1>3
    DEF BodyInv, BodyType, ReadAfterStart, WholeInApp, PlayedInApp, RejectedTooLarge, TooLarge

LEMMA ReceiveSomeInv ==
    ASSUME BodyInv, NEW r \in Requests, ReceiveSome(r) PROVE BodyInv'
<1>1. PICK n \in 0 .. bodyOf[r] - received[r], more \in BOOLEAN : Receive(r, n, more)
    BY DEF ReceiveSome
<1>2. bodyOf[r] \in Nat /\ received[r] \in Nat /\ MaxBody \in Nat
    <2>1. bodyOf[r] \in BodySizes \cup {0} /\ received[r] \in Nat
        BY DEF BodyInv, BodyType
    <2>2. BodySizes \cup {0} \subseteq Nat /\ MaxBody \in Nat
        BY BodyAssumption
    <2>3. bodyOf[r] \in Nat
        BY <2>1, <2>2
    <2> QED BY <2>1, <2>2, <2>3
<1>3. n \in Nat /\ received[r] + n \in Nat /\ received[r] + n =< bodyOf[r]
    BY <1>2
<1>4. /\ stage[r] = "reading"
      /\ received' = [received EXCEPT ![r] = received[r] + n]
      /\ UNCHANGED <<bodyOf, gone, given>>
    BY <1>1 DEF Receive
<1>5. PICK point \in {"rejected", "reading", "app"} :
        /\ stage' = [stage EXCEPT ![r] = point]
        /\ point = "rejected" => bodyOf[r] > MaxBody
        /\ point = "app" => received[r] + n = bodyOf[r] /\ bodyOf[r] =< MaxBody
    <2> DEFINE point == IF received[r] + n > MaxBody THEN "rejected"
                        ELSE IF more THEN "reading" ELSE "app"
    <2>1. point \in {"rejected", "reading", "app"}
        OBVIOUS
    <2>2. stage' = [stage EXCEPT ![r] = point]
        BY <1>1 DEF Receive, TooLarge
    <2>3. point = "rejected" => bodyOf[r] > MaxBody
        BY <1>2, <1>3
    <2>4. point = "app" => received[r] + n = bodyOf[r] /\ bodyOf[r] =< MaxBody
        BY <1>1, <1>2, <1>3 DEF Receive
    <2> QED BY <2>1, <2>2, <2>3, <2>4
<1>6. BodyType'
    BY <1>3, <1>4, <1>5 DEF BodyInv, BodyType
<1>7. given[r] # "body"
    BY <1>4 DEF BodyInv, PlayedInApp
<1> QED
    BY <1>4, <1>5, <1>6, <1>7
    DEF BodyInv, BodyType, ReadAfterStart, WholeInApp, PlayedInApp, RejectedTooLarge

LEMMA ReceiveDisconnectInv ==
    ASSUME BodyInv, NEW r \in Requests, ReceiveDisconnect(r) PROVE BodyInv'
BY DEF ReceiveDisconnect, BodyInv, BodyType, ReadAfterStart, WholeInApp, PlayedInApp,
       RejectedTooLarge

LEMMA ReplayInv == ASSUME BodyInv, NEW r \in Requests, Replay(r) PROVE BodyInv'
BY DEF Replay, Played, BodyInv, BodyType, ReadAfterStart, WholeInApp, PlayedInApp,
       RejectedTooLarge

LEMMA ForgetInv == ASSUME BodyInv, NEW r \in Requests, Forget(r) PROVE BodyInv'
BY DEF Forget, BodyInv, BodyType, ReadAfterStart, WholeInApp, PlayedInApp, RejectedTooLarge

\* BodyInv is inductive for the process.
LEMMA BodyNextInv == ASSUME BodyInv, [Next]_vars PROVE BodyInv'
<1>1. ASSUME NEW r \in Requests, Arrive(r) PROVE BodyInv'
    <2>1. PICK n \in BodySizes \cup {0}, declared \in BOOLEAN : Start(r, n, declared)
        BY <1>1 DEF Arrive
    <2> QED BY <2>1, StartInv
<1>2. ASSUME NEW r \in Requests, ReadBody(r) PROVE BodyInv'
    BY <1>2, ReceiveSomeInv, ReceiveDisconnectInv DEF ReadBody
<1>3. ASSUME NEW r \in Requests, Parse(r) PROVE BodyInv'
    BY <1>3, ReplayInv DEF Parse
<1>4. ASSUME NEW r \in Requests, Leave(r) PROVE BodyInv'
    BY <1>4, ForgetInv DEF Leave
<1>5. CASE UNCHANGED bodyVars
    BY <1>5
    DEF bodyVars, BodyInv, BodyType, ReadAfterStart, WholeInApp, PlayedInApp, RejectedTooLarge
<1>6. ASSUME NEW r \in Requests,
             \/ Refuse(r) \/ Queue(r) \/ RunCall(r) \/ RunScrape(r) \/ ReturnCall(r)
             \/ RefreshStep(r) \/ AnswerScrape(r) \/ FailScrape(r)
      PROVE  UNCHANGED bodyVars
    BY <1>6
    DEF Refuse, Queue, RunCall, RunScrape, ReturnCall, RefreshStep, AnswerScrape, FailScrape
<1> QED BY <1>1, <1>2, <1>3, <1>4, <1>5, <1>6 DEF Next, RequestStep, vars

LEMMA BodyInvAlways == Spec => []BodyInv
<1>1. Init => BodyInv
    BY BodyInitInv DEF Init
<1> QED BY <1>1, BodyNextInv, PTL DEF Spec

\* However a client cuts its body into messages, and whenever it disconnects,
\* the application is given whole bodies within the limit only.
THEOREM BodiesWholeOrRefused == Spec => []BodyWholeOrRefused
<1>1. BodyInv => BodyWholeOrRefused
    BY DEF BodyInv, WholeInApp, PlayedInApp, RejectedTooLarge, BodyWholeOrRefused
<1> QED BY <1>1, BodyInvAlways, PTL

-----------------------------------------------------------------------------
(* The counter of requests *)

BeforeAnswer == {"new", "entered", "queued", "running"}

HttpType ==
    /\ http \in [Requests -> BeforeAnswer \cup {"leaving", "left"}]
    /\ statusCode \in [Requests -> Statuses]
    /\ answer \in [Requests -> Statuses \cup {NoAnswer}]
    /\ counted \in [Statuses -> Nat]

\* Until there is an answer the middleware would record a 500, then the answer.
StatusFollowsAnswer ==
    \A r \in Requests :
        /\ http[r] \in BeforeAnswer => statusCode[r] = InitialStatus
        /\ http[r] \in {"leaving", "left"} => statusCode[r] = answer[r]

HttpInv == HttpType /\ StatusFollowsAnswer /\ CountedAsAnswered

\* The calls that have left with a status.
LeftWith(s) == {r \in Calls : http[r] = "left" /\ answer[r] = s}

LEMMA HttpInitInv == Init => HttpInv
<1> SUFFICES ASSUME Init PROVE HttpInv
    OBVIOUS
<1>1. HttpType /\ StatusFollowsAnswer
    BY DEF Init, HttpType, StatusFollowsAnswer, Statuses, InitialStatus, BeforeAnswer
<1>2. ASSUME NEW s \in Statuses PROVE LeftWith(s) = {}
    BY DEF Init, LeftWith, Calls
<1>3. CountedAsAnswered
    BY <1>2, FS_EmptySet DEF Init, CountedAsAnswered, LeftWith
<1> QED BY <1>1, <1>3 DEF HttpInv

\* Before a request leaves nothing is counted.
LEMMA NotLeaving ==
    ASSUME HttpInv, HttpType', StatusFollowsAnswer', UNCHANGED counted,
           \A r \in Requests : (http[r] = "left") = (http'[r] = "left"),
           \A r \in Requests : http[r] = "left" => answer'[r] = answer[r]
    PROVE  HttpInv'
<1>1. \A s \in Statuses : LeftWith(s)' = LeftWith(s)
    BY DEF LeftWith, Calls
<1>2. CountedAsAnswered'
    BY <1>1 DEF HttpInv, CountedAsAnswered, LeftWith
<1> QED BY <1>2 DEF HttpInv

LEMMA RespondInv ==
    ASSUME HttpInv, NEW r \in Requests, NEW status \in Statuses,
           http[r] \in BeforeAnswer, Respond(r, status)
    PROVE  HttpInv'
<1>1. HttpType' /\ StatusFollowsAnswer'
    BY DEF Respond, Goto, HttpInv, HttpType, StatusFollowsAnswer, BeforeAnswer
<1> QED BY <1>1, NotLeaving DEF Respond, Goto, HttpInv, HttpType, BeforeAnswer

LEMMA RaiseErrorInv ==
    ASSUME HttpInv, NEW r \in Requests, http[r] \in BeforeAnswer, RaiseError(r)
    PROVE  HttpInv'
<1>1. HttpType' /\ StatusFollowsAnswer'
    BY DEF RaiseError, Goto, HttpInv, HttpType, StatusFollowsAnswer, BeforeAnswer, Statuses,
           InitialStatus
<1> QED BY <1>1, NotLeaving DEF RaiseError, Goto, HttpInv, HttpType, BeforeAnswer

\* A step towards the answer.
LEMMA GotoInv ==
    ASSUME HttpInv, NEW r \in Requests, http[r] \in BeforeAnswer,
           NEW point \in BeforeAnswer, Goto(r, point),
           UNCHANGED <<statusCode, answer, counted>>
    PROVE  HttpInv'
<1>1. HttpType' /\ StatusFollowsAnswer'
    BY DEF Goto, HttpInv, HttpType, StatusFollowsAnswer, BeforeAnswer
<1> QED BY <1>1, NotLeaving DEF Goto, HttpInv, HttpType, BeforeAnswer

LEMMA LeaveInv == ASSUME HttpInv, NEW r \in Requests, Leave(r) PROVE HttpInv'
<1>1. /\ http[r] = "leaving" /\ http' = [http EXCEPT ![r] = "left"]
      /\ counted' = IF r \in Calls THEN [counted EXCEPT ![statusCode[r]] = @ + 1]
                    ELSE counted
      /\ UNCHANGED <<statusCode, answer>>
      /\ statusCode[r] = answer[r] /\ answer[r] \in Statuses
    BY DEF Leave, Goto, Counted, HttpInv, HttpType, StatusFollowsAnswer
<1>2. HttpType' /\ StatusFollowsAnswer'
    BY <1>1 DEF HttpInv, HttpType, StatusFollowsAnswer, BeforeAnswer
<1>3. ASSUME NEW s \in Statuses
      PROVE  LeftWith(s)' = IF r \in Calls /\ answer[r] = s
                            THEN LeftWith(s) \cup {r} ELSE LeftWith(s)
    BY <1>1 DEF LeftWith, Calls, HttpInv, HttpType
<1>4. ASSUME NEW s \in Statuses PROVE counted'[s] = Cardinality(LeftWith(s)')
    <2>1. IsFiniteSet(LeftWith(s)) /\ r \notin LeftWith(s)
        BY <1>1, FS_Subset, ApiAssumption DEF LeftWith, Calls
    <2>2. counted[s] = Cardinality(LeftWith(s)) /\ counted[s] \in Nat
        BY DEF HttpInv, HttpType, CountedAsAnswered, LeftWith
    <2>3. Cardinality(LeftWith(s) \cup {r}) = Cardinality(LeftWith(s)) + 1
        BY <2>1, FS_AddElement
    <2>4. counted'[s] = IF r \in Calls /\ answer[r] = s THEN counted[s] + 1 ELSE counted[s]
        BY <1>1 DEF HttpInv, HttpType
    <2> QED BY <1>3, <2>2, <2>3, <2>4
<1>5. CountedAsAnswered'
    BY <1>4 DEF CountedAsAnswered, LeftWith
<1> QED BY <1>2, <1>5 DEF HttpInv

\* HttpInv is inductive.
LEMMA HttpNextInv == ASSUME HttpInv, [Next]_vars PROVE HttpInv'
<1> USE DEF BeforeAnswer
<1>1. CASE UNCHANGED apiVars
    BY <1>1 DEF apiVars, HttpInv, HttpType, StatusFollowsAnswer, CountedAsAnswered
<1>2. ASSUME NEW r \in Requests, Arrive(r) \/ Queue(r) \/ RunCall(r) \/ RunScrape(r)
      PROVE  HttpInv'
    BY <1>2, GotoInv DEF Arrive, Queue, RunCall, RunScrape
<1>3. ASSUME NEW r \in Requests, Parse(r) PROVE HttpInv'
    <2>1. {"ok", "400", "413", "500"} = Statuses
        BY DEF Statuses
    <2> QED BY <1>3, <2>1, GotoInv, RespondInv DEF Parse
<1>4. ASSUME NEW r \in Requests, Refuse(r) \/ ReturnCall(r) \/ AnswerScrape(r) \/ FailScrape(r)
      PROVE  HttpInv'
    BY <1>4, RespondInv, RaiseErrorInv
    DEF Refuse, ReturnCall, AnswerScrape, FailScrape, Statuses
<1>5. ASSUME NEW r \in Requests, ReadBody(r) \/ RefreshStep(r) PROVE UNCHANGED apiVars
    BY <1>5 DEF ReadBody, RefreshStep
<1> QED BY <1>1, <1>2, <1>3, <1>4, <1>5, LeaveInv DEF Next, RequestStep, vars

LEMMA HttpInvAlways == Spec => []HttpInv
BY HttpInitInv, HttpNextInv, PTL DEF Spec

\* Every call is counted once, under the status its client was told.
THEOREM CallsCountedAsAnswered == Spec => []CountedAsAnswered
<1>1. HttpInv => CountedAsAnswered
    BY DEF HttpInv
<1> QED BY <1>1, HttpInvAlways, PTL

-----------------------------------------------------------------------------
(* Types of the process *)

\* Within the bound on the clock, the cache holds times up to it.
CacheBounds ==
    /\ clock \in 0 .. Horizon
    /\ last \in 0 .. Horizon \cup {Never}
    /\ gauge \in [Queries -> 0 .. Horizon \cup {Never}]
    /\ observed \in [Scrapes -> 0 .. Horizon]
    /\ result \in [Scrapes -> 0 .. Horizon \cup {NoResult}]
    /\ queryErrors \in 0 .. MaxQueryErrors

LEMMA CacheInitBounds == CacheInit => CacheBounds
BY CacheAssumption DEF CacheInit, CacheBounds, Never, NoResult

LEMMA CacheNextBounds ==
    ASSUME CacheInv, CacheBounds, [CacheNext]_cacheVars PROVE CacheBounds'
<1> USE CacheAssumption
<1>1. CASE Tick
    BY <1>1 DEF Tick, CacheBounds
<1>2. ASSUME NEW s \in Scrapes, Begin(s) \/ CheckFresh(s) \/ Acquire(s) PROVE CacheBounds'
    BY <1>2 DEF Begin, CheckFresh, Acquire, CacheBounds
<1>3. ASSUME NEW s \in Scrapes, Select(s) PROVE CacheBounds'
    BY <1>3 DEF Select, CacheBounds
<1>4. ASSUME NEW s \in Scrapes, SetGauges(s) PROVE CacheBounds'
    BY <1>4 DEF SetGauges, CacheBounds
<1>5. ASSUME NEW s \in Scrapes, FinishRefresh(s) PROVE CacheBounds'
    BY <1>5 DEF FinishRefresh, RefreshTime, CacheBounds
<1>6. ASSUME NEW s \in Scrapes, QueryError(s) \/ Render(s) PROVE CacheBounds'
    BY <1>6 DEF QueryError, Render, End, CacheBounds
<1>7. CASE UNCHANGED cacheVars
    BY <1>7 DEF cacheVars, CacheBounds
<1> QED BY <1>1, <1>2, <1>3, <1>4, <1>5, <1>6, <1>7 DEF CacheNext, ScrapeStep

LEMMA CacheBoundsAlways == CacheSpec => []CacheBounds
<1>1. CacheInit /\ [][CacheNext]_cacheVars /\ []CacheInv => []CacheBounds
    BY CacheInitBounds, CacheNextBounds, PTL
<1> QED BY <1>1, CacheInvAlways, PTL DEF CacheSpec

\* Every variable of the process keeps its type, within the bounds.
THEOREM ProcessTypeCorrect == Spec => []TypeOK
<1>1. BodyInv => \A r \in Requests : received[r] \in 0 .. bodyOf[r]
    <2> SUFFICES ASSUME BodyInv, NEW r \in Requests PROVE received[r] \in 0 .. bodyOf[r]
        OBVIOUS
    <2>1. BodySizes \cup {0} \subseteq Nat
        BY BodyAssumption
    <2>2. bodyOf[r] \in Nat /\ received[r] \in Nat /\ received[r] =< bodyOf[r]
        BY <2>1 DEF BodyInv, BodyType
    <2> QED BY <2>2
<1>2. HttpInv => counted \in [Statuses -> 0 .. Cardinality(Calls)]
    <2> SUFFICES ASSUME HttpInv, NEW s \in Statuses
                 PROVE  counted[s] \in 0 .. Cardinality(Calls)
        BY DEF HttpInv, HttpType
    <2>1. IsFiniteSet(Calls) /\ LeftWith(s) \in SUBSET Calls
        BY FS_Subset, ApiAssumption DEF Calls, LeftWith
    <2>2. Cardinality(LeftWith(s)) =< Cardinality(Calls) /\ Cardinality(Calls) \in Nat
        BY <2>1, FS_Subset, FS_CardinalityType
    <2>3. counted[s] = Cardinality(LeftWith(s)) /\ counted[s] \in Nat
        BY DEF HttpInv, HttpType, CountedAsAnswered, LeftWith
    <2> QED BY <2>2, <2>3
<1>3. BodyInv /\ CacheInv /\ CacheBounds /\ HttpInv => TypeOK
    BY <1>1, <1>2
    DEF BodyInv, BodyType, CacheInv, CacheType, CachePoints, CacheBounds, HttpInv, HttpType,
        BeforeAnswer, TypeOK
<1> QED
    BY <1>3, BodyInvAlways, ProcessRunsCache, CacheInvAlways, CacheBoundsAlways,
       HttpInvAlways, PTL
=============================================================================
