----------------------------- MODULE ApiProcess -----------------------------
(***************************************************************************)
(* The API process: every request passes the metrics middleware, then the  *)
(* body limit, and is then run by one of the threads of the pool that      *)
(* synchronous endpoints share.  GET /metrics is such an endpoint: its     *)
(* threads meet in the cache of the pipeline gauges.  The other endpoints  *)
(* are calls; what they do to the database is in the other modules.        *)
(***************************************************************************)
EXTENDS RequestBodyLimit, PipelineMetricsCache, FiniteSets

CONSTANT PoolSize    \* threads for synchronous endpoints

ASSUME ApiAssumption ==
    /\ IsFiniteSet(Requests)
    /\ Scrapes \subseteq Requests
    /\ PoolSize \in Nat \ {0}

VARIABLES
    http,         \* request -> control point
    statusCode,   \* what the metrics middleware will record
    answer,       \* what the client is told
    counted       \* status -> notification_http_requests_total

apiVars == <<http, statusCode, answer, counted>>
vars == <<bodyVars, cacheVars, apiVars>>

Calls == Requests \ Scrapes
Statuses == {"ok", "400", "413", "500"}
NoAnswer == "none"

\* Mutation of InitialStatus: success is assumed.
InitialStatusOk == "ok"

InitialStatus == "500"

Init ==
    /\ BodyInit
    /\ CacheInit
    /\ http = [r \in Requests |-> "new"]
    /\ statusCode = [r \in Requests |-> InitialStatus]
    /\ answer = [r \in Requests |-> NoAnswer]
    /\ counted = [s \in Statuses |-> 0]

-----------------------------------------------------------------------------

Goto(r, point) == http' = [http EXCEPT ![r] = point]

\* http.response.start passes the metrics middleware on its way out.
Respond(r, status) ==
    /\ Goto(r, "leaving")
    /\ statusCode' = [statusCode EXCEPT ![r] = status]
    /\ answer' = [answer EXCEPT ![r] = status]
    /\ UNCHANGED counted

\* The endpoint raises: the server answers 500 outside the middleware.
RaiseError(r) ==
    /\ Goto(r, "leaving")
    /\ answer' = [answer EXCEPT ![r] = "500"]
    /\ UNCHANGED <<statusCode, counted>>

\* GET /metrics has no body.
Arrive(r) ==
    /\ http[r] = "new"
    /\ \E n \in IF r \in Scrapes THEN {0} ELSE BodySizes, declared \in BOOLEAN :
            Start(r, n, declared)
    /\ Goto(r, "entered")
    /\ UNCHANGED <<cacheVars, statusCode, answer, counted>>

ReadBody(r) ==
    /\ http[r] = "entered"
    /\ ReceiveSome(r) \/ ReceiveDisconnect(r)
    /\ UNCHANGED <<cacheVars, apiVars>>

Refuse(r) ==
    /\ http[r] = "entered"
    /\ stage[r] = "rejected"
    /\ Respond(r, "413")
    /\ UNCHANGED <<bodyVars, cacheVars>>

\* A call parses its body before it is given to a thread; a scrape has none to
\* parse and is run even for a client that is gone.
Parse(r) ==
    /\ http[r] = "entered"
    /\ r \in Calls
    /\ Replay(r)
    /\ IF given'[r] = "body"
       THEN Goto(r, "queued") /\ UNCHANGED <<statusCode, answer, counted>>
       ELSE Respond(r, "400")
    /\ UNCHANGED cacheVars

Queue(r) ==
    /\ http[r] = "entered"
    /\ r \in Scrapes
    /\ stage[r] = "app"
    /\ Goto(r, "queued")
    /\ UNCHANGED <<bodyVars, cacheVars, statusCode, answer, counted>>

Busy == {r \in Requests : http[r] = "running"}

RunCall(r) ==
    /\ http[r] = "queued"
    /\ r \in Calls
    /\ Cardinality(Busy) < PoolSize
    /\ Goto(r, "running")
    /\ UNCHANGED <<bodyVars, cacheVars, statusCode, answer, counted>>

RunScrape(r) ==
    /\ http[r] = "queued"
    /\ r \in Scrapes
    /\ Cardinality(Busy) < PoolSize
    /\ Begin(r)
    /\ Goto(r, "running")
    /\ UNCHANGED <<bodyVars, statusCode, answer, counted>>

ReturnCall(r) ==
    /\ http[r] = "running"
    /\ r \in Calls
    /\ Respond(r, "ok") \/ RaiseError(r)
    /\ UNCHANGED <<bodyVars, cacheVars>>

RefreshStep(r) ==
    /\ r \in Scrapes
    /\ CheckFresh(r) \/ Acquire(r) \/ Select(r) \/ SetGauges(r) \/ FinishRefresh(r)
    /\ UNCHANGED <<bodyVars, apiVars>>

AnswerScrape(r) ==
    /\ http[r] = "running"
    /\ r \in Scrapes
    /\ Render(r)
    /\ Respond(r, "ok")
    /\ UNCHANGED bodyVars

FailScrape(r) ==
    /\ http[r] = "running"
    /\ r \in Scrapes
    /\ QueryError(r)
    /\ RaiseError(r)
    /\ UNCHANGED bodyVars

\* Whether the middleware counts the request: not GET /metrics.
Counted(r) == r \in Calls

\* The finally clause of the metrics middleware.
Leave(r) ==
    /\ http[r] = "leaving"
    /\ Goto(r, "left")
    /\ counted' = IF Counted(r) THEN [counted EXCEPT ![statusCode[r]] = @ + 1]
                  ELSE counted
    /\ Forget(r)
    /\ UNCHANGED <<cacheVars, statusCode, answer>>

-----------------------------------------------------------------------------

\* The steps the process takes by itself.
RequestStep(r) ==
    \/ Arrive(r)
    \/ Refuse(r)
    \/ Parse(r)
    \/ Queue(r)
    \/ RunCall(r)
    \/ RunScrape(r)
    \/ ReturnCall(r)
    \/ RefreshStep(r)
    \/ AnswerScrape(r)
    \/ Leave(r)

Next ==
    \/ Tick /\ UNCHANGED <<bodyVars, apiVars>>
    \/ \E r \in Requests : RequestStep(r) \/ ReadBody(r) \/ FailScrape(r)

Spec == Init /\ [][Next]_vars

-----------------------------------------------------------------------------
(* Properties *)

TypeOK ==
    /\ bodyOf \in [Requests -> BodySizes \cup {0}]
    /\ stage \in [Requests -> {"new", "reading", "app", "rejected", "over"}]
    /\ \A r \in Requests : received[r] \in 0 .. bodyOf[r]
    /\ gone \in [Requests -> BOOLEAN]
    /\ given \in [Requests -> {"nothing", "body", "disconnect"}]
    /\ clock \in 0 .. Horizon
    /\ last \in 0 .. Horizon \cup {Never}
    /\ gauge \in [Queries -> 0 .. Horizon \cup {Never}]
    /\ lock \in Scrapes \cup {NoScrape}
    /\ scrape \in [Scrapes -> {"new", "checking", "waiting", "querying", "rendering",
                               "rendered", "failed"}]
    /\ observed \in [Scrapes -> 0 .. Horizon]
    /\ query \in [Scrapes -> 0 .. QueryCount]
    /\ result \in [Scrapes -> 0 .. Horizon \cup {NoResult}]
    /\ queryErrors \in 0 .. MaxQueryErrors
    /\ http \in [Requests -> {"new", "entered", "queued", "running", "leaving", "left"}]
    /\ statusCode \in [Requests -> Statuses]
    /\ answer \in [Requests -> Statuses \cup {NoAnswer}]
    /\ counted \in [Statuses -> 0 .. Cardinality(Calls)]

\* Every call is counted exactly once, under the status its client was told,
\* also when it is refused, abandoned or fails; scrapes never are.
CountedAsAnswered ==
    \A s \in Statuses :
        counted[s] = Cardinality({r \in Calls : http[r] = "left" /\ answer[r] = s})

-----------------------------------------------------------------------------
(* Fairness: the event loop and the threads run; a client need neither end   *)
(* its body nor disconnect.                                                  *)

Fairness == \A r \in Requests : WF_vars(RequestStep(r))

FairSpec == Spec /\ Fairness

\* A request whose body was read or refused is answered, although scrapes hold
\* threads of the pool while they wait for a refresh, and refreshes fail.
EventuallyAnswered ==
    \A r \in Requests : stage[r] \in {"app", "rejected"} ~> http[r] = "left"
=============================================================================
