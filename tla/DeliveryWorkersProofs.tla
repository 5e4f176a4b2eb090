----------------------- MODULE DeliveryWorkersProofs -----------------------
(***************************************************************************)
(* Proofs about DeliveryWorkers, for every set of rows, workers, callers   *)
(* and tokens and every value of the bounds.                               *)
(***************************************************************************)
EXTENDS DeliveryWorkers, TLAPS

\* The type invariant is inductive with the fact that a row that is not
\* settled has an attempt left.
AttemptsLeft ==
    \A d \in Deliveries : status[d] \in Settled \/ attemptCount[d] < MaxAttempts
TypeInv == TypeOK /\ AttemptsLeft

\* Rows start pending with no attempt used.
LEMMA InitTypeInv == Init => TypeInv
BY BoundAssumption, NullAssumption
DEF Init, TypeInv, TypeOK, AttemptsLeft, Time, Settled, Waiting, Outcomes, MaxSends, NoLease

\* A stored deadline is a clock value.
LEMMA CapTime == ASSUME NEW t \in Nat PROVE Cap(t) \in Time
BY BoundAssumption DEF Cap, Time

\* A claim takes only rows with an attempt left and uses none.
LEMMA ClaimTypeInv ==
    ASSUME TypeInv, NEW w \in Workers, Claim(w) PROVE TypeInv'
<1>1. PICK batch \in SUBSET Claimable(w) : ClaimRows(w, batch)
    BY DEF Claim
<1>2. \A d \in batch : FreshToken(d) \in Tokens
    BY <1>1 DEF ClaimRows, FreshToken
<1>3. Cap(now[w] + LeaseDuration) \in Time
    BY CapTime, BoundAssumption DEF TypeInv, TypeOK, Time
<1>4. batch \subseteq Deliveries
    BY DEF Claimable
<1>5. \A d \in batch : status[d] \notin Settled
    BY <1>1 DEF Claimable, Due, LeaseExpired, Settled, Waiting
<1>6. TypeOK'
    BY <1>1, <1>2, <1>3, <1>4 DEF ClaimRows, TypeInv, TypeOK, callerVars, LeaseOver
<1>7. AttemptsLeft'
    BY <1>1, <1>4, <1>5 DEF ClaimRows, TypeInv, TypeOK, AttemptsLeft, Settled
<1> QED BY <1>6, <1>7 DEF TypeInv

\* A report uses one attempt, and settles the row with the last.
LEMMA FinalizeTypeInv ==
    ASSUME TypeInv, NEW w \in Workers, NEW d \in Deliveries, Finalize(w, d)
    PROVE  TypeInv'
<1>1. CASE ~HoldsClaim(w, d)
    BY <1>1 DEF Finalize, TypeInv, TypeOK, AttemptsLeft, Settled, Outcomes, callerVars, histVars
<1>2. CASE HoldsClaim(w, d)
    <2> DEFINE n == attemptCount[d] + 1
               final == FinalStatus(outcome[w], n)
    <2>0. attemptCount[d] \in 0 .. MaxAttempts /\ now[w] \in Time
        BY DEF TypeInv, TypeOK
    <2>00. attemptCount[d] < MaxAttempts
        BY <1>2 DEF HoldsClaim, TypeInv, AttemptsLeft, Settled
    <2>1. n \in 1 .. MaxAttempts
        BY <2>0, <2>00, BoundAssumption
    <2>2. final \in Outcomes
        BY DEF FinalStatus, Outcomes, TypeInv, TypeOK
    <2>3. final \in Settled \/ n < MaxAttempts
        BY <2>1, BoundAssumption DEF FinalStatus, Settled, TypeInv, TypeOK, Outcomes
    <2>4. Cap(now[w] + RetryDelay) \in Time
        BY <2>0, CapTime, BoundAssumption DEF Time
    <2>5. RecordOutcome(w, d)
        BY <1>2 DEF Finalize
    <2> HIDE DEF final
    <2>6. /\ attemptCount' = [attemptCount EXCEPT ![d] = n]
          /\ status' = [status EXCEPT ![d] = final]
          /\ nextAt' = [nextAt EXCEPT ![d] =
                            IF final = "failed_retryable"
                            THEN Cap(now[w] + RetryDelay) ELSE now[w]]
          /\ lease' = [lease EXCEPT ![d] = NoLease]
          /\ token' = [token EXCEPT ![d] = NoToken]
          /\ attempts' = [attempts EXCEPT ![d] =
                            attempts[d] \cup {[number |-> n, status |-> final]}]
        BY <2>5 DEF RecordOutcome, final, TypeInv, TypeOK
    <2> HIDE DEF n
    <2>7. [number |-> n, status |-> final] \in [number : 1 .. MaxAttempts, status : Outcomes]
        BY <2>1, <2>2
    <2>8. /\ status' \in [Deliveries -> Waiting \cup Settled \cup {"processing"}]
          /\ attemptCount' \in [Deliveries -> 0 .. MaxAttempts]
          /\ nextAt' \in [Deliveries -> Time]
          /\ lease' \in [Deliveries -> Time \cup {NoLease}]
          /\ token' \in [Deliveries -> Tokens \cup {NoToken}]
        BY <2>1, <2>2, <2>4, <2>6, BoundAssumption
        DEF TypeInv, TypeOK, Waiting, Settled, Outcomes
    <2>9. attempts' \in [Deliveries -> SUBSET [number : 1 .. MaxAttempts, status : Outcomes]]
        BY <2>6, <2>7 DEF TypeInv, TypeOK
    <2>10. TypeOK'
        BY <2>8, <2>9 DEF Finalize, TypeInv, TypeOK, Outcomes, callerVars, histVars
    <2>11. AttemptsLeft'
        BY <2>3, <2>6 DEF TypeInv, TypeOK, AttemptsLeft
    <2> QED BY <2>10, <2>11 DEF TypeInv
<1> QED BY <1>1, <1>2

\* Counting up one entry of a function keeps its type.
LEMMA CountUpType ==
    ASSUME NEW S, NEW f \in [S -> Nat], NEW k \in S
    PROVE  [f EXCEPT ![k] = @ + 1] \in [S -> Nat]
OBVIOUS

\* From zero the entry becomes one.
LEMMA CountUpFromZero ==
    ASSUME NEW S, NEW f \in [S -> Nat], NEW k \in S, f[k] = 0
    PROVE  [f EXCEPT ![k] = @ + 1][k] = 1
OBVIOUS

\* A retry marks rows that failed, which have an attempt left.
LEMMA RetryCommitTypeInv ==
    ASSUME TypeInv, NEW c \in Callers, RetryCommit(c) PROVE TypeInv'
<1>1. \A d \in Deliveries :
        [replays[d] EXCEPT ![attemptCount[d]] = @ + 1] \in [0 .. MaxAttempts -> Nat]
    <2> TAKE d \in Deliveries
    <2>1. replays[d] \in [0 .. MaxAttempts -> Nat] /\ attemptCount[d] \in 0 .. MaxAttempts
        BY DEF TypeInv, TypeOK
    <2> QED BY <2>1, CountUpType
<1>2. replays' \in [Deliveries -> [0 .. MaxAttempts -> Nat]]
    <2>1. \A d \in Deliveries : replays[d] \in [0 .. MaxAttempts -> Nat]
        BY DEF TypeInv, TypeOK
    <2>2. replays' = [d \in Deliveries |->
                        IF d \in Marked(c)
                        THEN [replays[d] EXCEPT ![attemptCount[d]] = @ + 1]
                        ELSE replays[d]]
        BY DEF RetryCommit
    <2> QED BY <1>1, <2>1, <2>2
<1>3. TypeOK'
    <2>1. rids' \in [Callers -> SUBSET Deliveries] /\ rat' \in [Callers -> Time]
        BY BoundAssumption DEF RetryCommit, TypeInv, TypeOK, Time
    <2>2. /\ nextAt' \in [Deliveries -> Time]
          /\ status' \in [Deliveries -> Waiting \cup Settled \cup {"processing"}]
        BY DEF RetryCommit, TypeInv, TypeOK, Waiting
    <2>3. /\ lease' \in [Deliveries -> Time \cup {NoLease}]
          /\ token' \in [Deliveries -> Tokens \cup {NoToken}]
        BY DEF RetryCommit, TypeInv, TypeOK
    <2> QED
        BY <1>2, <2>1, <2>2, <2>3 DEF RetryCommit, TypeInv, TypeOK, workerVars, histVars
<1>4. AttemptsLeft'
    BY DEF RetryCommit, Marked, Retryable, TypeInv, TypeOK, AttemptsLeft, Settled
<1> QED BY <1>3, <1>4 DEF TypeInv

\* TypeInv is inductive.
LEMMA NextTypeInv == TypeInv /\ [Next]_vars => TypeInv'
<1> SUFFICES ASSUME TypeInv, [Next]_vars PROVE TypeInv'
    OBVIOUS
<1>1. CASE Tick
    BY <1>1, BoundAssumption
    DEF Tick, TypeInv, TypeOK, AttemptsLeft, rowVars, workerVars, callerVars, histVars, Time
<1>2. ASSUME NEW w \in Workers, Begin(w) PROVE TypeInv'
    BY <1>2 DEF Begin, TypeInv, TypeOK, AttemptsLeft, rowVars, callerVars, histVars
<1>3. ASSUME NEW w \in Workers, Claim(w) PROVE TypeInv'
    BY <1>3, ClaimTypeInv
<1>4. ASSUME NEW w \in Workers, NEW d \in Deliveries, Load(w, d) PROVE TypeInv'
    <2>1. hand' \in [Workers -> [Deliveries -> Tokens \cup {NoToken}]]
        <3>1. CASE UNCHANGED hand
            BY <3>1 DEF TypeInv, TypeOK
        <3>2. CASE hand' = [hand EXCEPT ![w][d] = NoToken]
            BY <3>2 DEF TypeInv, TypeOK
        <3> QED BY <1>4, <3>1, <3>2 DEF Load
    <2>2. cur' \in [Workers -> Deliveries \cup {NoDelivery}]
        <3>1. cur \in [Workers -> Deliveries \cup {NoDelivery}]
            BY DEF TypeInv, TypeOK
        <3>2. cur' = cur \/ cur' = [cur EXCEPT ![w] = d]
            BY <1>4 DEF Load
        <3> QED BY <3>1, <3>2
    <2>3. pc' \in [Workers -> {"idle", "claiming", "batch", "sending", "finalizing"}]
        <3>1. pc \in [Workers -> {"idle", "claiming", "batch", "sending", "finalizing"}]
            BY DEF TypeInv, TypeOK
        <3>2. pc' = pc \/ pc' = [pc EXCEPT ![w] = "sending"]
            BY <1>4 DEF Load
        <3> QED BY <3>1, <3>2
    <2> QED
        BY <1>4, <2>1, <2>2, <2>3
        DEF Load, TypeInv, TypeOK, AttemptsLeft, rowVars, callerVars, histVars
<1>5. ASSUME NEW w \in Workers, NEW d \in Deliveries, Deliver(w, d) PROVE TypeInv'
    <2>1. PICK r \in AdapterResults(ChannelOf[d]) :
            /\ outcome' = [outcome EXCEPT ![w] = r.status]
            /\ sends' = [sends EXCEPT ![d] =
                            IF r.effect /\ @ < MaxSends THEN @ + 1 ELSE @]
        BY <1>5 DEF Deliver
    <2>2. r.status \in Outcomes
        BY DEF AdapterResults, Outcomes
    <2>3. outcome' \in [Workers -> Outcomes] /\ sends' \in [Deliveries -> 0 .. MaxSends]
        BY <2>1, <2>2, BoundAssumption DEF TypeInv, TypeOK, MaxSends
    <2> QED
        BY <1>5, <2>3 DEF Deliver, TypeInv, TypeOK, AttemptsLeft, rowVars, callerVars
<1>6. ASSUME NEW w \in Workers, NEW d \in Deliveries, Finalize(w, d) PROVE TypeInv'
    BY <1>6, FinalizeTypeInv
<1>7. ASSUME NEW w \in Workers, EndBatch(w) PROVE TypeInv'
    BY <1>7, BoundAssumption
    DEF EndBatch, TypeInv, TypeOK, AttemptsLeft, rowVars, callerVars, histVars, Time
<1>8. ASSUME NEW w \in Workers, Abort(w) PROVE TypeInv'
    BY <1>8, BoundAssumption
    DEF Abort, TypeInv, TypeOK, AttemptsLeft, rowVars, callerVars, histVars, Time, Outcomes
<1>9. ASSUME NEW c \in Callers, NEW ids \in SUBSET Deliveries, RetrySelect(c, ids)
      PROVE  TypeInv'
    BY <1>9 DEF RetrySelect, TypeInv, TypeOK, AttemptsLeft, rowVars, workerVars, histVars
<1>10. ASSUME NEW c \in Callers, ServiceRetry(c) PROVE TypeInv'
    BY <1>9, <1>10 DEF ServiceRetry, Retryable
<1>11. ASSUME NEW c \in Callers, NEW v \in Deliveries, UserRetry(c, v) PROVE TypeInv'
    BY <1>9, <1>11 DEF UserRetry, Retryable
<1>12. ASSUME NEW c \in Callers, RetryCommit(c) PROVE TypeInv'
    BY <1>12, RetryCommitTypeInv
<1>13. ASSUME NEW c \in Callers, RetryAbort(c) PROVE TypeInv'
    <2>1. rids' \in [Callers -> SUBSET Deliveries] /\ rat' \in [Callers -> Time]
        BY <1>13, BoundAssumption DEF RetryAbort, TypeInv, TypeOK, Time
    <2> QED
        BY <1>13, <2>1
        DEF RetryAbort, TypeInv, TypeOK, AttemptsLeft, rowVars, workerVars, histVars
<1>14. CASE UNCHANGED vars
    BY <1>14 DEF vars, TypeInv, TypeOK, AttemptsLeft, rowVars, workerVars, callerVars, histVars
<1> QED
    BY <1>1, <1>2, <1>3, <1>4, <1>5, <1>6, <1>7, <1>8, <1>10, <1>11, <1>12, <1>13, <1>14
    DEF Next, WorkerStep, CallerStep

\* Every reachable state is well typed; in particular the database's bounds on
\* attempt_count are never hit.
THEOREM TypeCorrect == Spec => []TypeOK
<1>1. TypeInv => TypeOK
    BY DEF TypeInv
<1> QED BY <1>1, InitTypeInv, NextTypeInv, PTL DEF Spec

-----------------------------------------------------------------------------
(* Action properties that follow from the type of the state alone *)

\* No step touches a row that is delivered or terminally failed: a claim and a
\* mark take other rows, and a report finds no claim.
LEMMA NextSettledUnchanged ==
    ASSUME TypeOK, [Next]_vars, NEW d \in Deliveries PROVE SettledRowUnchanged(d)
<1> SUFFICES ASSUME status[d] \in Settled
             PROVE  UNCHANGED <<status[d], attemptCount[d], nextAt[d], token[d],
                                attempts[d], replays[d]>>
    BY DEF SettledRowUnchanged
<1>1. ASSUME NEW w \in Workers, Claim(w)
      PROVE  UNCHANGED <<status[d], attemptCount[d], nextAt[d], token[d],
                         attempts[d], replays[d]>>
    <2>1. PICK batch \in SUBSET Claimable(w) : ClaimRows(w, batch)
        BY <1>1 DEF Claim
    <2>2. d \notin batch
        BY DEF Claimable, Due, LeaseExpired, Settled, Waiting
    <2> QED BY <2>1, <2>2 DEF ClaimRows
<1>2. ASSUME NEW w \in Workers, NEW e \in Deliveries, Finalize(w, e)
      PROVE  UNCHANGED <<status[d], attemptCount[d], nextAt[d], token[d],
                         attempts[d], replays[d]>>
    <2>1. CASE HoldsClaim(w, e)
        <3>1. d # e
            BY <2>1 DEF HoldsClaim, Settled
        <3>2. RecordOutcome(w, e) /\ UNCHANGED replays
            BY <1>2, <2>1 DEF Finalize
        <3> QED BY <3>1, <3>2 DEF RecordOutcome, TypeOK
    <2>2. CASE ~HoldsClaim(w, e)
        BY <1>2, <2>2 DEF Finalize
    <2> QED BY <2>1, <2>2
<1>3. ASSUME NEW c \in Callers, RetryCommit(c)
      PROVE  UNCHANGED <<status[d], attemptCount[d], nextAt[d], token[d],
                         attempts[d], replays[d]>>
    <2>1. d \notin Marked(c)
        BY DEF Marked, Retryable, Settled
    <2> QED BY <1>3, <2>1 DEF RetryCommit
<1>4. ASSUME UNCHANGED rowVars
      PROVE  UNCHANGED <<status[d], attemptCount[d], nextAt[d], token[d],
                         attempts[d], replays[d]>>
    BY <1>4 DEF rowVars
<1> QED
    BY <1>1, <1>2, <1>3, <1>4
    DEF Next, WorkerStep, CallerStep, Tick, Begin, Load, Deliver, EndBatch, Abort,
        ServiceRetry, UserRetry, RetrySelect, RetryAbort, vars

\* A delivered or terminally failed row is never changed again.
THEOREM SettledRowsStable == Spec => SettledStable
<1>1. TypeOK /\ [Next]_vars => \A d \in Deliveries : SettledRowUnchanged(d)
    BY NextSettledUnchanged
<1> QED BY <1>1, TypeCorrect, PTL DEF Spec, SettledStable

\* A step by which worker w drops the row it works on is its report or its
\* crash; the report finds the row only under the token w holds.
LEMMA NextStaleReport ==
    ASSUME TypeOK, [Next]_vars, NEW w \in Workers, NEW d \in Deliveries
    PROVE  StaleReportIgnored(w, d)
<1> DEFINE RowSame == UNCHANGED <<status[d], attemptCount[d], nextAt[d], lease[d],
                                  token[d], attempts[d]>>
<1> SUFFICES ASSUME cur[w] = d, cur'[w] = NoDelivery, hand[w][d] # token[d]
             PROVE  RowSame
    BY DEF StaleReportIgnored
<1>1. cur' # cur
    BY NullAssumption
<1>2. ASSUME NEW u \in Workers, NEW e \in Deliveries, Load(u, e) PROVE FALSE
    <2>1. cur' = [cur EXCEPT ![u] = e]
        BY <1>1, <1>2 DEF Load
    <2>2. cur'[w] \in {d, e}
        BY <2>1 DEF TypeOK
    <2> QED BY <2>2, NullAssumption
<1>3. ASSUME NEW u \in Workers, NEW e \in Deliveries, Finalize(u, e) PROVE RowSame
    <2>1. cur' = [cur EXCEPT ![u] = NoDelivery] /\ cur[u] = e
        BY <1>3 DEF Finalize
    <2>2. u = w /\ e = d
        BY <2>1, NullAssumption DEF TypeOK
    <2>3. ~HoldsClaim(w, d)
        BY DEF HoldsClaim
    <2> QED BY <1>3, <2>2, <2>3 DEF Finalize
<1>4. ASSUME UNCHANGED rowVars PROVE RowSame
    BY <1>4 DEF rowVars
<1>5. ASSUME NEW u \in Workers, Claim(u) PROVE FALSE
    BY <1>1, <1>5 DEF Claim, ClaimRows
<1>6. ASSUME NEW c \in Callers, RetryCommit(c) PROVE FALSE
    BY <1>1, <1>6 DEF RetryCommit, workerVars
<1> HIDE DEF RowSame
<1> QED
    BY <1>2, <1>3, <1>4, <1>5, <1>6
    DEF Next, WorkerStep, CallerStep, Tick, Begin, Deliver, EndBatch, Abort,
        ServiceRetry, UserRetry, RetrySelect, RetryAbort, vars

\* A worker that reports on a claim that was taken over changes nothing.
THEOREM StaleReportsIgnored == Spec => StaleClaimHarmless
<1>1. TypeOK /\ [Next]_vars =>
        \A w \in Workers, d \in Deliveries : StaleReportIgnored(w, d)
    BY NextStaleReport
<1> QED BY <1>1, TypeCorrect, PTL DEF Spec, StaleClaimHarmless

-----------------------------------------------------------------------------
(* The claim of a row *)

\* A row is claimed under a token and a lease or under neither, and no two
\* workers hold the row's token: the two halves of ClaimExclusive.
Fenced ==
    \A d \in Deliveries :
        /\ status[d] = "processing" <=> token[d] # NoToken
        /\ status[d] = "processing" <=> lease[d] # NoLease
OneHolder ==
    \A d \in Deliveries, w, v \in Workers :
        token[d] # NoToken /\ hand[w][d] = token[d] /\ hand[v][d] = token[d] => w = v

\* The two halves are ClaimExclusive.
LEMMA ClaimExclusiveParts == ClaimExclusive <=> Fenced /\ OneHolder
BY DEF ClaimExclusive, Fenced, OneHolder

\* A claim stores for each row it takes a token that no worker holds.
LEMMA FreshTokenIsFresh ==
    ASSUME NEW d \in Deliveries, Tokens \ TokensInUse(d) # {}
    PROVE  /\ FreshToken(d) # NoToken
           /\ \A w \in Workers : FreshToken(d) # hand[w][d]
<1>1. FreshToken(d) \in Tokens /\ FreshToken(d) \notin TokensInUse(d)
    BY DEF FreshToken
<1> QED BY <1>1, NullAssumption DEF TokensInUse

\* The claim transaction.
LEMMA ClaimKeepsExclusive ==
    ASSUME TypeOK, Fenced, OneHolder, NEW u \in Workers, Claim(u)
    PROVE  Fenced' /\ OneHolder'
<1>1. PICK batch \in SUBSET Claimable(u) : ClaimRows(u, batch)
    BY DEF Claim
<1>2. batch \subseteq Deliveries
    BY DEF Claimable
<1>3. \A d \in batch : /\ FreshToken(d) # NoToken
                       /\ \A w \in Workers : FreshToken(d) # hand[w][d]
    BY <1>1, <1>2, FreshTokenIsFresh DEF ClaimRows
<1>4. Cap(now[u] + LeaseDuration) # NoLease
    <2>1. now[u] + LeaseDuration \in Nat
        BY BoundAssumption DEF TypeOK, Time
    <2> QED BY <2>1, CapTime DEF Time, NoLease
<1>5. Fenced'
    BY <1>1, <1>3, <1>4 DEF ClaimRows, Fenced
<1>6. hand' = [hand EXCEPT ![u] =
                    [d \in Deliveries |-> IF d \in batch THEN FreshToken(d) ELSE NoToken]]
    BY <1>1 DEF ClaimRows
<1>7. ASSUME NEW d \in Deliveries, NEW w \in Workers, NEW v \in Workers,
             token'[d] # NoToken, hand'[w][d] = token'[d], hand'[v][d] = token'[d]
      PROVE  w = v
    <2>1. \A x \in Workers : x # u => hand'[x][d] = hand[x][d]
        BY <1>6 DEF TypeOK
    <2>2. hand'[u][d] = IF d \in batch THEN FreshToken(d) ELSE NoToken
        BY <1>6 DEF TypeOK
    <2>3. CASE d \in batch
        <3>1. token'[d] = FreshToken(d)
            BY <1>1, <2>3 DEF ClaimRows
        <3> QED BY <1>3, <1>7, <2>1, <2>3, <3>1
    <2>4. CASE d \notin batch
        <3>1. token'[d] = token[d]
            BY <1>1, <2>4 DEF ClaimRows
        <3> QED BY <1>7, <2>1, <2>2, <2>4, <3>1 DEF OneHolder
    <2> QED BY <2>3, <2>4
<1> QED BY <1>5, <1>7 DEF OneHolder

\* A step that leaves the tokens of the rows alone and takes claims out of
\* hands only.
LEMMA DropKeepsOneHolder ==
    ASSUME OneHolder,
           \A d \in Deliveries : token'[d] \in {token[d], NoToken},
           \A w \in Workers, d \in Deliveries : hand'[w][d] \in {hand[w][d], NoToken}
    PROVE  OneHolder'
BY DEF OneHolder

\* The report of a worker.
LEMMA FinalizeKeepsExclusive ==
    ASSUME TypeOK, Fenced, OneHolder, NEW u \in Workers, NEW e \in Deliveries, Finalize(u, e)
    PROVE  Fenced' /\ OneHolder'
<1>1. \A w \in Workers, d \in Deliveries : hand'[w][d] \in {hand[w][d], NoToken}
    BY DEF Finalize, TypeOK
<1>2. CASE HoldsClaim(u, e)
    <2> DEFINE final == FinalStatus(outcome[u], attemptCount[e] + 1)
    <2>1. final # "processing"
        BY DEF FinalStatus, TypeOK, Outcomes
    <2>2. /\ status' = [status EXCEPT ![e] = final]
          /\ lease' = [lease EXCEPT ![e] = NoLease]
          /\ token' = [token EXCEPT ![e] = NoToken]
        BY <1>2 DEF Finalize, RecordOutcome
    <2> HIDE DEF final
    <2>3. Fenced'
        BY <2>1, <2>2 DEF Fenced, TypeOK
    <2>4. \A d \in Deliveries : token'[d] \in {token[d], NoToken}
        BY <2>2 DEF TypeOK
    <2> QED BY <1>1, <2>3, <2>4, DropKeepsOneHolder
<1>3. CASE ~HoldsClaim(u, e)
    <2>1. UNCHANGED <<status, lease, token>>
        BY <1>3 DEF Finalize
    <2> QED BY <1>1, <2>1, DropKeepsOneHolder DEF Fenced
<1> QED BY <1>2, <1>3

\* Every other step leaves the rows alone or, a retry, ends no claim.
LEMMA NextKeepsExclusive ==
    ASSUME TypeOK, Fenced, OneHolder, [Next]_vars PROVE Fenced' /\ OneHolder'
<1>1. ASSUME NEW c \in Callers, RetryCommit(c) PROVE Fenced' /\ OneHolder'
    <2>1. Fenced'
        BY <1>1 DEF RetryCommit, Fenced
    <2>2. \A d \in Deliveries : token'[d] \in {token[d], NoToken}
        BY <1>1 DEF RetryCommit
    <2>3. hand' = hand
        BY <1>1 DEF RetryCommit, workerVars
    <2> QED BY <2>1, <2>2, <2>3, DropKeepsOneHolder
<1>2. ASSUME UNCHANGED rowVars,
             \A w \in Workers, d \in Deliveries : hand'[w][d] \in {hand[w][d], NoToken}
      PROVE  Fenced' /\ OneHolder'
    <2>1. UNCHANGED <<status, lease, token>>
        BY <1>2 DEF rowVars
    <2> QED BY <1>2, <2>1, DropKeepsOneHolder DEF Fenced
<1>3. ASSUME UNCHANGED rowVars, UNCHANGED hand PROVE Fenced' /\ OneHolder'
    BY <1>2, <1>3
<1>4. ASSUME NEW u \in Workers, NEW e \in Deliveries, Load(u, e) PROVE Fenced' /\ OneHolder'
    <2>1. hand' = hand \/ hand' = [hand EXCEPT ![u][e] = NoToken]
        BY <1>4 DEF Load
    <2>2. hand \in [Workers -> [Deliveries -> Tokens \cup {NoToken}]]
        BY DEF TypeOK
    <2>3. \A w \in Workers, d \in Deliveries : hand'[w][d] \in {hand[w][d], NoToken}
        BY <2>1, <2>2
    <2> QED BY <1>2, <1>4, <2>3 DEF Load
<1>5. ASSUME NEW u \in Workers, Abort(u) PROVE Fenced' /\ OneHolder'
    <2>1. \A w \in Workers, d \in Deliveries : hand'[w][d] \in {hand[w][d], NoToken}
        BY <1>5 DEF Abort, TypeOK
    <2> QED BY <1>2, <1>5, <2>1 DEF Abort
<1> QED
    BY <1>1, <1>3, <1>4, <1>5, ClaimKeepsExclusive, FinalizeKeepsExclusive
    DEF Next, WorkerStep, CallerStep, Tick, Begin, Deliver, EndBatch,
        ServiceRetry, UserRetry, RetrySelect, RetryAbort, vars, workerVars

\* The token fences a row: a claimed row has one, and one worker at most holds it.
THEOREM ClaimsAreExclusive == Spec => []ClaimExclusive
<1>1. Init => Fenced /\ OneHolder
    BY NullAssumption DEF Init, Fenced, OneHolder, NoLease
<1>2. TypeOK /\ Fenced /\ OneHolder /\ [Next]_vars => Fenced' /\ OneHolder'
    BY NextKeepsExclusive
<1> QED BY <1>1, <1>2, TypeCorrect, ClaimExclusiveParts, PTL DEF Spec

-----------------------------------------------------------------------------
(* What a step may do to one row *)

\* A claim takes a row that is not settled; a report records one attempt of a
\* claimed row; a retry marks a row that failed and names it once.
RowKept(d) == UNCHANGED <<status[d], attemptCount[d], attempts[d], replays[d]>>
RowTaken(d) ==
    /\ status[d] \notin Settled /\ status'[d] = "processing"
    /\ UNCHANGED <<attemptCount[d], attempts[d], replays[d]>>
RowRecorded(d) ==
    /\ status[d] = "processing"
    /\ attemptCount[d] < MaxAttempts
    /\ attemptCount'[d] = attemptCount[d] + 1
    /\ status'[d] \in Outcomes
    /\ status'[d] = "failed_retryable" => attemptCount[d] + 1 < MaxAttempts
    /\ attempts'[d] = attempts[d] \cup
                        {[number |-> attemptCount[d] + 1, status |-> status'[d]]}
    /\ UNCHANGED replays[d]
RowMarked(d) ==
    /\ status[d] = "failed_retryable" /\ status'[d] = "replay_requested"
    /\ replays'[d] = [replays[d] EXCEPT ![attemptCount[d]] = @ + 1]
    /\ UNCHANGED <<attemptCount[d], attempts[d]>>
RowStep(d) == RowKept(d) \/ RowTaken(d) \/ RowRecorded(d) \/ RowMarked(d)

\* The report of a worker records an attempt of the row it claimed, or nothing.
LEMMA FinalizeRowStep ==
    ASSUME TypeInv, NEW w \in Workers, NEW e \in Deliveries, Finalize(w, e),
           NEW d \in Deliveries
    PROVE  RowStep(d)
<1>1. CASE HoldsClaim(w, e) /\ d = e
    <2> DEFINE n == attemptCount[d] + 1
               final == FinalStatus(outcome[w], n)
    <2>1. status[d] = "processing" /\ attemptCount[d] < MaxAttempts
        BY <1>1 DEF HoldsClaim, TypeInv, AttemptsLeft, Settled
    <2>2. attemptCount[d] \in 0 .. MaxAttempts
        BY DEF TypeInv, TypeOK
    <2>3. final \in Outcomes /\ (final = "failed_retryable" => n < MaxAttempts)
        BY <2>1, <2>2, BoundAssumption DEF FinalStatus, Outcomes, TypeInv, TypeOK
    <2>4. RecordOutcome(w, d) /\ UNCHANGED replays
        BY <1>1 DEF Finalize
    <2> HIDE DEF final
    <2>5. /\ attemptCount'[d] = n
          /\ status'[d] = final
          /\ attempts'[d] = attempts[d] \cup {[number |-> n, status |-> final]}
        BY <2>4 DEF RecordOutcome, final, TypeInv, TypeOK
    <2> QED BY <2>1, <2>3, <2>4, <2>5 DEF RowStep, RowRecorded
<1>2. CASE HoldsClaim(w, e) /\ d # e
    <2>1. RecordOutcome(w, e) /\ UNCHANGED replays
        BY <1>2 DEF Finalize
    <2> QED BY <1>2, <2>1 DEF RecordOutcome, TypeInv, TypeOK, RowStep, RowKept
<1>3. CASE ~HoldsClaim(w, e)
    BY <1>3 DEF Finalize, RowStep, RowKept
<1> QED BY <1>1, <1>2, <1>3

\* Every step does one of the four things to every row.
LEMMA NextRowStep ==
    ASSUME TypeInv, [Next]_vars, NEW d \in Deliveries PROVE RowStep(d)
<1>1. ASSUME NEW w \in Workers, Claim(w) PROVE RowStep(d)
    <2>1. PICK batch \in SUBSET Claimable(w) : ClaimRows(w, batch)
        BY <1>1 DEF Claim
    <2>2. d \in batch => status[d] \notin Settled
        BY DEF Claimable, Due, LeaseExpired, Settled, Waiting
    <2> QED BY <2>1, <2>2 DEF ClaimRows, RowStep, RowKept, RowTaken
<1>2. ASSUME NEW c \in Callers, RetryCommit(c) PROVE RowStep(d)
    <2>1. d \in Marked(c) => status[d] = "failed_retryable"
        BY DEF Marked, Retryable
    <2>2. /\ status'[d] = IF d \in Marked(c) THEN "replay_requested" ELSE status[d]
          /\ replays'[d] = IF d \in Marked(c)
                           THEN [replays[d] EXCEPT ![attemptCount[d]] = @ + 1]
                           ELSE replays[d]
          /\ UNCHANGED <<attemptCount, attempts>>
        BY <1>2 DEF RetryCommit
    <2> QED BY <2>1, <2>2 DEF RowStep, RowKept, RowMarked
<1>3. ASSUME UNCHANGED rowVars PROVE RowStep(d)
    BY <1>3 DEF rowVars, RowStep, RowKept
<1> QED
    BY <1>1, <1>2, <1>3, FinalizeRowStep
    DEF Next, WorkerStep, CallerStep, Tick, Begin, Load, Deliver, EndBatch, Abort,
        ServiceRetry, UserRetry, RetrySelect, RetryAbort, vars

-----------------------------------------------------------------------------
(* The attempt ledger *)

\* AttemptLedger, row by row.
LedgerRow(d) ==
    /\ \A n \in 1 .. attemptCount[d] : \E a \in attempts[d] : a.number = n
    /\ \A a, b \in attempts[d] : a.number = b.number => a = b
    /\ \A a \in attempts[d] :
        /\ a.number =< attemptCount[d]
        /\ a.status = IF a.number = attemptCount[d] /\ status[d] \in Settled
                      THEN status[d] ELSE "failed_retryable"
    /\ status[d] \in Settled \/ attemptCount[d] < MaxAttempts

\* A recorded attempt extends the numbering by one and follows failures only.
LEMMA LedgerRowRecorded ==
    ASSUME TypeOK, NEW d \in Deliveries, LedgerRow(d), RowRecorded(d) PROVE LedgerRow(d)'
<1> DEFINE k == attemptCount[d]
           new == [number |-> k + 1, status |-> status'[d]]
<1>1. k \in Nat
    BY BoundAssumption DEF TypeOK
<1>2. \A a \in attempts[d] : a.number \in Nat /\ a.number =< k
    BY BoundAssumption DEF TypeOK, LedgerRow
<1>3. \A a \in attempts[d] : a.status = "failed_retryable"
    BY DEF LedgerRow, RowRecorded, Settled
<1>4. attempts'[d] = attempts[d] \cup {new} /\ attemptCount'[d] = k + 1
    BY DEF RowRecorded
<1>5. new.number = k + 1 /\ new.status = status'[d]
    OBVIOUS
<1> HIDE DEF new
<1>6. \A n \in 1 .. k + 1 : \E a \in attempts'[d] : a.number = n
    <2> TAKE n \in 1 .. k + 1
    <2>1. CASE n = k + 1
        BY <1>4, <1>5, <2>1
    <2>2. CASE n # k + 1
        <3>1. n \in 1 .. k
            BY <1>1, <2>2
        <3>2. \E a \in attempts[d] : a.number = n
            BY <3>1 DEF LedgerRow
        <3> QED BY <1>4, <3>2
    <2> QED BY <2>1, <2>2
<1>7. \A a, b \in attempts'[d] : a.number = b.number => a = b
    <2> TAKE a, b \in attempts'[d]
    <2> HAVE a.number = b.number
    <2>1. CASE a \in attempts[d] /\ b \in attempts[d]
        BY <2>1 DEF LedgerRow
    <2>2. CASE a = new \/ b = new
        <3>1. a.number = k + 1 /\ b.number = k + 1
            BY <1>5, <2>2
        <3>2. \A c \in attempts[d] : c.number # k + 1
            BY <1>1, <1>2
        <3> QED BY <1>4, <3>1, <3>2
    <2> QED BY <1>4, <2>1, <2>2
<1>8. \A a \in attempts'[d] :
        /\ a.number =< k + 1
        /\ a.status = IF a.number = k + 1 /\ status'[d] \in Settled
                      THEN status'[d] ELSE "failed_retryable"
    <2> TAKE a \in attempts'[d]
    <2>1. CASE a \in attempts[d]
        BY <1>1, <1>2, <1>3, <2>1
    <2>2. CASE a = new
        <3>1. status'[d] \in Settled \/ status'[d] = "failed_retryable"
            BY DEF RowRecorded, Outcomes, Settled
        <3> QED BY <1>1, <1>5, <2>2, <3>1
    <2> QED BY <1>4, <2>1, <2>2
<1>9. status'[d] \in Settled \/ k + 1 < MaxAttempts
    BY DEF RowRecorded, Outcomes, Settled
<1> QED BY <1>4, <1>6, <1>7, <1>8, <1>9 DEF LedgerRow

\* The other steps leave the attempts alone and settle nothing.
LEMMA NextLedgerRow ==
    ASSUME TypeInv, [Next]_vars, NEW d \in Deliveries, LedgerRow(d) PROVE LedgerRow(d)'
<1>1. CASE RowKept(d)
    BY <1>1 DEF RowKept, LedgerRow
<1>2. CASE RowTaken(d)
    <2>1. /\ status[d] \notin Settled /\ status'[d] \notin Settled
          /\ attemptCount'[d] = attemptCount[d] /\ attempts'[d] = attempts[d]
        BY <1>2 DEF RowTaken, Settled
    <2> QED BY <2>1 DEF LedgerRow
<1>3. CASE RowMarked(d)
    <2>1. /\ status[d] \notin Settled /\ status'[d] \notin Settled
          /\ attemptCount'[d] = attemptCount[d] /\ attempts'[d] = attempts[d]
        BY <1>3 DEF RowMarked, Settled
    <2> QED BY <2>1 DEF LedgerRow
<1>4. CASE RowRecorded(d)
    BY <1>4, LedgerRowRecorded DEF TypeInv
<1> QED BY <1>1, <1>2, <1>3, <1>4, NextRowStep DEF RowStep

\* The attempts of a delivery are numbered without gap or duplicate, whichever
\* workers recorded them, and only the last one may have settled the row.
THEOREM AttemptsRecordedOnce == Spec => []AttemptLedger
<1> DEFINE AllRows == \A d \in Deliveries : LedgerRow(d)
<1>1. Init => AllRows
    BY BoundAssumption DEF Init, LedgerRow
<1>2. TypeInv /\ AllRows /\ [Next]_vars => AllRows'
    BY NextLedgerRow
<1>3. AllRows => AttemptLedger
    BY DEF LedgerRow, AttemptLedger
<1> HIDE DEF AllRows
<1> QED BY <1>1, <1>2, <1>3, InitTypeInv, NextTypeInv, PTL DEF Spec

-----------------------------------------------------------------------------
(* Replay events *)

FailureIn(S, n) == \E a \in S : a.number = n /\ a.status = "failed_retryable"

\* ReplayOncePerFailure alone is not inductive: a row that failed has, at its
\* present attempt count, a recorded failure and no replay event yet, and no
\* event is ahead of the count.
ReplayRow(d) ==
    /\ \A n \in 0 .. MaxAttempts :
        /\ replays[d][n] =< 1
        /\ replays[d][n] = 1 => FailureIn(attempts[d], n)
        /\ n > attemptCount[d] => replays[d][n] = 0
    /\ status[d] = "failed_retryable" =>
        /\ replays[d][attemptCount[d]] = 0
        /\ FailureIn(attempts[d], attemptCount[d])

\* A mark adds the first event at the present count; a recorded attempt moves the
\* count to a number without an event.
LEMMA NextReplayRow ==
    ASSUME TypeInv, [Next]_vars, NEW d \in Deliveries, ReplayRow(d) PROVE ReplayRow(d)'
<1>1. /\ attemptCount[d] \in 0 .. MaxAttempts
      /\ replays[d] \in [0 .. MaxAttempts -> Nat]
    BY DEF TypeInv, TypeOK
<1>2. CASE RowKept(d)
    BY <1>2 DEF RowKept, ReplayRow
<1>3. CASE RowTaken(d)
    BY <1>3 DEF RowTaken, ReplayRow
<1>4. CASE RowRecorded(d)
    <2> DEFINE k == attemptCount[d] + 1
    <2>1. /\ attemptCount'[d] = k /\ k \in 0 .. MaxAttempts
          /\ replays'[d] = replays[d]
        BY <1>1, <1>4, BoundAssumption DEF RowRecorded
    <2>2. \A n \in 0 .. MaxAttempts : FailureIn(attempts[d], n) => FailureIn(attempts'[d], n)
        BY <1>4 DEF RowRecorded, FailureIn
    <2>3. replays[d][k] = 0
        BY <1>1, <2>1 DEF ReplayRow
    <2>4. status'[d] = "failed_retryable" => FailureIn(attempts'[d], k)
        <3> HAVE status'[d] = "failed_retryable"
        <3>1. [number |-> k, status |-> "failed_retryable"] \in attempts'[d]
            BY <1>4 DEF RowRecorded
        <3> QED BY <3>1 DEF FailureIn
    <2>5. \A n \in 0 .. MaxAttempts : n > k => replays[d][n] = 0
        BY <1>1, BoundAssumption DEF ReplayRow
    <2>6. \A n \in 0 .. MaxAttempts :
            /\ replays'[d][n] =< 1
            /\ replays'[d][n] = 1 => FailureIn(attempts'[d], n)
        BY <2>1, <2>2 DEF ReplayRow
    <2> HIDE DEF k
    <2> QED
        BY <2>1, <2>3, <2>4, <2>5, <2>6 DEF ReplayRow
<1>5. CASE RowMarked(d)
    <2>1. /\ status'[d] # "failed_retryable"
          /\ attemptCount'[d] = attemptCount[d] /\ attempts'[d] = attempts[d]
        BY <1>5 DEF RowMarked
    <2>2. replays'[d][attemptCount[d]] = 1
        <3>1. replays[d][attemptCount[d]] = 0
            BY <1>5 DEF RowMarked, ReplayRow
        <3>2. replays'[d] = [replays[d] EXCEPT ![attemptCount[d]] = @ + 1]
            BY <1>5 DEF RowMarked
        <3> QED BY <1>1, <3>1, <3>2, CountUpFromZero
    <2>3. FailureIn(attempts[d], attemptCount[d])
        BY <1>5 DEF RowMarked, ReplayRow
    <2>4. \A n \in 0 .. MaxAttempts : n # attemptCount[d] => replays'[d][n] = replays[d][n]
        BY <1>1, <1>5 DEF RowMarked
    <2>5. \A n \in 0 .. MaxAttempts :
            /\ replays'[d][n] =< 1
            /\ replays'[d][n] = 1 => FailureIn(attempts[d], n)
            /\ n > attemptCount[d] => replays'[d][n] = 0
        <3> TAKE n \in 0 .. MaxAttempts
        <3>1. CASE n = attemptCount[d]
            BY <1>1, <2>2, <2>3, <3>1, BoundAssumption
        <3>2. CASE n # attemptCount[d]
            BY <2>4, <3>2 DEF ReplayRow
        <3> QED BY <3>1, <3>2
    <2> QED BY <2>1, <2>5 DEF ReplayRow
<1> QED BY <1>2, <1>3, <1>4, <1>5, NextRowStep DEF RowStep

\* Services and users that retry at once queue one replay event per recorded
\* retryable failure, however their selections and updates interleave.
THEOREM OneReplayPerFailure == Spec => []ReplayOncePerFailure
<1> DEFINE AllRows == \A d \in Deliveries : ReplayRow(d)
<1>1. Init => AllRows
    BY BoundAssumption DEF Init, ReplayRow
<1>2. TypeInv /\ AllRows /\ [Next]_vars => AllRows'
    BY NextReplayRow
<1>3. AllRows => ReplayOncePerFailure
    BY DEF ReplayRow, ReplayOncePerFailure, FailureIn
<1> HIDE DEF AllRows
<1> QED BY <1>1, <1>2, <1>3, InitTypeInv, NextTypeInv, PTL DEF Spec

-----------------------------------------------------------------------------
(* Refinement of DeliveryLedger *)

Phases == [d \in Deliveries |-> Phase(status[d])]

\* A claim is a Take of the abstract ledger, a report that finds its claim a
\* Report; a retry, which moves a row from one open status to another, and
\* every other step stutters.
LEMMA NextRefinesLedger ==
    ASSUME TypeInv, [Next]_vars PROVE Ledger!Next \/ UNCHANGED <<Phases, attemptCount>>
<1>1. ASSUME NEW w \in Workers, Claim(w) PROVE Ledger!Next
    <2>1. PICK batch \in SUBSET Claimable(w) : ClaimRows(w, batch)
        BY <1>1 DEF Claim
    <2>2. batch \in SUBSET Deliveries
        BY DEF Claimable
    <2>3. \A d \in batch : Phase(status[d]) \in {"open", "claimed"}
        BY DEF Claimable, Due, LeaseExpired, Phase
    <2>4. /\ status' = [d \in Deliveries |-> IF d \in batch THEN "processing" ELSE status[d]]
          /\ UNCHANGED attemptCount
        BY <2>1 DEF ClaimRows
    <2>5. \A d \in Deliveries :
            Phase(status'[d]) = IF d \in batch THEN "claimed" ELSE Phase(status[d])
        BY <2>4 DEF Phase, Waiting
    <2>6. Ledger!Take(batch)
        BY <2>2, <2>3, <2>4, <2>5 DEF Ledger!Take
    <2> QED BY <2>2, <2>6 DEF Ledger!Next
<1>2. ASSUME NEW w \in Workers, NEW e \in Deliveries, Finalize(w, e)
      PROVE  Ledger!Next \/ UNCHANGED <<Phases, attemptCount>>
    <2>1. CASE ~HoldsClaim(w, e)
        BY <1>2, <2>1 DEF Finalize, Phases
    <2>2. CASE HoldsClaim(w, e)
        <3> DEFINE n == attemptCount[e] + 1
                   final == FinalStatus(outcome[w], n)
        <3>1. status[e] = "processing" /\ attemptCount[e] < MaxAttempts
            BY <2>2 DEF HoldsClaim, TypeInv, AttemptsLeft, Settled
        <3>2. attemptCount[e] \in 0 .. MaxAttempts
            BY DEF TypeInv, TypeOK
        <3>3. final \in Outcomes /\ (final = "failed_retryable" => n < MaxAttempts)
            BY <3>1, <3>2, BoundAssumption DEF FinalStatus, Outcomes, TypeInv, TypeOK
        <3>4. /\ status' = [status EXCEPT ![e] = final]
              /\ attemptCount' = [attemptCount EXCEPT ![e] = n]
            BY <1>2, <2>2 DEF Finalize, RecordOutcome
        <3> HIDE DEF final
        <3>5. /\ Phase(final) \in {"open", "delivered", "failed_terminal"}
              /\ Phase(final) = "open" => final = "failed_retryable"
            BY <3>3 DEF Phase, Outcomes, Waiting
        <3>6. \A d \in Deliveries :
                Phase(status'[d]) = IF d = e THEN Phase(final) ELSE Phase(status[d])
            BY <3>4 DEF TypeInv, TypeOK
        <3>7. Phase(status[e]) = "claimed"
            BY <3>1 DEF Phase, Waiting
        <3>8. Phases' = [Phases EXCEPT ![e] = Phase(final)]
            BY <3>6 DEF Phases
        <3>9. Ledger!Report(e, Phase(final))
            BY <3>1, <3>3, <3>4, <3>5, <3>7, <3>8 DEF Ledger!Report, Phases
        <3> QED BY <3>5, <3>9 DEF Ledger!Next
    <2> QED BY <2>1, <2>2
<1>3. ASSUME NEW c \in Callers, RetryCommit(c) PROVE UNCHANGED <<Phases, attemptCount>>
    <2>1. \A d \in Marked(c) : status[d] = "failed_retryable"
        BY DEF Marked, Retryable
    <2>2. /\ \A d \in Deliveries :
                status'[d] = IF d \in Marked(c) THEN "replay_requested" ELSE status[d]
          /\ UNCHANGED attemptCount
        BY <1>3 DEF RetryCommit
    <2>3. \A d \in Deliveries : Phase(status'[d]) = Phase(status[d])
        BY <2>1, <2>2 DEF Phase, Waiting
    <2> QED BY <2>2, <2>3 DEF Phases
<1>4. ASSUME UNCHANGED rowVars PROVE UNCHANGED <<Phases, attemptCount>>
    BY <1>4 DEF rowVars, Phases
<1> QED
    BY <1>1, <1>2, <1>3, <1>4
    DEF Next, WorkerStep, CallerStep, Tick, Begin, Load, Deliver, EndBatch, Abort,
        ServiceRetry, UserRetry, RetrySelect, RetryAbort, vars

\* The workers, their leases and the retries implement the abstract ledger.
THEOREM WorkersImplementLedger == Spec => LedgerSpec
<1>1. Init => Ledger!Init
    BY DEF Init, Ledger!Init, Phase, Waiting
<1>2. TypeInv /\ [Next]_vars =>
        [Ledger!Next]_<<[d \in Deliveries |-> Phase(status[d])], attemptCount>>
    BY NextRefinesLedger DEF Phases
<1> QED BY <1>1, <1>2, InitTypeInv, NextTypeInv, PTL DEF Spec, LedgerSpec, Ledger!Spec
-----------------------------------------------------------------------------
(* What the lease gives: as long as no claim of a row was taken over, its     *)
(* sends are exclusive and accounted for.  The inductive invariant has three  *)
(* parts: a claim in some hand is the row's (Current), a worker inside the    *)
(* adapter holds a claim (AtWork), and a holder that has not sent yet has a   *)
(* send left (SendsRow).                                                      *)

\* A claim leaves a row only to the worker that takes the row over after its
\* lease, or by the hand of its holder.
LEMMA NextClaimKept ==
    ASSUME TypeOK, [Next]_vars, NEW d \in Deliveries PROVE ClaimKept(d)
<1> SUFFICES ASSUME status[d] = "processing", token'[d] # token[d]
             PROVE  \/ \E w \in Workers : LeaseOver(d, now[w]) /\ hand'[w][d] = token'[d]
                    \/ \E w \in Workers : hand[w][d] = token[d] /\ hand'[w][d] = NoToken
    BY DEF ClaimKept
<1>1. ASSUME NEW w \in Workers, Claim(w)
      PROVE  LeaseOver(d, now[w]) /\ hand'[w][d] = token'[d]
    <2>1. PICK batch \in SUBSET Claimable(w) : ClaimRows(w, batch)
        BY <1>1 DEF Claim
    <2>2. d \in batch
        BY <2>1 DEF ClaimRows
    <2>3. LeaseOver(d, now[w])
        BY <2>2 DEF Claimable, Due, LeaseExpired, Waiting
    <2> QED BY <2>1, <2>2, <2>3 DEF ClaimRows, TypeOK
<1>2. ASSUME NEW w \in Workers, NEW e \in Deliveries, Finalize(w, e)
      PROVE  hand[w][d] = token[d] /\ hand'[w][d] = NoToken
    <2>1. HoldsClaim(w, e)
        BY <1>2 DEF Finalize
    <2>2. token' = [token EXCEPT ![e] = NoToken]
        BY <1>2, <2>1 DEF Finalize, RecordOutcome
    <2>3. e = d
        BY <2>2 DEF TypeOK
    <2> QED BY <1>2, <2>1, <2>3 DEF Finalize, HoldsClaim, TypeOK
<1>3. ASSUME NEW c \in Callers, RetryCommit(c) PROVE FALSE
    BY <1>3 DEF RetryCommit, Marked, Retryable
<1>4. ASSUME UNCHANGED rowVars PROVE FALSE
    BY <1>4 DEF rowVars
<1> QED
    BY <1>1, <1>2, <1>3, <1>4
    DEF Next, WorkerStep, CallerStep, Tick, Begin, Load, Deliver, EndBatch, Abort,
        ServiceRetry, UserRetry, RetrySelect, RetryAbort, vars

\* A claim ends only when its holder reports on it or after its lease ran out.
THEOREM ClaimsEndByHolderOrLease == Spec => ClaimEndsByHolderOrLease
<1>1. TypeOK /\ [Next]_vars => \A d \in Deliveries : ClaimKept(d)
    BY NextClaimKept
<1> QED BY <1>1, TypeCorrect, PTL DEF Spec, ClaimEndsByHolderOrLease

-----------------------------------------------------------------------------
(* Hands *)

InAdapter == {"sending", "finalizing"}

Current ==
    \A w \in Workers, d \in Deliveries :
        overrun[d] \/ hand[w][d] = NoToken \/ hand[w][d] = token[d]
AtWork ==
    \A w \in Workers :
        \/ cur[w] = NoDelivery /\ pc[w] \notin InAdapter
        \/ /\ cur[w] \in Deliveries /\ pc[w] \in InAdapter
           /\ hand[w][cur[w]] # NoToken
Exclusive == TypeInv /\ Fenced /\ OneHolder

\* A claim takes over a claimed row only as an overrun; a row that is merely
\* due is in no hand that counts.
LEMMA ClaimKeepsCurrent ==
    ASSUME Exclusive, Current, NEW u \in Workers, Claim(u) PROVE Current'
<1>1. PICK batch \in SUBSET Claimable(u) : ClaimRows(u, batch)
    BY DEF Claim
<1>2. hand' = [hand EXCEPT ![u] =
                    [d \in Deliveries |-> IF d \in batch THEN FreshToken(d) ELSE NoToken]]
    BY <1>1 DEF ClaimRows
<1>3. SUFFICES ASSUME NEW w \in Workers, NEW d \in Deliveries, ~overrun'[d]
               PROVE  hand'[w][d] = NoToken \/ hand'[w][d] = token'[d]
    BY DEF Current
<1>4. /\ ~overrun[d]
      /\ d \in batch => ~(status[d] = "processing" /\ LeaseOver(d, now[u]))
    BY <1>1, <1>3 DEF ClaimRows, Exclusive, TypeInv, TypeOK
<1>5. w # u => hand'[w][d] = hand[w][d]
    BY <1>2 DEF Exclusive, TypeInv, TypeOK
<1>6. hand'[u][d] = IF d \in batch THEN FreshToken(d) ELSE NoToken
    BY <1>2 DEF Exclusive, TypeInv, TypeOK
<1>7. token'[d] = IF d \in batch THEN FreshToken(d) ELSE token[d]
    BY <1>1 DEF ClaimRows
<1>8. CASE w = u
    BY <1>6, <1>7, <1>8
<1>9. CASE w # u /\ d \notin batch
    BY <1>4, <1>5, <1>7, <1>9 DEF Current
<1>10. CASE w # u /\ d \in batch
    <2>1. status[d] # "processing"
        BY <1>4, <1>10 DEF Claimable, Due, LeaseExpired, Waiting
    <2>2. token[d] = NoToken
        BY <2>1 DEF Exclusive, Fenced
    <2> QED BY <1>4, <1>5, <1>10, <2>2 DEF Current
<1> QED BY <1>8, <1>9, <1>10

\* A report empties the hand it comes from; no other hand holds the token.
LEMMA FinalizeKeepsCurrent ==
    ASSUME Exclusive, Current, NEW u \in Workers, NEW e \in Deliveries, Finalize(u, e)
    PROVE  Current'
<1>1. hand \in [Workers -> [Deliveries -> Tokens \cup {NoToken}]]
    BY DEF Exclusive, TypeInv, TypeOK
<1>2. overrun' = overrun /\ hand' = [hand EXCEPT ![u][e] = NoToken]
    BY DEF Finalize, histVars
<1>3. CASE ~HoldsClaim(u, e)
    <2>1. token' = token
        BY <1>3 DEF Finalize
    <2> QED BY <1>1, <1>2, <2>1 DEF Current
<1>4. CASE HoldsClaim(u, e)
    <2>1. token' = [token EXCEPT ![e] = NoToken] /\ token[e] = hand[u][e]
        BY <1>4 DEF Finalize, RecordOutcome, HoldsClaim
    <2>2. token[e] # NoToken
        BY <1>4 DEF HoldsClaim, Exclusive, Fenced
    <2>3. ASSUME NEW w \in Workers, NEW d \in Deliveries, ~overrun'[d]
          PROVE  hand'[w][d] = NoToken \/ hand'[w][d] = token'[d]
        <3>1. CASE d # e
            <4>1. hand'[w][d] = hand[w][d] /\ token'[d] = token[d]
                BY <1>1, <1>2, <2>1, <3>1 DEF Exclusive, TypeInv, TypeOK
            <4> QED BY <1>2, <2>3, <4>1 DEF Current
        <3>2. CASE d = e /\ w = u
            BY <1>1, <1>2, <3>2
        <3>3. CASE d = e /\ w # u
            <4>1. hand'[w][e] = hand[w][e] /\ token'[e] = NoToken
                BY <1>1, <1>2, <2>1, <3>3 DEF Exclusive, TypeInv, TypeOK
            <4>2. hand[w][e] # token[e]
                BY <2>1, <2>2, <3>3 DEF Exclusive, OneHolder
            <4> QED BY <1>2, <2>3, <3>3, <4>1, <4>2 DEF Current
        <3> QED BY <3>1, <3>2, <3>3
    <2> QED BY <2>3 DEF Current
<1> QED BY <1>3, <1>4

\* The other steps put no claim into a hand.
LEMMA NextKeepsCurrent ==
    ASSUME Exclusive, Current, [Next]_vars PROVE Current'
<1> USE DEF Exclusive
<1>1. ASSUME UNCHANGED <<token, overrun>>,
             \A w \in Workers, d \in Deliveries : hand'[w][d] \in {hand[w][d], NoToken}
      PROVE  Current'
    BY <1>1 DEF Current
<1>2. ASSUME UNCHANGED <<token, overrun, hand>> PROVE Current'
    BY <1>1, <1>2
<1>3. ASSUME NEW u \in Workers, NEW e \in Deliveries, Load(u, e) PROVE Current'
    <2>1. hand' = hand \/ hand' = [hand EXCEPT ![u][e] = NoToken]
        BY <1>3 DEF Load
    <2>2. hand \in [Workers -> [Deliveries -> Tokens \cup {NoToken}]]
        BY DEF TypeInv, TypeOK
    <2>3. \A w \in Workers, d \in Deliveries : hand'[w][d] \in {hand[w][d], NoToken}
        BY <2>1, <2>2
    <2>4. UNCHANGED <<token, overrun>>
        BY <1>3 DEF Load, rowVars, histVars
    <2> QED BY <1>1, <2>3, <2>4
<1>4. ASSUME NEW u \in Workers, Abort(u) PROVE Current'
    <2>1. \A w \in Workers, d \in Deliveries : hand'[w][d] \in {hand[w][d], NoToken}
        BY <1>4 DEF Abort, TypeInv, TypeOK
    <2>2. UNCHANGED <<token, overrun>>
        BY <1>4 DEF Abort, rowVars, histVars
    <2> QED BY <1>1, <2>1, <2>2
<1>5. ASSUME NEW c \in Callers, RetryCommit(c) PROVE Current'
    <2>1. \A d \in Marked(c) : token[d] = NoToken
        BY DEF Marked, Retryable, Fenced
    <2>2. UNCHANGED <<overrun, hand, token>>
        <3>1. \A d \in Deliveries : token'[d] = token[d]
            BY <1>5, <2>1 DEF RetryCommit
        <3>2. token' = [d \in Deliveries |-> token'[d]] /\ token = [d \in Deliveries |-> token[d]]
            BY <1>5 DEF RetryCommit, TypeInv, TypeOK
        <3>3. token' = token
            BY <3>1, <3>2
        <3> QED BY <1>5, <3>3 DEF RetryCommit, workerVars, histVars
    <2> QED BY <1>2, <2>2
<1>6. ASSUME NEW u \in Workers, NEW e \in Deliveries, Deliver(u, e) PROVE Current'
    BY <1>2, <1>6 DEF Deliver, rowVars
<1>7. ASSUME UNCHANGED <<rowVars, histVars>>, UNCHANGED hand PROVE Current'
    BY <1>2, <1>7 DEF rowVars, histVars
<1> QED
    BY <1>3, <1>4, <1>5, <1>6, <1>7, ClaimKeepsCurrent, FinalizeKeepsCurrent
    DEF Next, WorkerStep, CallerStep, Tick, Begin, EndBatch,
        ServiceRetry, UserRetry, RetrySelect, RetryAbort, vars, workerVars

\* A worker is inside the adapter with a claim in its hand, or with nothing.
LEMMA NextKeepsAtWork ==
    ASSUME TypeInv, AtWork, [Next]_vars PROVE AtWork'
<1>1. /\ hand \in [Workers -> [Deliveries -> Tokens \cup {NoToken}]]
      /\ cur \in [Workers -> Deliveries \cup {NoDelivery}]
      /\ pc \in [Workers -> {"idle", "claiming", "batch", "sending", "finalizing"}]
    BY DEF TypeInv, TypeOK
<1>2. ASSUME NEW u \in Workers, cur[u] = NoDelivery, pc[u] \notin InAdapter,
             pc' = pc \/ (\E k \in {"idle", "claiming", "batch"} : pc' = [pc EXCEPT ![u] = k]),
             cur' = cur,
             \A w \in Workers : w # u => hand'[w] = hand[w]
      PROVE  AtWork'
    <2>1. ASSUME NEW w \in Workers, w # u
          PROVE  cur'[w] = cur[w] /\ pc'[w] = pc[w] /\ hand'[w] = hand[w]
        BY <1>1, <1>2, <2>1
    <2>2. cur'[u] = NoDelivery /\ pc'[u] \notin InAdapter
        BY <1>1, <1>2 DEF InAdapter
    <2> QED BY <2>1, <2>2 DEF AtWork
<1>3. ASSUME UNCHANGED <<pc, cur, hand>> PROVE AtWork'
    BY <1>3 DEF AtWork
<1>4. ASSUME NEW u \in Workers, pc[u] \notin InAdapter PROVE cur[u] = NoDelivery
    BY <1>4 DEF AtWork
<1>5. ASSUME NEW u \in Workers, Begin(u) \/ EndBatch(u) PROVE AtWork'
    <2>1. /\ pc[u] \notin InAdapter /\ UNCHANGED <<cur, hand>>
          /\ \E k \in {"idle", "claiming", "batch"} : pc' = [pc EXCEPT ![u] = k]
        BY <1>5 DEF Begin, EndBatch, InAdapter
    <2> QED BY <1>2, <1>4, <2>1
<1>6. ASSUME NEW u \in Workers, Claim(u) PROVE AtWork'
    <2>1. PICK batch \in SUBSET Claimable(u) : ClaimRows(u, batch)
        BY <1>6 DEF Claim
    <2>2. /\ pc[u] \notin InAdapter /\ cur' = cur
          /\ pc' = [pc EXCEPT ![u] = "batch"]
          /\ \A w \in Workers : w # u => hand'[w] = hand[w]
        BY <1>1, <2>1 DEF ClaimRows, InAdapter
    <2> QED BY <1>2, <1>4, <2>2
<1>7. ASSUME NEW u \in Workers, NEW e \in Deliveries, Load(u, e) PROVE AtWork'
    <2>1. pc[u] \notin InAdapter
        BY <1>7 DEF Load, InAdapter
    <2>2. CASE HoldsClaim(u, e)
        <3>1. /\ pc' = [pc EXCEPT ![u] = "sending"]
              /\ cur' = [cur EXCEPT ![u] = e]
              /\ hand' = hand /\ hand[u][e] # NoToken
            BY <1>7, <2>2 DEF Load
        <3>2. \A w \in Workers : w # u => cur'[w] = cur[w] /\ pc'[w] = pc[w]
            BY <1>1, <3>1
        <3>3. cur'[u] = e /\ pc'[u] = "sending"
            BY <1>1, <3>1
        <3> QED BY <3>1, <3>2, <3>3 DEF AtWork, InAdapter
    <2>3. CASE ~HoldsClaim(u, e)
        <3>1. UNCHANGED <<pc, cur>> /\ hand' = [hand EXCEPT ![u][e] = NoToken]
            BY <1>7, <2>3 DEF Load
        <3>2. \A w \in Workers : w # u => hand'[w] = hand[w]
            BY <1>1, <3>1
        <3> QED BY <1>2, <1>4, <2>1, <3>1, <3>2
    <2> QED BY <2>2, <2>3
<1>8. ASSUME NEW u \in Workers, NEW e \in Deliveries, Deliver(u, e) PROVE AtWork'
    <2>1. /\ pc[u] \in InAdapter /\ UNCHANGED <<cur, hand>>
          /\ pc' = [pc EXCEPT ![u] = "finalizing"]
        BY <1>8 DEF Deliver, InAdapter
    <2>2. \A w \in Workers : pc'[w] \in InAdapter <=> pc[w] \in InAdapter
        BY <1>1, <2>1 DEF InAdapter
    <2> QED BY <2>1, <2>2 DEF AtWork
<1>9. ASSUME NEW u \in Workers, cur' = [cur EXCEPT ![u] = NoDelivery],
             pc' = [pc EXCEPT ![u] = "idle"] \/ pc' = [pc EXCEPT ![u] = "batch"],
             \A w \in Workers : w # u => hand'[w] = hand[w]
      PROVE  AtWork'
    <2>1. \A w \in Workers : w # u => cur'[w] = cur[w] /\ pc'[w] = pc[w]
        BY <1>1, <1>9
    <2>2. cur'[u] = NoDelivery /\ pc'[u] \notin InAdapter
        BY <1>1, <1>9 DEF InAdapter
    <2> QED BY <1>9, <2>1, <2>2 DEF AtWork
<1>10. ASSUME NEW u \in Workers, NEW e \in Deliveries, Finalize(u, e) PROVE AtWork'
    <2>1. \A w \in Workers : w # u => hand'[w] = hand[w]
        BY <1>1, <1>10 DEF Finalize
    <2> QED BY <1>9, <1>10, <2>1 DEF Finalize
<1>11. ASSUME NEW u \in Workers, Abort(u) PROVE AtWork'
    <2>1. \A w \in Workers : w # u => hand'[w] = hand[w]
        BY <1>1, <1>11 DEF Abort
    <2> QED BY <1>9, <1>11, <2>1 DEF Abort
<1>12. ASSUME UNCHANGED workerVars PROVE AtWork'
    BY <1>3, <1>12 DEF workerVars
<1> QED
    BY <1>5, <1>6, <1>7, <1>8, <1>10, <1>11, <1>12
    DEF Next, WorkerStep, CallerStep, Tick, RetryCommit,
        ServiceRetry, UserRetry, RetrySelect, RetryAbort, vars

\* Two workers inside the adapter for a row both hold its token, unless the row
\* was taken over.
LEMMA HandsExclusive == OneHolder /\ Current /\ AtWork => SendersExclusive
<1> SUFFICES ASSUME OneHolder, Current, AtWork,
                    NEW d \in Deliveries, NEW w \in Workers, NEW v \in Workers,
                    cur[w] = d, cur[v] = d, ~overrun[d]
             PROVE  w = v
    BY DEF SendersExclusive
<1>1. hand[w][d] # NoToken /\ hand[v][d] # NoToken
    BY NullAssumption DEF AtWork
<1>2. hand[w][d] = token[d] /\ hand[v][d] = token[d]
    BY <1>1 DEF Current
<1> QED BY <1>1, <1>2 DEF OneHolder

HandsInv == Exclusive /\ Current /\ AtWork

\* All hands start empty.
LEMMA InitHandsInv == Init => HandsInv
<1> SUFFICES ASSUME Init PROVE HandsInv
    OBVIOUS
<1>1. TypeInv
    BY InitTypeInv
<1>2. Fenced /\ OneHolder
    BY NullAssumption DEF Init, Fenced, OneHolder, NoLease
<1>3. Current /\ AtWork
    BY DEF Init, Current, AtWork, InAdapter
<1> QED BY <1>1, <1>2, <1>3 DEF HandsInv, Exclusive

\* The three parts are inductive together with the exclusive claims.
LEMMA NextHandsInv == HandsInv /\ [Next]_vars => HandsInv'
BY NextTypeInv, NextKeepsExclusive, NextKeepsCurrent, NextKeepsAtWork
DEF HandsInv, Exclusive, TypeInv

\* Two workers send one row at the same time only after a lease ran out.
THEOREM SendersAreExclusive == Spec => []SendersExclusive
<1>1. HandsInv => SendersExclusive
    BY HandsExclusive DEF HandsInv, Exclusive
<1> QED BY <1>1, InitHandsInv, NextHandsInv, PTL DEF Spec

-----------------------------------------------------------------------------
(* Sends *)

\* SendsAccountedFor is not inductive: a crash after a send leaves a claimed row
\* one send ahead of its attempts, and only a holder that has not sent may send.
Sent(w, d) == pc[w] = "finalizing" /\ cur[w] = d
SendsRow(d) ==
    overrun[d] \/
    /\ sends[d] =< attemptCount[d] + (IF status[d] = "processing" THEN 1 ELSE 0)
    /\ \A w \in Workers :
        hand[w][d] = NoToken \/ Sent(w, d) \/ sends[d] =< attemptCount[d]

\* Between two steps that touch row d: no claim of d enters a hand and no holder
\* of d forgets that it has sent.
HandsOff(d) ==
    \A w \in Workers :
        \/ hand'[w][d] = NoToken
        \/ hand'[w][d] = hand[w][d] /\ Sent(w, d)' = Sent(w, d)

\* A step that only empties hands, or marks the row for a retry, keeps the account.
LEMMA QuietKeepsSends ==
    ASSUME NEW d \in Deliveries, SendsRow(d), HandsOff(d),
           sends'[d] = sends[d], attemptCount'[d] = attemptCount[d],
           overrun'[d] = overrun[d],
           status'[d] = status[d] \/ (status[d] = "failed_retryable"
                                        /\ status'[d] = "replay_requested")
    PROVE  SendsRow(d)'
<1>1. overrun[d] \/
        sends[d] =< attemptCount[d] + (IF status'[d] = "processing" THEN 1 ELSE 0)
    BY DEF SendsRow
<1>2. ASSUME NEW w \in Workers, ~overrun[d]
      PROVE  hand'[w][d] = NoToken \/ Sent(w, d)' \/ sends[d] =< attemptCount[d]
    BY <1>2 DEF SendsRow, HandsOff
<1> QED BY <1>1, <1>2 DEF SendsRow

\* A row that is claimed without an overrun was not claimed before.
LEMMA ClaimKeepsSends ==
    ASSUME HandsInv, NEW d \in Deliveries, SendsRow(d), NEW u \in Workers, Claim(u)
    PROVE  SendsRow(d)'
<1> USE DEF HandsInv, Exclusive
<1>1. PICK batch \in SUBSET Claimable(u) : ClaimRows(u, batch)
    BY DEF Claim
<1>2. /\ sends' = sends /\ attemptCount' = attemptCount /\ cur' = cur
      /\ pc[u] = "claiming" /\ pc' = [pc EXCEPT ![u] = "batch"]
      /\ status'[d] = IF d \in batch THEN "processing" ELSE status[d]
      /\ overrun'[d] = (overrun[d] \/ (d \in batch /\ status[d] = "processing"
                                        /\ LeaseOver(d, now[u])))
    BY <1>1 DEF ClaimRows
<1>3. CASE d \in batch /\ overrun'[d]
    BY <1>3 DEF SendsRow
<1>4. CASE d \in batch /\ ~overrun'[d]
    <2>1. ~overrun[d] /\ ~(status[d] = "processing" /\ LeaseOver(d, now[u]))
        BY <1>2, <1>4
    <2>2. status[d] # "processing"
        BY <1>4, <2>1 DEF Claimable, Due, LeaseExpired, Waiting
    <2>3. sends[d] \in Nat /\ attemptCount[d] \in Nat
        BY BoundAssumption DEF TypeInv, TypeOK, MaxSends
    <2>4. sends[d] =< attemptCount[d]
        BY <2>1, <2>2, <2>3 DEF SendsRow
    <2>5. sends'[d] =< attemptCount'[d] /\ sends'[d] =< attemptCount'[d] + 1
        BY <1>2, <2>3, <2>4
    <2>6. status'[d] = "processing"
        BY <1>2, <1>4
    <2> QED BY <2>5, <2>6 DEF SendsRow
<1>5. CASE d \notin batch
    <2>1. /\ hand' = [hand EXCEPT ![u] =
                        [e \in Deliveries |-> IF e \in batch THEN FreshToken(e) ELSE NoToken]]
          /\ hand \in [Workers -> [Deliveries -> Tokens \cup {NoToken}]]
          /\ pc \in [Workers -> {"idle", "claiming", "batch", "sending", "finalizing"}]
        BY <1>1 DEF ClaimRows, TypeInv, TypeOK
    <2>2. \A w \in Workers :
            IF w = u THEN hand'[w][d] = NoToken
            ELSE hand'[w][d] = hand[w][d] /\ pc'[w] = pc[w]
        BY <1>2, <1>5, <2>1
    <2>3. HandsOff(d)
        BY <1>2, <2>2 DEF HandsOff, Sent
    <2>4. overrun'[d] = overrun[d]
        BY <1>2, <1>5 DEF TypeInv, TypeOK
    <2> QED BY <1>2, <1>5, <2>3, <2>4, QuietKeepsSends
<1> QED BY <1>3, <1>4, <1>5

\* Only a holder that has not sent for its claim yet sends.
LEMMA DeliverKeepsSends ==
    ASSUME HandsInv, NEW d \in Deliveries, SendsRow(d),
           NEW u \in Workers, NEW e \in Deliveries, Deliver(u, e)
    PROVE  SendsRow(d)'
<1> USE DEF HandsInv, Exclusive
<1>1. /\ pc[u] = "sending" /\ cur[u] = e /\ pc' = [pc EXCEPT ![u] = "finalizing"]
      /\ UNCHANGED <<status, attemptCount, hand, cur, overrun>>
      /\ \E r \in AdapterResults(ChannelOf[e]) :
            sends' = [sends EXCEPT ![e] = IF r.effect /\ @ < MaxSends THEN @ + 1 ELSE @]
    BY DEF Deliver, rowVars
<1>2. /\ sends[d] \in Nat /\ attemptCount[d] \in Nat
      /\ sends \in [Deliveries -> 0 .. MaxSends]
      /\ pc \in [Workers -> {"idle", "claiming", "batch", "sending", "finalizing"}]
    BY BoundAssumption DEF TypeInv, TypeOK, MaxSends
<1>3. CASE e # d
    <2>1. HandsOff(d)
        BY <1>1, <1>2, <1>3 DEF HandsOff, Sent
    <2>2. sends'[d] = sends[d]
        BY <1>1, <1>2, <1>3
    <2> QED BY <1>1, <2>1, <2>2, QuietKeepsSends
<1>4. CASE e = d /\ overrun[d]
    BY <1>1, <1>4 DEF SendsRow
<1>5. CASE e = d /\ ~overrun[d]
    <2>1. hand[u][d] # NoToken
        BY <1>1, <1>5, NullAssumption DEF AtWork
    <2>2. hand[u][d] = token[d] /\ status[d] = "processing"
        BY <1>5, <2>1 DEF Current, Fenced
    <2>3. sends[d] =< attemptCount[d]
        BY <1>1, <1>5, <2>1 DEF SendsRow, Sent
    <2>4. sends'[d] = sends[d] \/ sends'[d] = sends[d] + 1
        BY <1>1, <1>2, <1>5
    <2>5. sends'[d] =< attemptCount'[d] + 1
        BY <1>1, <1>2, <2>3, <2>4
    <2>6. \A w \in Workers : hand[w][d] # NoToken => w = u
        BY <1>5, <2>1, <2>2 DEF Current, OneHolder
    <2>7. pc'[u] = "finalizing" /\ cur'[u] = d
        BY <1>1, <1>2, <1>5
    <2>8. status'[d] = "processing" /\ \A w \in Workers : hand'[w][d] # NoToken => w = u
        BY <1>1, <2>2, <2>6
    <2> QED BY <2>5, <2>7, <2>8 DEF SendsRow, Sent
<1> QED BY <1>3, <1>4, <1>5

\* A report pays for the send with an attempt; it is dropped only in an overrun.
LEMMA FinalizeKeepsSends ==
    ASSUME HandsInv, NEW d \in Deliveries, SendsRow(d),
           NEW u \in Workers, NEW e \in Deliveries, Finalize(u, e)
    PROVE  SendsRow(d)'
<1> USE DEF HandsInv, Exclusive
<1>1. /\ pc[u] = "finalizing" /\ cur[u] = e /\ pc' = [pc EXCEPT ![u] = "batch"]
      /\ hand' = [hand EXCEPT ![u][e] = NoToken]
      /\ cur' = [cur EXCEPT ![u] = NoDelivery]
      /\ UNCHANGED <<sends, overrun>>
    BY DEF Finalize, histVars
<1>2. /\ sends[d] \in Nat /\ attemptCount[d] \in Nat
      /\ status \in [Deliveries -> Waiting \cup Settled \cup {"processing"}]
      /\ attemptCount \in [Deliveries -> 0 .. MaxAttempts]
      /\ pc \in [Workers -> {"idle", "claiming", "batch", "sending", "finalizing"}]
      /\ hand \in [Workers -> [Deliveries -> Tokens \cup {NoToken}]]
      /\ cur \in [Workers -> Deliveries \cup {NoDelivery}]
    BY BoundAssumption DEF TypeInv, TypeOK, MaxSends
<1>3. HoldsClaim(u, e) =>
        /\ status' = [status EXCEPT ![e] = FinalStatus(outcome[u], attemptCount[e] + 1)]
        /\ attemptCount' = [attemptCount EXCEPT ![e] = attemptCount[e] + 1]
    BY DEF Finalize, RecordOutcome
<1>4. ~HoldsClaim(u, e) => UNCHANGED <<status, attemptCount>>
    BY DEF Finalize
<1>5. CASE e # d
    <2>1. HandsOff(d)
        <3>1. \A w \in Workers : hand'[w][d] = hand[w][d]
            BY <1>1, <1>2, <1>5
        <3>2. ~Sent(u, d) /\ ~(pc'[u] = "finalizing")
            BY <1>1, <1>2, <1>5 DEF Sent
        <3>3. \A w \in Workers : w # u => pc'[w] = pc[w] /\ cur'[w] = cur[w]
            BY <1>1, <1>2
        <3> QED BY <3>1, <3>2, <3>3 DEF HandsOff, Sent
    <2>2. status'[d] = status[d] /\ attemptCount'[d] = attemptCount[d]
        BY <1>2, <1>3, <1>4, <1>5
    <2> QED BY <1>1, <2>1, <2>2, QuietKeepsSends
<1>6. CASE e = d /\ overrun[d]
    BY <1>1, <1>6 DEF SendsRow
<1>7. CASE e = d /\ ~overrun[d]
    <2>1. hand[u][d] # NoToken
        BY <1>1, <1>7, NullAssumption DEF AtWork
    <2>2. hand[u][d] = token[d] /\ status[d] = "processing"
        BY <1>7, <2>1 DEF Current, Fenced
    <2>3. HoldsClaim(u, d)
        BY <2>2 DEF HoldsClaim
    <2>4. attemptCount'[d] = attemptCount[d] + 1
        BY <1>2, <1>3, <1>7, <2>3
    <2>5. status'[d] # "processing"
        BY <1>2, <1>3, <1>7, <2>3 DEF FinalStatus, TypeInv, TypeOK, Outcomes
    <2>6. sends[d] =< attemptCount[d] + 1
        BY <1>7, <2>2 DEF SendsRow
    <2>7. sends'[d] =< attemptCount'[d] /\ attemptCount'[d] \in Nat
        BY <1>1, <1>2, <2>4, <2>6
    <2>8. sends'[d] =< attemptCount'[d] + (IF status'[d] = "processing" THEN 1 ELSE 0)
        BY <2>5, <2>7
    <2> QED BY <2>7, <2>8 DEF SendsRow
<1> QED BY <1>5, <1>6, <1>7

\* Every other step is quiet for row d.
LEMMA NextKeepsSends ==
    ASSUME HandsInv, NEW d \in Deliveries, SendsRow(d), [Next]_vars PROVE SendsRow(d)'
<1> USE DEF HandsInv, Exclusive
<1>1. /\ pc \in [Workers -> {"idle", "claiming", "batch", "sending", "finalizing"}]
      /\ hand \in [Workers -> [Deliveries -> Tokens \cup {NoToken}]]
      /\ cur \in [Workers -> Deliveries \cup {NoDelivery}]
    BY DEF TypeInv, TypeOK
<1>2. ASSUME UNCHANGED <<rowVars, histVars>>, HandsOff(d) PROVE SendsRow(d)'
    BY <1>2, QuietKeepsSends DEF rowVars, histVars
<1>3. ASSUME NEW u \in Workers, Begin(u) \/ EndBatch(u) PROVE SendsRow(d)'
    <2>1. HandsOff(d)
        BY <1>1, <1>3 DEF Begin, EndBatch, HandsOff, Sent
    <2> QED BY <1>2, <1>3, <2>1 DEF Begin, EndBatch
<1>4. ASSUME NEW u \in Workers, NEW e \in Deliveries, Load(u, e) PROVE SendsRow(d)'
    <2>1. \A w \in Workers : hand'[w][d] = NoToken \/ hand'[w][d] = hand[w][d]
        <3>1. hand' = hand \/ hand' = [hand EXCEPT ![u][e] = NoToken]
            BY <1>4 DEF Load
        <3> QED BY <1>1, <3>1
    <2>2. /\ \A w \in Workers : w # u => pc'[w] = pc[w] /\ cur'[w] = cur[w]
          /\ pc[u] # "finalizing" /\ pc'[u] # "finalizing"
        <3>1. /\ pc[u] = "batch"
              /\ pc' = pc \/ pc' = [pc EXCEPT ![u] = "sending"]
              /\ cur' = cur \/ cur' = [cur EXCEPT ![u] = e]
            BY <1>4 DEF Load
        <3> QED BY <1>1, <3>1
    <2>3. HandsOff(d)
        BY <2>1, <2>2 DEF HandsOff, Sent
    <2> QED BY <1>2, <1>4, <2>3 DEF Load
<1>5. ASSUME NEW u \in Workers, Abort(u) PROVE SendsRow(d)'
    <2>1. /\ \A w \in Workers : w # u => /\ hand'[w] = hand[w] /\ pc'[w] = pc[w]
                                         /\ cur'[w] = cur[w]
          /\ hand'[u][d] = NoToken
        BY <1>1, <1>5 DEF Abort
    <2>2. HandsOff(d)
        BY <2>1 DEF HandsOff, Sent
    <2> QED BY <1>2, <1>5, <2>2 DEF Abort
<1>6. ASSUME UNCHANGED workerVars PROVE HandsOff(d)
    BY <1>6 DEF workerVars, HandsOff, Sent
<1>7. ASSUME NEW c \in Callers, RetryCommit(c) PROVE SendsRow(d)'
    <2>1. /\ UNCHANGED <<attemptCount, workerVars, histVars>>
          /\ status'[d] = IF d \in Marked(c) THEN "replay_requested" ELSE status[d]
        BY <1>7 DEF RetryCommit
    <2>2. d \in Marked(c) => status[d] = "failed_retryable"
        BY DEF Marked, Retryable
    <2> QED BY <1>6, <2>1, <2>2, QuietKeepsSends DEF histVars
<1> QED
    BY <1>2, <1>3, <1>4, <1>5, <1>6, <1>7,
       ClaimKeepsSends, DeliverKeepsSends, FinalizeKeepsSends
    DEF Next, WorkerStep, CallerStep, Tick,
        ServiceRetry, UserRetry, RetrySelect, RetryAbort, vars

\* Without an overrun, no more is sent for a row than its recorded attempts and
\* the claim in progress account for.
THEOREM SendsAreAccountedFor == Spec => []SendsAccountedFor
<1> DEFINE AllRows == \A d \in Deliveries : SendsRow(d)
<1>1. Init => AllRows
    BY DEF Init, SendsRow
<1>2. HandsInv /\ AllRows /\ [Next]_vars => AllRows'
    BY NextKeepsSends
<1>3. AllRows => SendsAccountedFor
    BY DEF SendsRow, SendsAccountedFor
<1> HIDE DEF AllRows
<1> QED BY <1>1, <1>2, <1>3, InitHandsInv, NextHandsInv, PTL DEF Spec
=============================================================================
