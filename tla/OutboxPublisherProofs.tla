----------------------- MODULE OutboxPublisherProofs -----------------------
(***************************************************************************)
(* Proofs about OutboxPublisher, for every set of events, publishers and   *)
(* tokens and every value of the bounds.                                   *)
(*                                                                         *)
(* The inductive invariant has three layers, each proved over the ones     *)
(* before: types with the attempts (TypeInv), the fence of claim tokens    *)
(* (Fenced, OneHolder), and what the copies on the topic come from         *)
(* (Stored, Counted).                                                      *)
(***************************************************************************)
EXTENDS OutboxPublisher, TLAPS

-----------------------------------------------------------------------------
(* Types *)

\* An event has used all its attempts exactly when it is given up.
AttemptsLeft ==
    \A e \in Events : status[e] = "failed_terminal" <=> attempts[e] = MaxAttempts

\* An event in hand was claimed before: it is pending only if it was never tried.
HandsClaimed ==
    \A p \in Publishers, e \in Events :
        hand[p][e] # NoToken =>
            /\ status[e] # "absent"
            /\ status[e] \in Waiting => attempts[e] > 0

TypeInv == TypeOK /\ AttemptsLeft /\ HandsClaimed

\* Rows start absent, and no publisher has one.
LEMMA InitTypeInv == Init => TypeInv
BY BoundAssumption, NullAssumption
DEF Init, TypeInv, TypeOK, AttemptsLeft, HandsClaimed, Time, Settled, Waiting, MaxCopies, NoLease

\* A stored deadline is a clock value.
LEMMA CapTime == ASSUME NEW t \in Nat PROVE Cap(t) \in Time
BY BoundAssumption DEF Cap, Time

\* A claim takes an event that waits or whose lease ran out.
LEMMA BatchOpen ==
    ASSUME NEW p \in Publishers, NEW e \in Publishable(p)
    PROVE  /\ e \in Events
           /\ status[e] \in Waiting \cup {"publishing"}
           /\ status[e] = "publishing" => LeaseOver(e, now[p])
BY DEF Publishable, Ready, LeaseExpired, Waiting

\* A step that takes events out of hands only and keeps the rows.
LEMMA DropKeepsClaimed ==
    ASSUME HandsClaimed, UNCHANGED <<status, attempts>>,
           \A p \in Publishers, e \in Events : hand'[p][e] \in {hand[p][e], NoToken}
    PROVE  HandsClaimed'
BY DEF HandsClaimed

\* The claim transaction.
LEMMA ClaimTypeInv ==
    ASSUME TypeInv, NEW p \in Publishers, Claim(p) PROVE TypeInv'
<1>1. PICK batch \in SUBSET Publishable(p) : ClaimRows(p, batch)
    BY DEF Claim
<1>2. \A e \in batch : e \in Events /\ status[e] \in Waiting \cup {"publishing"}
    BY BatchOpen
<1>3. \A e \in batch : FreshToken(e) \in Tokens
    BY <1>1 DEF ClaimRows, FreshToken
<1>4. Cap(now[p] + LeaseDuration) \in Time
    BY CapTime, BoundAssumption DEF TypeInv, TypeOK, Time
<1>5. TypeOK'
    BY <1>1, <1>2, <1>3, <1>4 DEF ClaimRows, TypeInv, TypeOK, LeaseOver
<1>6. AttemptsLeft'
    BY <1>1, <1>2 DEF ClaimRows, TypeInv, AttemptsLeft, Waiting
<1>7. HandsClaimed'
    <2>1. \A q \in Publishers, e \in Events : e \notin batch =>
            hand'[q][e] \in {hand[q][e], NoToken}
        BY <1>1 DEF ClaimRows, TypeInv, TypeOK
    <2>2. \A e \in Events : status'[e] = IF e \in batch THEN "publishing" ELSE status[e]
        BY <1>1 DEF ClaimRows
    <2>3. UNCHANGED attempts
        BY <1>1 DEF ClaimRows
    <2> QED BY <2>1, <2>2, <2>3 DEF HandsClaimed, TypeInv, Waiting
<1> QED BY <1>5, <1>6, <1>7 DEF TypeInv

\* The report of a failed publish uses one attempt, and gives the event up with
\* the last.
LEMMA FinalizeTypeInv ==
    ASSUME TypeInv, NEW p \in Publishers, NEW e \in Events, Finalize(p, e)
    PROVE  TypeInv'
<1>1. \A q \in Publishers, f \in Events : hand'[q][f] \in {hand[q][f], NoToken}
    BY DEF Finalize, TypeInv, TypeOK
<1>2. CASE ~HoldsClaim(p, e)
    <2>1. TypeOK' /\ AttemptsLeft'
        BY <1>2 DEF Finalize, TypeInv, TypeOK, AttemptsLeft, rowVars
    <2>2. HandsClaimed'
        BY <1>1, <1>2, DropKeepsClaimed DEF Finalize, rowVars, TypeInv
    <2> QED BY <2>1, <2>2 DEF TypeInv
<1>3. CASE HoldsClaim(p, e)
    <2>1. attempts[e] \in 0 .. MaxAttempts /\ attempts[e] # MaxAttempts /\ now[p] \in Time
        BY <1>3 DEF HoldsClaim, TypeInv, TypeOK, AttemptsLeft
    <2>2. Cap(now[p] + RetryDelay) \in Time
        BY <2>1, CapTime, BoundAssumption DEF Time
    <2>3. /\ lease' = [lease EXCEPT ![e] = NoLease]
          /\ token' = [token EXCEPT ![e] = NoToken]
          /\ UNCHANGED <<clock, copies, now, aborts, overrun>>
          /\ pc' = [pc EXCEPT ![p] = "batch"]
          /\ hand' = [hand EXCEPT ![p][e] = NoToken]
          /\ cur' = [cur EXCEPT ![p] = NoEvent]
          /\ raised' = [raised EXCEPT ![p] = FALSE]
        BY <1>3 DEF Finalize
    <2>4. ASSUME NEW s, NEW n \in 0 .. MaxAttempts, NEW t \in Time,
                 s \in {"published", "failed_retryable", "failed_terminal"},
                 s = "failed_terminal" <=> n = MaxAttempts,
                 s = "failed_retryable" => n > 0,
                 status' = [status EXCEPT ![e] = s],
                 attempts' = [attempts EXCEPT ![e] = n],
                 nextAt' = [nextAt EXCEPT ![e] = t]
          PROVE  TypeInv'
        <3>1. TypeOK'
            BY <2>3, <2>4 DEF TypeInv, TypeOK, Waiting, Settled
        <3>2. AttemptsLeft'
            BY <2>4 DEF TypeInv, TypeOK, AttemptsLeft
        <3>3. HandsClaimed'
            BY <1>1, <2>4 DEF TypeInv, TypeOK, HandsClaimed, Waiting
        <3> QED BY <3>1, <3>2, <3>3 DEF TypeInv
    <2>5. CASE raised[p]
        <3> DEFINE n == attempts[e] + 1
                   s == IF Exhausted(n) THEN "failed_terminal" ELSE "failed_retryable"
                   t == IF Exhausted(n) THEN now[p] ELSE Cap(now[p] + RetryDelay)
        <3>1. n \in 0 .. MaxAttempts /\ n > 0
            BY <2>1, BoundAssumption
        <3>2. s = "failed_terminal" <=> n = MaxAttempts
            BY <3>1, BoundAssumption DEF Exhausted
        <3>3. t \in Time
            BY <2>1, <2>2
        <3>4. /\ attempts' = [attempts EXCEPT ![e] = n]
              /\ status' = [status EXCEPT ![e] = s]
              /\ nextAt' = [nextAt EXCEPT ![e] = t]
            BY <1>3, <2>5 DEF Finalize, Report, MarkPublishFailed
        <3>5. s \in {"failed_retryable", "failed_terminal"}
            OBVIOUS
        <3> HIDE DEF n, s, t
        <3> QED BY <2>4, <3>1, <3>2, <3>3, <3>4, <3>5
    <2>6. CASE ~raised[p]
        <3>1. /\ attempts' = [attempts EXCEPT ![e] = attempts[e]]
              /\ status' = [status EXCEPT ![e] = "published"]
              /\ nextAt' = [nextAt EXCEPT ![e] = now[p]]
            BY <1>3, <2>6 DEF Finalize, Report, MarkPublished, TypeInv, TypeOK
        <3> QED BY <2>1, <2>4, <3>1
    <2> QED BY <2>5, <2>6
<1> QED BY <1>2, <1>3

\* TypeInv is inductive.
LEMMA NextTypeInv == ASSUME TypeInv, [Next]_vars PROVE TypeInv'
<1>1. CASE Tick
    BY <1>1, BoundAssumption
    DEF Tick, TypeInv, TypeOK, AttemptsLeft, HandsClaimed, rowVars, publisherVars, Time
<1>2. ASSUME NEW e \in Events, Add(e) PROVE TypeInv'
    <2>1. TypeOK'
        BY <1>2 DEF Add, TypeInv, TypeOK, publisherVars, Waiting
    <2>2. AttemptsLeft'
        BY <1>2 DEF Add, TypeInv, TypeOK, AttemptsLeft
    <2>3. HandsClaimed'
        BY <1>2 DEF Add, TypeInv, TypeOK, HandsClaimed, publisherVars, Waiting
    <2> QED BY <2>1, <2>2, <2>3 DEF TypeInv
<1>3. ASSUME NEW p \in Publishers, Begin(p) PROVE TypeInv'
    BY <1>3 DEF Begin, TypeInv, TypeOK, AttemptsLeft, HandsClaimed, rowVars
<1>4. ASSUME NEW p \in Publishers, Claim(p) PROVE TypeInv'
    BY <1>4, ClaimTypeInv
<1>5. ASSUME NEW p \in Publishers, NEW e \in Events, NEW stored \in BOOLEAN,
             NEW error \in BOOLEAN, Publish(p, e, stored, error)
      PROVE  TypeInv'
    <2>1. copies' \in [Events -> 0 .. MaxCopies]
        BY <1>5, BoundAssumption DEF Publish, TypeInv, TypeOK, MaxCopies
    <2>2. TypeOK'
        BY <1>5, <2>1 DEF Publish, TypeInv, TypeOK, rowVars
    <2>3. AttemptsLeft' /\ HandsClaimed'
        BY <1>5 DEF Publish, TypeInv, AttemptsLeft, HandsClaimed, rowVars
    <2> QED BY <2>2, <2>3 DEF TypeInv
<1>6. ASSUME NEW p \in Publishers, NEW e \in Events, Finalize(p, e) PROVE TypeInv'
    BY <1>6, FinalizeTypeInv
<1>7. ASSUME NEW p \in Publishers, EndBatch(p) PROVE TypeInv'
    BY <1>7, BoundAssumption
    DEF EndBatch, TypeInv, TypeOK, AttemptsLeft, HandsClaimed, rowVars, Time
<1>8. ASSUME NEW p \in Publishers, Abort(p) PROVE TypeInv'
    <2>1. TypeOK'
        BY <1>8, BoundAssumption DEF Abort, TypeInv, TypeOK, rowVars, Time
    <2>2. \A q \in Publishers, f \in Events : hand'[q][f] \in {hand[q][f], NoToken}
        BY <1>8 DEF Abort, TypeInv, TypeOK
    <2>3. AttemptsLeft' /\ HandsClaimed'
        BY <1>8, <2>2, DropKeepsClaimed DEF Abort, TypeInv, AttemptsLeft, rowVars
    <2> QED BY <2>1, <2>3 DEF TypeInv
<1>9. CASE UNCHANGED vars
    BY <1>9 DEF vars, TypeInv, TypeOK, AttemptsLeft, HandsClaimed, rowVars, publisherVars
<1> QED
    BY <1>1, <1>2, <1>3, <1>4, <1>5, <1>6, <1>7, <1>8, <1>9 DEF Next, PublisherStep

\* TypeInv holds throughout.
LEMMA TypeInvAlways == Spec => []TypeInv
BY InitTypeInv, NextTypeInv, PTL DEF Spec

\* Every reachable state is well typed; in particular no event is tried more
\* than MaxAttempts times, although its row is written by several publishers.
THEOREM OutboxTypeCorrect == Spec => []TypeOK
<1>1. TypeInv => TypeOK
    BY DEF TypeInv
<1> QED BY <1>1, TypeInvAlways, PTL

-----------------------------------------------------------------------------
(* The fence of claim tokens *)

\* An event is claimed under a token, and no two publishers hold it: the two
\* halves of ClaimExclusive.
Fenced == \A e \in Events : status[e] = "publishing" <=> token[e] # NoToken
OneHolder ==
    \A e \in Events, p, q \in Publishers :
        token[e] # NoToken /\ hand[p][e] = token[e] /\ hand[q][e] = token[e] => p = q

LEMMA ClaimExclusiveParts == ClaimExclusive <=> Fenced /\ OneHolder
BY DEF ClaimExclusive, Fenced, OneHolder

\* A claim stores for each event it takes a token that no publisher holds.
LEMMA FreshTokenIsFresh ==
    ASSUME NEW e \in Events, Tokens \ TokensInUse(e) # {}
    PROVE  /\ FreshToken(e) # NoToken
           /\ \A p \in Publishers : FreshToken(e) # hand[p][e]
<1>1. FreshToken(e) \in Tokens /\ FreshToken(e) \notin TokensInUse(e)
    BY DEF FreshToken
<1> QED BY <1>1, NullAssumption DEF TokensInUse

\* A step that leaves the tokens of the rows alone and takes claims out of hands.
LEMMA DropKeepsOneHolder ==
    ASSUME OneHolder,
           \A e \in Events : token'[e] \in {token[e], NoToken},
           \A p \in Publishers, e \in Events : hand'[p][e] \in {hand[p][e], NoToken}
    PROVE  OneHolder'
BY DEF OneHolder

\* What the claim transaction leaves in the rows and in the hands.
LEMMA ClaimEffect ==
    ASSUME TypeOK, NEW p \in Publishers, Claim(p)
    PROVE  \E batch \in SUBSET Publishable(p) :
            /\ batch \subseteq Events
            /\ \A e \in batch : /\ FreshToken(e) # NoToken
                                /\ \A q \in Publishers : FreshToken(e) # hand[q][e]
            /\ \A e \in Events :
                /\ status'[e] = IF e \in batch THEN "publishing" ELSE status[e]
                /\ token'[e] = IF e \in batch THEN FreshToken(e) ELSE token[e]
                /\ hand'[p][e] = IF e \in batch THEN FreshToken(e) ELSE NoToken
                /\ \A q \in Publishers : q # p => hand'[q][e] = hand[q][e]
                /\ overrun'[e] = (overrun[e] \/ (e \in batch /\ status[e] = "publishing"
                                                    /\ LeaseOver(e, now[p])))
            /\ UNCHANGED <<attempts, copies, cur, raised>>
            /\ pc[p] = "claiming" /\ pc' = [pc EXCEPT ![p] = "batch"]
<1>1. PICK batch \in SUBSET Publishable(p) : ClaimRows(p, batch)
    BY DEF Claim
<1>2. batch \subseteq Events
    BY DEF Publishable
<1>3. \A e \in batch : /\ FreshToken(e) # NoToken
                       /\ \A q \in Publishers : FreshToken(e) # hand[q][e]
    BY <1>1, <1>2, FreshTokenIsFresh DEF ClaimRows
<1>4. \A e \in Events :
        /\ hand'[p][e] = IF e \in batch THEN FreshToken(e) ELSE NoToken
        /\ \A q \in Publishers : q # p => hand'[q][e] = hand[q][e]
    BY <1>1 DEF ClaimRows, TypeOK
<1>5. \A e \in Events :
        /\ status'[e] = IF e \in batch THEN "publishing" ELSE status[e]
        /\ token'[e] = IF e \in batch THEN FreshToken(e) ELSE token[e]
        /\ overrun'[e] = (overrun[e] \/ (e \in batch /\ status[e] = "publishing"
                                            /\ LeaseOver(e, now[p])))
    BY <1>1 DEF ClaimRows
<1>6. /\ UNCHANGED <<attempts, copies, cur, raised>>
      /\ pc[p] = "claiming" /\ pc' = [pc EXCEPT ![p] = "batch"]
    BY <1>1 DEF ClaimRows
<1> HIDE DEF FreshToken
<1> QED BY <1>2, <1>3, <1>4, <1>5, <1>6

\* The claim transaction keeps the fence.
LEMMA ClaimKeepsExclusive ==
    ASSUME TypeOK, Fenced, OneHolder, NEW p \in Publishers, Claim(p)
    PROVE  Fenced' /\ OneHolder'
<1>1. PICK batch \in SUBSET Publishable(p) :
        /\ \A e \in batch : /\ FreshToken(e) # NoToken
                            /\ \A q \in Publishers : FreshToken(e) # hand[q][e]
        /\ \A e \in Events :
            /\ status'[e] = IF e \in batch THEN "publishing" ELSE status[e]
            /\ token'[e] = IF e \in batch THEN FreshToken(e) ELSE token[e]
            /\ hand'[p][e] = IF e \in batch THEN FreshToken(e) ELSE NoToken
            /\ \A q \in Publishers : q # p => hand'[q][e] = hand[q][e]
    BY ClaimEffect
<1>2. Fenced'
    BY <1>1 DEF Fenced
<1>3. OneHolder'
    BY <1>1 DEF OneHolder
<1> QED BY <1>2, <1>3

\* The report releases the claim it finds and leaves any other alone.
LEMMA FinalizeKeepsExclusive ==
    ASSUME TypeOK, Fenced, OneHolder, NEW p \in Publishers, NEW e \in Events, Finalize(p, e)
    PROVE  Fenced' /\ OneHolder'
<1>1. \A q \in Publishers, f \in Events : hand'[q][f] \in {hand[q][f], NoToken}
    BY DEF Finalize, TypeOK
<1>2. CASE HoldsClaim(p, e)
    <2>1. token' = [token EXCEPT ![e] = NoToken]
        BY <1>2 DEF Finalize
    <2>2. PICK s : s # "publishing" /\ status' = [status EXCEPT ![e] = s]
        BY <1>2 DEF Finalize, Report, MarkPublished, MarkPublishFailed
    <2>3. Fenced'
        BY <2>1, <2>2 DEF Fenced, TypeOK
    <2>4. \A f \in Events : token'[f] \in {token[f], NoToken}
        BY <2>1 DEF TypeOK
    <2> QED BY <1>1, <2>3, <2>4, DropKeepsOneHolder
<1>3. CASE ~HoldsClaim(p, e)
    <2>1. UNCHANGED <<status, token>>
        BY <1>3 DEF Finalize, rowVars
    <2> QED BY <1>1, <2>1, DropKeepsOneHolder DEF Fenced
<1> QED BY <1>2, <1>3

\* The fence is inductive.
LEMMA NextKeepsExclusive ==
    ASSUME TypeOK, Fenced, OneHolder, [Next]_vars PROVE Fenced' /\ OneHolder'
<1>1. ASSUME UNCHANGED <<status, token>>,
             \A p \in Publishers, e \in Events : hand'[p][e] \in {hand[p][e], NoToken}
      PROVE  Fenced' /\ OneHolder'
    BY <1>1, DropKeepsOneHolder DEF Fenced
<1>2. ASSUME UNCHANGED <<status, token, hand>> PROVE Fenced' /\ OneHolder'
    BY <1>1, <1>2
<1>3. ASSUME NEW e \in Events, Add(e) PROVE Fenced' /\ OneHolder'
    BY <1>3 DEF Add, Fenced, OneHolder, TypeOK, publisherVars
<1>4. ASSUME NEW p \in Publishers, Abort(p) PROVE Fenced' /\ OneHolder'
    <2>1. \A q \in Publishers, e \in Events : hand'[q][e] \in {hand[q][e], NoToken}
        BY <1>4 DEF Abort, TypeOK
    <2> QED BY <1>1, <1>4, <2>1 DEF Abort, rowVars
<1> QED
    BY <1>2, <1>3, <1>4, ClaimKeepsExclusive, FinalizeKeepsExclusive
    DEF Next, PublisherStep, Tick, Begin, Publish, EndBatch, vars, rowVars, publisherVars

\* The invariant of types and fence.
FenceInv == TypeInv /\ Fenced /\ OneHolder

LEMMA FenceInvAlways == Spec => []FenceInv
<1>1. Init => Fenced /\ OneHolder
    BY NullAssumption DEF Init, Fenced, OneHolder
<1>2. TypeInv /\ Fenced /\ OneHolder /\ [Next]_vars => Fenced' /\ OneHolder'
    BY NextKeepsExclusive DEF TypeInv
<1> QED BY <1>1, <1>2, TypeInvAlways, PTL DEF Spec, FenceInv

\* A claimed event has a token, and at most one publisher holds it.
THEOREM OutboxClaimsExclusive == Spec => []ClaimExclusive
<1>1. FenceInv => ClaimExclusive
    BY ClaimExclusiveParts DEF FenceInv
<1> QED BY <1>1, FenceInvAlways, PTL

\* A step by which publisher p drops the event it works on is its report or its
\* crash; the report finds the row only under the token p holds.
LEMMA NextStaleReport ==
    ASSUME TypeOK, [Next]_vars, NEW p \in Publishers, NEW e \in Events
    PROVE  StaleReportIgnored(p, e)
<1> DEFINE RowSame == UNCHANGED <<status[e], attempts[e], nextAt[e], lease[e], token[e]>>
<1> SUFFICES ASSUME cur[p] = e, cur'[p] = NoEvent, hand[p][e] # token[e] PROVE RowSame
    BY DEF StaleReportIgnored
<1>1. cur' # cur
    BY NullAssumption
<1>2. ASSUME NEW q \in Publishers, NEW f \in Events, Finalize(q, f) PROVE RowSame
    <2>1. q = p /\ f = e
        BY <1>2, NullAssumption DEF Finalize, TypeOK
    <2>2. ~HoldsClaim(p, e)
        BY DEF HoldsClaim
    <2> QED BY <1>2, <2>1, <2>2 DEF Finalize, rowVars
<1>3. ASSUME NEW q \in Publishers, NEW f \in Events, NEW stored, NEW error,
             Publish(q, f, stored, error)
      PROVE  RowSame
    BY <1>3 DEF Publish, rowVars
<1>4. ASSUME NEW q \in Publishers, Claim(q) PROVE FALSE
    BY <1>1, <1>4 DEF Claim, ClaimRows
<1>5. ASSUME NEW q \in Publishers, Abort(q) PROVE RowSame
    BY <1>5 DEF Abort, rowVars
<1> HIDE DEF RowSame
<1> QED
    BY <1>1, <1>2, <1>3, <1>4, <1>5
    DEF Next, PublisherStep, Tick, Add, Begin, EndBatch, vars, publisherVars

\* A publisher that reports on a claim that was taken over changes nothing.
THEOREM OutboxStaleReportsIgnored == Spec => StaleClaimHarmless
<1>1. TypeOK /\ [Next]_vars =>
        \A p \in Publishers, e \in Events : StaleReportIgnored(p, e)
    BY NextStaleReport
<1> QED BY <1>1, OutboxTypeCorrect, PTL DEF Spec, StaleClaimHarmless

-----------------------------------------------------------------------------
(* The copies on the topic *)

\* A publish that did not raise has stored the event, and so has the one that
\* was recorded.
Stored ==
    \A p \in Publishers, e \in Events :
        pc[p] = "finalizing" /\ cur[p] = e /\ ~raised[p] => copies[e] > 0
PublishedStored == \A e \in Events : status[e] = "published" => copies[e] > 0

\* Claims of an event are disjoint in time while no lease ran out.
HeldUnlessOverrun ==
    \A e \in Events, p \in Publishers :
        ~overrun[e] /\ hand[p][e] # NoToken => hand[p][e] = token[e]

\* Publisher p has sent the event under its claim; some claim is not sent yet.
Sent(p, e) == pc[p] = "finalizing" /\ cur[p] = e
Unsent(e) == \E p \in Publishers : hand[p][e] # NoToken /\ ~Sent(p, e)

\* Without an overrun only the claim in progress may have stored a copy that is
\* not recorded.
CopiesRow(e) ==
    ~overrun[e] =>
        /\ copies[e] =< attempts[e] + 1
        /\ status[e] \notin {"publishing", "published"} \/ Unsent(e)
            => copies[e] =< attempts[e]

TopicInv ==
    /\ Stored
    /\ PublishedStored
    /\ HeldUnlessOverrun
    /\ \A e \in Events : CopiesRow(e)

\* Nothing is on the topic at first.
LEMMA InitTopicInv == Init => TopicInv
BY BoundAssumption
DEF Init, TopicInv, Stored, PublishedStored, HeldUnlessOverrun, CopiesRow, Unsent

\* A step that keeps the rows and the topic, and drops claims or what was sent
\* together with its claim.
LEMMA DropKeepsTopic ==
    ASSUME TopicInv,
           UNCHANGED <<status, attempts, token, copies, overrun>>,
           \A p \in Publishers, e \in Events :
                /\ hand'[p][e] \in {hand[p][e], NoToken}
                /\ hand'[p][e] # NoToken => (Sent(p, e)' <=> Sent(p, e))
                /\ Sent(p, e)' => Sent(p, e) /\ raised'[p] = raised[p]
    PROVE  TopicInv'
<1>1. Stored'
    BY DEF TopicInv, Stored, Sent
<1>2. PublishedStored' /\ HeldUnlessOverrun'
    BY DEF TopicInv, PublishedStored, HeldUnlessOverrun
<1>3. \A e \in Events : Unsent(e)' => Unsent(e)
    BY DEF Unsent
<1>4. \A e \in Events : CopiesRow(e)'
    BY <1>3 DEF TopicInv, CopiesRow
<1> QED BY <1>1, <1>2, <1>4 DEF TopicInv

\* The claim transaction: the new claim of a waiting event has sent nothing.
LEMMA ClaimKeepsTopic ==
    ASSUME FenceInv, TopicInv, NEW p \in Publishers, Claim(p) PROVE TopicInv'
<1>1. PICK batch \in SUBSET Publishable(p) :
        /\ \A e \in Events :
            /\ status'[e] = IF e \in batch THEN "publishing" ELSE status[e]
            /\ token'[e] = IF e \in batch THEN FreshToken(e) ELSE token[e]
            /\ hand'[p][e] = IF e \in batch THEN FreshToken(e) ELSE NoToken
            /\ \A q \in Publishers : q # p => hand'[q][e] = hand[q][e]
            /\ overrun'[e] = (overrun[e] \/ (e \in batch /\ status[e] = "publishing"
                                                /\ LeaseOver(e, now[p])))
        /\ UNCHANGED <<attempts, copies, cur, raised>>
        /\ pc[p] = "claiming" /\ pc' = [pc EXCEPT ![p] = "batch"]
    BY ClaimEffect DEF FenceInv, TypeInv
<1>2. \A q \in Publishers, e \in Events : Sent(q, e)' <=> Sent(q, e)
    BY <1>1 DEF Sent, FenceInv, TypeInv, TypeOK
<1>3. \A e \in batch : ~overrun'[e] => ~overrun[e] /\ status[e] \in Waiting
    BY <1>1, BatchOpen
<1>4. Stored'
    BY <1>1, <1>2 DEF TopicInv, Stored, Sent
<1>5. PublishedStored'
    BY <1>1 DEF TopicInv, PublishedStored
<1>6. HeldUnlessOverrun'
    <2> SUFFICES ASSUME NEW e \in Events, NEW q \in Publishers,
                        ~overrun'[e], hand'[q][e] # NoToken
                 PROVE  hand'[q][e] = token'[e]
        BY DEF HeldUnlessOverrun
    <2>1. CASE e \in batch
        <3>1. token[e] = NoToken
            BY <1>3, <2>1 DEF FenceInv, Fenced, Waiting
        <3>2. hand[q][e] = NoToken
            BY <1>3, <2>1, <3>1 DEF TopicInv, HeldUnlessOverrun
        <3> QED BY <1>1, <2>1, <3>2
    <2>2. CASE e \notin batch
        BY <1>1, <2>2 DEF TopicInv, HeldUnlessOverrun
    <2> QED BY <2>1, <2>2
<1>7. ASSUME NEW e \in Events PROVE CopiesRow(e)'
    <2>1. CASE e \in batch
        <3>1. ~overrun'[e] => copies[e] =< attempts[e]
            BY <1>3, <2>1 DEF TopicInv, CopiesRow, Waiting
        <3>2. copies[e] \in Nat /\ attempts[e] \in Nat
            BY BoundAssumption DEF FenceInv, TypeInv, TypeOK, MaxCopies
        <3> QED BY <1>1, <3>1, <3>2 DEF CopiesRow
    <2>2. CASE e \notin batch
        <3>1. Unsent(e)' => Unsent(e)
            BY <1>1, <1>2, <2>2 DEF Unsent
        <3> QED BY <1>1, <2>2, <3>1 DEF TopicInv, CopiesRow
    <2> QED BY <2>1, <2>2
<1> QED BY <1>4, <1>5, <1>6, <1>7 DEF TopicInv

\* The broker call: the holder's claim becomes the one that may have stored a
\* copy that is not recorded.
LEMMA PublishKeepsTopic ==
    ASSUME FenceInv, TopicInv, NEW p \in Publishers, NEW e \in Events,
           NEW stored \in BOOLEAN, NEW error \in BOOLEAN, Publish(p, e, stored, error)
    PROVE  TopicInv'
<1>1. /\ pc[p] = "batch" /\ hand[p][e] # NoToken
      /\ pc' = [pc EXCEPT ![p] = "finalizing"] /\ cur' = [cur EXCEPT ![p] = e]
      /\ raised' = [raised EXCEPT ![p] = error]
      /\ copies' = [copies EXCEPT ![e] = IF stored /\ @ < MaxCopies THEN @ + 1 ELSE @]
      /\ UNCHANGED <<status, attempts, token, hand, overrun>>
    BY DEF Publish, rowVars
<1>2. \A f \in Events : copies[f] \in 0 .. MaxCopies /\ attempts[f] \in Nat
    BY BoundAssumption DEF FenceInv, TypeInv, TypeOK
<1>3. /\ \A f \in Events : f # e => copies'[f] = copies[f]
      /\ copies'[e] \in {copies[e], copies[e] + 1}
      /\ ~error => copies'[e] > 0
    <2>1. ~error => stored
        BY DEF Publish
    <2>2. MaxCopies \in Nat /\ MaxCopies > 0
        BY BoundAssumption DEF MaxCopies
    <2>3. copies \in [Events -> 0 .. MaxCopies]
        BY DEF FenceInv, TypeInv, TypeOK
    <2> QED BY <1>1, <1>2, <2>1, <2>2, <2>3
<1>4. \A q \in Publishers, f \in Events :
        /\ q # p => (Sent(q, f)' <=> Sent(q, f)) /\ raised'[q] = raised[q]
        /\ Sent(p, f)' <=> f = e
        /\ ~Sent(p, f)
    BY <1>1 DEF Sent, FenceInv, TypeInv, TypeOK
<1>5. Stored'
    <2> SUFFICES ASSUME NEW q \in Publishers, NEW f \in Events, Sent(q, f)', ~raised'[q]
                 PROVE  copies'[f] > 0
        BY DEF Stored, Sent
    <2>1. CASE q = p
        <3>1. f = e /\ ~error
            BY <1>1, <1>4, <2>1 DEF FenceInv, TypeInv, TypeOK
        <3> QED BY <1>3, <3>1
    <2>2. CASE q # p
        <3>1. copies[f] > 0
            BY <1>4, <2>2 DEF TopicInv, Stored, Sent
        <3> QED BY <1>2, <1>3, <3>1
    <2> QED BY <2>1, <2>2
<1>6. PublishedStored'
    BY <1>1, <1>2, <1>3 DEF TopicInv, PublishedStored
<1>7. HeldUnlessOverrun'
    BY <1>1 DEF TopicInv, HeldUnlessOverrun
<1>8. CopiesRow(e)'
    <2> SUFFICES ASSUME ~overrun[e]
                 PROVE  /\ copies'[e] =< attempts[e] + 1
                        /\ status[e] = "publishing"
                        /\ ~Unsent(e)'
        BY <1>1 DEF CopiesRow
    <2>1. hand[p][e] = token[e] /\ token[e] # NoToken
        BY <1>1 DEF TopicInv, HeldUnlessOverrun
    <2>2. Unsent(e)
        BY <1>1, <1>4 DEF Unsent
    <2>3. copies[e] =< attempts[e]
        BY <2>2 DEF TopicInv, CopiesRow
    <2>4. status[e] = "publishing"
        BY <2>1 DEF FenceInv, Fenced
    <2>5. \A q \in Publishers : hand[q][e] # NoToken => q = p
        BY <2>1 DEF TopicInv, HeldUnlessOverrun, FenceInv, OneHolder
    <2>6. ~Unsent(e)'
        BY <1>1, <1>4, <2>5 DEF Unsent
    <2> QED BY <1>2, <1>3, <2>3, <2>4, <2>6
<1>9. ASSUME NEW f \in Events, f # e PROVE CopiesRow(f)'
    <2>1. Unsent(f)' => Unsent(f)
        BY <1>1, <1>4, <1>9 DEF Unsent
    <2> QED BY <1>1, <1>3, <1>9, <2>1 DEF TopicInv, CopiesRow
<1> QED BY <1>5, <1>6, <1>7, <1>8, <1>9 DEF TopicInv

\* The report: a failure accounts for the copy the claim may have stored.
LEMMA FinalizeKeepsTopic ==
    ASSUME FenceInv, TopicInv, NEW p \in Publishers, NEW e \in Events, Finalize(p, e)
    PROVE  TopicInv'
<1>1. /\ pc' = [pc EXCEPT ![p] = "batch"] /\ cur' = [cur EXCEPT ![p] = NoEvent]
      /\ raised' = [raised EXCEPT ![p] = FALSE]
      /\ hand' = [hand EXCEPT ![p][e] = NoToken]
      /\ pc[p] = "finalizing" /\ cur[p] = e
      /\ UNCHANGED <<copies, overrun>>
    BY DEF Finalize
<1>2. \A q \in Publishers, f \in Events :
        /\ hand'[q][f] \in {hand[q][f], NoToken}
        /\ hand'[q][f] # NoToken => (Sent(q, f)' <=> Sent(q, f))
        /\ Sent(q, f)' => Sent(q, f) /\ raised'[q] = raised[q] /\ q # p
    BY <1>1 DEF Sent, FenceInv, TypeInv, TypeOK
<1>3. CASE ~HoldsClaim(p, e)
    <2>1. UNCHANGED <<status, attempts, token>>
        BY <1>3 DEF Finalize, rowVars
    <2> QED BY <1>1, <1>2, <2>1, DropKeepsTopic
<1>4. CASE HoldsClaim(p, e)
    <2>1. /\ token' = [token EXCEPT ![e] = NoToken]
          /\ \/ /\ raised[p]
                /\ attempts' = [attempts EXCEPT ![e] = @ + 1]
                /\ \E s \in {"failed_terminal", "failed_retryable"} :
                        status' = [status EXCEPT ![e] = s]
             \/ /\ ~raised[p]
                /\ status' = [status EXCEPT ![e] = "published"]
                /\ UNCHANGED attempts
        BY <1>4 DEF Finalize, Report, MarkPublished, MarkPublishFailed
    <2>2. /\ \A f \in Events : f # e => /\ status'[f] = status[f]
                                        /\ attempts'[f] = attempts[f]
                                        /\ token'[f] = token[f]
          /\ token'[e] = NoToken
          /\ \/ raised[p] /\ attempts'[e] = attempts[e] + 1 /\ status'[e] # "published"
             \/ ~raised[p] /\ attempts'[e] = attempts[e] /\ status'[e] = "published"
        BY <2>1 DEF FenceInv, TypeInv, TypeOK
    <2>3. Stored'
        <3> SUFFICES ASSUME NEW q \in Publishers, NEW f \in Events, Sent(q, f)', ~raised'[q]
                     PROVE  copies'[f] > 0
            BY DEF Stored, Sent
        <3>1. Sent(q, f) /\ ~raised[q]
            BY <1>2
        <3> QED BY <1>1, <3>1 DEF TopicInv, Stored, Sent
    <2>4. PublishedStored'
        BY <1>1, <2>2 DEF TopicInv, Stored, PublishedStored
    <2>5. token[e] # NoToken /\ hand[p][e] = token[e]
        BY <1>4 DEF HoldsClaim, FenceInv, Fenced
    <2>6. ~overrun[e] => \A q \in Publishers : hand'[q][e] = NoToken
        <3>1. ~overrun[e] => \A q \in Publishers : hand[q][e] # NoToken => q = p
            BY <2>5 DEF TopicInv, HeldUnlessOverrun, FenceInv, OneHolder
        <3>2. hand'[p][e] = NoToken
            BY <1>1 DEF FenceInv, TypeInv, TypeOK
        <3> QED BY <1>2, <3>1, <3>2
    <2>7. HeldUnlessOverrun'
        BY <1>1, <1>2, <2>2, <2>6 DEF TopicInv, HeldUnlessOverrun
    <2>8. CopiesRow(e)'
        <3>1. ~overrun[e] => ~Unsent(e)'
            BY <2>6 DEF Unsent
        <3>2. ~overrun[e] => copies[e] =< attempts[e] + 1
            BY DEF TopicInv, CopiesRow
        <3>3. copies[e] \in Nat /\ attempts[e] \in Nat
            BY BoundAssumption DEF FenceInv, TypeInv, TypeOK, MaxCopies
        <3> QED BY <1>1, <2>2, <3>1, <3>2, <3>3 DEF CopiesRow
    <2>9. ASSUME NEW f \in Events, f # e PROVE CopiesRow(f)'
        <3>1. Unsent(f)' => Unsent(f)
            BY <1>2 DEF Unsent
        <3> QED BY <1>1, <2>2, <2>9, <3>1 DEF TopicInv, CopiesRow
    <2> QED BY <2>3, <2>4, <2>7, <2>8, <2>9 DEF TopicInv
<1> QED BY <1>3, <1>4

\* TopicInv is inductive over the fence.
LEMMA NextTopicInv == ASSUME FenceInv, TopicInv, [Next]_vars PROVE TopicInv'
<1>1. ASSUME UNCHANGED <<status, attempts, token, copies, overrun, hand, cur, raised>>,
             \A p \in Publishers : pc'[p] = "finalizing" <=> pc[p] = "finalizing"
      PROVE  TopicInv'
    <2>1. \A p \in Publishers, e \in Events : Sent(p, e)' <=> Sent(p, e)
        BY <1>1 DEF Sent
    <2> QED BY <1>1, <2>1, DropKeepsTopic
<1>2. CASE Tick \/ UNCHANGED vars
    BY <1>1, <1>2 DEF Tick, vars, rowVars, publisherVars
<1>3. ASSUME NEW e \in Events, Add(e) PROVE TopicInv'
    <2>1. /\ status[e] = "absent" /\ status' = [status EXCEPT ![e] = "pending"]
          /\ UNCHANGED <<attempts, token, copies, overrun, hand, cur, raised, pc>>
        BY <1>3 DEF Add, publisherVars
    <2>2. \A f \in Events : f # e => status'[f] = status[f]
        BY <2>1 DEF FenceInv, TypeInv, TypeOK
    <2>3. status'[e] = "pending"
        BY <2>1 DEF FenceInv, TypeInv, TypeOK
    <2>4. Stored' /\ HeldUnlessOverrun'
        BY <2>1 DEF TopicInv, Stored, HeldUnlessOverrun
    <2>5. PublishedStored'
        BY <2>1, <2>2, <2>3 DEF TopicInv, PublishedStored
    <2>6. \A f \in Events : Unsent(f)' <=> Unsent(f)
        BY <2>1 DEF Unsent, Sent
    <2>7. \A f \in Events : CopiesRow(f)'
        BY <2>1, <2>2, <2>3, <2>6 DEF TopicInv, CopiesRow
    <2> QED BY <2>4, <2>5, <2>7 DEF TopicInv
<1>4. ASSUME NEW p \in Publishers, Begin(p) PROVE TopicInv'
    BY <1>1, <1>4 DEF Begin, rowVars, FenceInv, TypeInv, TypeOK
<1>5. ASSUME NEW p \in Publishers, EndBatch(p) PROVE TopicInv'
    BY <1>1, <1>5 DEF EndBatch, rowVars, FenceInv, TypeInv, TypeOK
<1>6. ASSUME NEW p \in Publishers, Abort(p) PROVE TopicInv'
    <2>1. \A q \in Publishers, e \in Events :
            /\ hand'[q][e] \in {hand[q][e], NoToken}
            /\ hand'[q][e] # NoToken => (Sent(q, e)' <=> Sent(q, e))
            /\ Sent(q, e)' => Sent(q, e) /\ raised'[q] = raised[q]
        BY <1>6 DEF Abort, Sent, FenceInv, TypeInv, TypeOK
    <2> QED BY <1>6, <2>1, DropKeepsTopic DEF Abort, rowVars
<1> QED
    BY <1>2, <1>3, <1>4, <1>5, <1>6, ClaimKeepsTopic, PublishKeepsTopic, FinalizeKeepsTopic
    DEF Next, PublisherStep

LEMMA TopicInvAlways == Spec => []TopicInv
BY InitTopicInv, NextTopicInv, FenceInvAlways, PTL DEF Spec

\* An event is recorded as published only if the broker has it, and is given up
\* only after all its attempts.
THEOREM OutboxPublishedIsOnTopic == Spec => []PublishedIsOnTopic
<1>1. FenceInv /\ TopicInv => PublishedIsOnTopic
    BY DEF FenceInv, TypeInv, AttemptsLeft, TopicInv, PublishedStored, PublishedIsOnTopic
<1> QED BY <1>1, FenceInvAlways, TopicInvAlways, PTL

\* Each copy beyond the first belongs to a recorded failure, unless a lease of
\* the event ran out.
THEOREM OutboxCopiesAccountedFor == Spec => []CopiesAccountedFor
<1>1. FenceInv /\ TopicInv => CopiesAccountedFor
    <2> SUFFICES ASSUME FenceInv, TopicInv, NEW e \in Events, ~overrun[e]
                 PROVE  copies[e] =< attempts[e]
                            + (IF status[e] \in {"publishing", "published"} THEN 1 ELSE 0)
        BY DEF CopiesAccountedFor
    <2>1. CopiesRow(e)
        BY DEF TopicInv
    <2>2. copies[e] \in Nat /\ attempts[e] \in Nat
        BY BoundAssumption DEF FenceInv, TypeInv, TypeOK, MaxCopies
    <2> QED BY <2>1, <2>2 DEF CopiesRow
<1> QED BY <1>1, FenceInvAlways, TopicInvAlways, PTL

-----------------------------------------------------------------------------
(* Refinement of OutboxLedger *)

\* The ledger's view of the rows.
Phases == [e \in Events |-> Phase(e)]
LedgerVars == <<Phases, attempts, OnTopic>>

\* A step that keeps what the ledger sees.
LEMMA KeptInLedger ==
    ASSUME UNCHANGED <<status, attempts, copies>> PROVE UNCHANGED LedgerVars
BY DEF LedgerVars, Phases, Phase, OnTopic

\* Every step is one of the ledger's or invisible to it.
LEMMA NextRefinesLedger ==
    ASSUME FenceInv, TopicInv, [Next]_vars PROVE Ledger!Next \/ UNCHANGED LedgerVars
<1>1. CASE Tick \/ UNCHANGED vars
    BY <1>1, KeptInLedger DEF Tick, vars, rowVars
<1>2. ASSUME NEW e \in Events, Add(e) PROVE Ledger!Next
    <2>1. status[e] = "absent" /\ status' = [status EXCEPT ![e] = "pending"]
          /\ UNCHANGED <<attempts, copies>>
        BY <1>2 DEF Add
    <2>2. Phases' = [Phases EXCEPT ![e] = "open"]
        BY <2>1 DEF Phases, Phase, FenceInv, TypeInv, TypeOK, Waiting
    <2>3. Phases[e] = "absent" /\ UNCHANGED OnTopic
        BY <2>1 DEF Phases, Phase, OnTopic, Waiting
    <2>4. Ledger!Add(e)
        BY <2>1, <2>2, <2>3 DEF Ledger!Add, Phases
    <2> QED BY <2>4 DEF Ledger!Next
<1>3. ASSUME NEW p \in Publishers, Claim(p) PROVE Ledger!Next
    <2>1. PICK batch \in SUBSET Publishable(p) :
            /\ batch \subseteq Events
            /\ \A e \in Events :
                status'[e] = IF e \in batch THEN "publishing" ELSE status[e]
            /\ UNCHANGED <<attempts, copies>>
        BY <1>3, ClaimEffect DEF FenceInv, TypeInv
    <2>2. \A e \in batch : status[e] \in Waiting \cup {"publishing"}
        BY BatchOpen
    <2>3. \A e \in batch : Phases[e] \in {"open", "claimed"}
        BY <2>1, <2>2 DEF Phases, Phase, Waiting
    <2>4. Phases' = [e \in Events |-> IF e \in batch THEN "claimed" ELSE Phases[e]]
        BY <2>1 DEF Phases, Phase, Waiting
    <2>5. UNCHANGED OnTopic
        BY <2>1 DEF OnTopic
    <2>6. Ledger!Take(batch)
        BY <2>1, <2>3, <2>4, <2>5 DEF Ledger!Take, Phases
    <2> QED BY <2>1, <2>6 DEF Ledger!Next
<1>4. ASSUME NEW p \in Publishers, NEW e \in Events, NEW stored \in BOOLEAN,
             NEW error \in BOOLEAN, Publish(p, e, stored, error)
      PROVE  Ledger!Next \/ UNCHANGED LedgerVars
    <2>1. /\ hand[p][e] # NoToken
          /\ UNCHANGED <<status, attempts>>
          /\ copies' = [copies EXCEPT ![e] = IF stored /\ @ < MaxCopies THEN @ + 1 ELSE @]
        BY <1>4 DEF Publish, rowVars
    <2>2. copies \in [Events -> 0 .. MaxCopies] /\ MaxCopies \in Nat /\ MaxCopies > 0
        BY BoundAssumption DEF FenceInv, TypeInv, TypeOK, MaxCopies
    <2>3. UNCHANGED Phases
        BY <2>1 DEF Phases, Phase
    <2>4. CASE ~stored
        <3>1. copies' = copies
            BY <2>1, <2>2, <2>4
        <3> QED BY <2>1, <3>1, KeptInLedger
    <2>5. CASE stored
        <3>1. OnTopic' = OnTopic \cup {e}
            BY <2>1, <2>2, <2>5 DEF OnTopic
        <3>2. /\ status[e] # "absent"
              /\ status[e] \in Waiting => attempts[e] > 0
            BY <2>1 DEF FenceInv, TypeInv, HandsClaimed
        <3>3. /\ Phases[e] # "absent"
              /\ Phases[e] = "open" => attempts[e] > 0
            BY <3>2 DEF Phases, Phase, FenceInv, TypeInv, TypeOK, Waiting, Settled
        <3>4. Ledger!Store(e)
            BY <2>1, <2>3, <3>1, <3>3 DEF Ledger!Store, Ledger!WasClaimed, Phases
        <3> QED BY <3>4 DEF Ledger!Next
    <2> QED BY <2>4, <2>5
<1>5. ASSUME NEW p \in Publishers, NEW e \in Events, Finalize(p, e)
      PROVE  Ledger!Next \/ UNCHANGED LedgerVars
    <2>1. CASE ~HoldsClaim(p, e)
        BY <1>5, <2>1, KeptInLedger DEF Finalize, rowVars
    <2>2. CASE HoldsClaim(p, e)
        <3>1. Phases[e] = "claimed" /\ status[e] = "publishing"
            BY <2>2 DEF HoldsClaim, Phases, Phase, Waiting
        <3>2. UNCHANGED <<copies, OnTopic>>
            BY <1>5 DEF Finalize, OnTopic
        <3>3. CASE ~raised[p]
            <4>1. status' = [status EXCEPT ![e] = "published"] /\ UNCHANGED attempts
                BY <1>5, <2>2, <3>3 DEF Finalize, Report, MarkPublished
            <4>2. Phases' = [Phases EXCEPT ![e] = "published"]
                BY <4>1 DEF Phases, Phase, FenceInv, TypeInv, TypeOK, Waiting
            <4>3. e \in OnTopic
                BY <1>5, <3>3 DEF Finalize, TopicInv, Stored, OnTopic
            <4>4. Ledger!ReportPublished(e)
                BY <3>1, <3>2, <4>1, <4>2, <4>3 DEF Ledger!ReportPublished, Phases
            <4> QED BY <4>4 DEF Ledger!Next
        <3>4. CASE raised[p]
            <4>1. attempts[e] \in 0 .. MaxAttempts /\ attempts[e] # MaxAttempts
                BY <3>1 DEF FenceInv, TypeInv, TypeOK, AttemptsLeft
            <4>2. attempts[e] < MaxAttempts /\ attempts[e] \in Nat
                BY <4>1, BoundAssumption
            <4>3. attempts' = [attempts EXCEPT ![e] = attempts[e] + 1]
                BY <1>5, <2>2, <3>4 DEF Finalize, Report, MarkPublishFailed
            <4>4. status' = [status EXCEPT ![e] = IF Exhausted(attempts[e] + 1)
                                                 THEN "failed_terminal" ELSE "failed_retryable"]
                BY <1>5, <2>2, <3>4 DEF Finalize, Report, MarkPublishFailed
            <4>5. Exhausted(attempts[e] + 1) <=> ~(attempts[e] + 1 < MaxAttempts)
                BY <4>2, BoundAssumption DEF Exhausted
            <4>6. Phases' = [Phases EXCEPT ![e] = IF attempts[e] + 1 < MaxAttempts
                                                  THEN "open" ELSE "failed_terminal"]
                BY <4>4, <4>5 DEF Phases, Phase, FenceInv, TypeInv, TypeOK, Waiting
            <4>7. Ledger!ReportFailed(e)
                BY <3>1, <3>2, <4>2, <4>3, <4>6 DEF Ledger!ReportFailed, Phases
            <4> QED BY <4>7 DEF Ledger!Next
        <3> QED BY <3>3, <3>4
    <2> QED BY <2>1, <2>2
<1>6. ASSUME NEW p \in Publishers, Begin(p) \/ EndBatch(p) \/ Abort(p)
      PROVE  UNCHANGED LedgerVars
    BY <1>6, KeptInLedger DEF Begin, EndBatch, Abort, rowVars
<1> QED BY <1>1, <1>2, <1>3, <1>4, <1>5, <1>6 DEF Next, PublisherStep

\* Publishers with leases and tokens, slow or dead, implement the abstract ledger
\* of events.
THEOREM PublishersImplementLedger == Spec => LedgerSpec
<1>1. Init => Ledger!Init
    <2> SUFFICES ASSUME Init PROVE Ledger!Init
        OBVIOUS
    <2>1. Phases = [e \in Events |-> "absent"] /\ OnTopic = {}
        BY DEF Init, Phases, Phase, OnTopic, Waiting
    <2> QED BY <2>1 DEF Init, Ledger!Init, Phases
<1>2. FenceInv /\ TopicInv /\ [Next]_vars =>
        [Ledger!Next]_<<[e \in Events |-> Phase(e)], attempts, OnTopic>>
    BY NextRefinesLedger DEF LedgerVars, Phases
<1> QED
    BY <1>1, <1>2, FenceInvAlways, TopicInvAlways, PTL DEF Spec, LedgerSpec, Ledger!Spec
=============================================================================
