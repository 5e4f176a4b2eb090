--------------------- MODULE NotificationConsumerProofs ---------------------
(***************************************************************************)
(* Proofs about NotificationConsumer, for any log, any number of           *)
(* partitions, consumers and disruptions.                                  *)
(***************************************************************************)
EXTENDS NotificationConsumer, FiniteSetTheorems, TLAPS

LEMMA RecordType ==
    ASSUME NEW p \in Partitions, NEW i \in 1 .. Len(Log[p]) PROVE <<p, i>> \in LogRecords
BY DEF LogRecords

LEMMA RecordParts ==
    ASSUME NEW r \in LogRecords
    PROVE  /\ r[1] \in Partitions
           /\ r[2] \in 1 .. Len(Log[r[1]])
           /\ r = <<r[1], r[2]>>
           /\ Content(r) \in Events \cup {Invalid}
<1>1. PICK p \in Partitions : \E i \in 1 .. Len(Log[p]) : r = <<p, i>>
    BY DEF LogRecords
<1>2. PICK i \in 1 .. Len(Log[p]) : r = <<p, i>>
    BY <1>1
<1>3. Log[p] \in Seq(Events \cup {Invalid})
    BY LogAssumption
<1>4. Log[p][i] \in Events \cup {Invalid}
    BY <1>3
<1> QED BY <1>2, <1>4 DEF Content

-----------------------------------------------------------------------------
(* Types *)

\* TypeOK, with the domains of the offsets, and a record in the hands of whoever
\* is not idle.
ConsumerType ==
    /\ owner \in [Partitions -> Consumers]
    /\ committed \in [Partitions -> Nat]
    /\ position \in [Partitions -> Nat]
    /\ \A p \in Partitions : committed[p] =< position[p] /\ position[p] =< Len(Log[p])
    /\ pc \in [Consumers ->
                {"idle", "received", "handling", "marking", "committing"}]
    /\ record \in [Consumers -> LogRecords \cup {NoRecord}]
    /\ \A c \in Consumers : pc[c] # "idle" => record[c] \in LogRecords
    /\ \A c \in Consumers :
        pc[c] \in {"handling", "marking"} => Content(record[c]) \in Events
    /\ processed \subseteq Events
    /\ audience \subseteq Users
    /\ recipients \subseteq Users
    /\ deadLetters \subseteq LogRecords
    /\ abandoned \subseteq LogRecords
    /\ handled \in [Events -> 0 .. MaxHandled]
    /\ disruptions \in Nat

LEMMA LengthType == \A p \in Partitions : Len(Log[p]) \in Nat
BY LogAssumption

LEMMA TypeInit == Init => ConsumerType
BY BoundAssumption, LengthType DEF Init, ConsumerType, MaxHandled

LEMMA TypeNext == ASSUME ConsumerType, [Next]_vars PROVE ConsumerType'
<1> USE DEF kafkaVars, tableVars, boundVars
<1>1. ASSUME NEW c \in Consumers, NEW p \in Partitions, Consume(c, p) PROVE ConsumerType'
    <2>1. /\ position[p] + 1 \in 1 .. Len(Log[p])
          /\ position[p] \in Nat
        BY <1>1, LengthType DEF Consume, HasRecord, ConsumerType
    <2>2. <<p, position[p] + 1>> \in LogRecords
        BY <2>1, RecordType
    <2>3. /\ position' \in [Partitions -> Nat]
          /\ committed' = committed /\ owner' = owner
          /\ \A q \in Partitions : committed'[q] =< position'[q] /\ position'[q] =< Len(Log[q])
        BY <1>1, <2>1, LengthType DEF Consume, ConsumerType
    <2>4. /\ record' \in [Consumers -> LogRecords \cup {NoRecord}]
          /\ pc' \in [Consumers -> {"idle", "received", "handling", "marking", "committing"}]
          /\ \A b \in Consumers : pc'[b] # "idle" => record'[b] \in LogRecords
          /\ \A b \in Consumers :
                pc'[b] \in {"handling", "marking"} => pc'[b] = pc[b] /\ record'[b] = record[b]
        BY <1>1, <2>2 DEF Consume, ConsumerType
    <2>5. \A b \in Consumers :
                pc'[b] \in {"handling", "marking"} => Content(record'[b]) \in Events
        BY <2>4 DEF ConsumerType
    <2>6. UNCHANGED <<processed, audience, recipients, deadLetters, abandoned, handled, disruptions>>
        BY <1>1 DEF Consume
    <2> QED BY <2>3, <2>4, <2>5, <2>6 DEF ConsumerType, Content
<1>2. ASSUME NEW c \in Consumers, DeadLetter(c) PROVE ConsumerType'
    BY <1>2 DEF DeadLetter, ConsumerType, Content
<1>3. ASSUME NEW c \in Consumers, Check(c) PROVE ConsumerType'
    <2>1. Content(record[c]) \in Events
        BY <1>3, RecordParts DEF Check, ConsumerType
    <2> QED BY <1>3, <2>1 DEF Check, ConsumerType, Content
<1>4. ASSUME NEW c \in Consumers, Handle(c) PROVE ConsumerType'
    <2>1. handled' \in [Events -> 0 .. MaxHandled]
        BY <1>4, BoundAssumption DEF Handle, ConsumerType, MaxHandled
    <2>2. /\ recipients' \subseteq Users
          /\ pc' \in [Consumers -> {"idle", "received", "handling", "marking", "committing"}]
          /\ \A b \in Consumers :
                (pc'[b] # "idle") = (pc[b] # "idle")
                /\ (pc'[b] \in {"handling", "marking"}) = (pc[b] \in {"handling", "marking"})
        BY <1>4 DEF Handle, ConsumerType
    <2> QED BY <1>4, <2>1, <2>2 DEF Handle, ConsumerType, Content
<1>5. ASSUME NEW c \in Consumers, HandleTooLarge(c) \/ MarkConflict(c) PROVE ConsumerType'
    <2>1. record[c] \in LogRecords
        BY <1>5 DEF HandleTooLarge, MarkConflict, ConsumerType
    <2>2. abandoned' \subseteq LogRecords
        BY <1>5, <2>1 DEF HandleTooLarge, MarkConflict, ConsumerType
    <2>3. /\ pc' = [pc EXCEPT ![c] = "idle"] /\ record' = [record EXCEPT ![c] = NoRecord]
          /\ UNCHANGED <<owner, committed, position, processed, deadLetters, recipients,
                         audience, handled, disruptions>>
        BY <1>5 DEF HandleTooLarge, MarkConflict, Drop
    <2> QED BY <2>2, <2>3 DEF ConsumerType, Content
<1>6. ASSUME NEW c \in Consumers, Mark(c) PROVE ConsumerType'
    BY <1>6 DEF Mark, ConsumerType, Content
<1>7. ASSUME NEW c \in Consumers, Commit(c) PROVE ConsumerType'
    BY <1>7, LengthType DEF Commit, Drop, ConsumerType, Content
<1>8. ASSUME NEW c \in Consumers, Raise(c) PROVE ConsumerType'
    <2>1. record[c] \in LogRecords
        BY <1>8 DEF Raise, ConsumerType
    <2>2. deadLetters' \subseteq LogRecords /\ abandoned' \subseteq LogRecords
        BY <1>8, <2>1 DEF Raise, ConsumerType
    <2>3. /\ pc' = [pc EXCEPT ![c] = "idle"] /\ record' = [record EXCEPT ![c] = NoRecord]
          /\ disruptions' = disruptions + 1
          /\ UNCHANGED <<owner, committed, position, processed, recipients, audience, handled>>
        BY <1>8 DEF Raise, Drop
    <2> QED BY <2>2, <2>3 DEF ConsumerType, Content
<1>9. ASSUME NEW c \in Consumers, Crash(c) PROVE ConsumerType'
    BY <1>9, LengthType DEF Crash, ResumeOffset, Drop, ConsumerType, Content
<1>10. CASE Rebalance
    BY <1>10, LengthType DEF Rebalance, ResumeOffset, ConsumerType, Content
<1>11. CASE ChangeAudience
    BY <1>11 DEF ChangeAudience, ConsumerType, Content
<1>12. CASE UNCHANGED vars
    BY <1>12 DEF vars, ConsumerType, Content
<1> QED
    BY <1>1, <1>2, <1>3, <1>4, <1>5, <1>6, <1>7, <1>8, <1>9, <1>10, <1>11, <1>12
    DEF Next, ConsumerStep

LEMMA TypeAlways == Spec => []ConsumerType
BY TypeInit, TypeNext, PTL DEF Spec

\* Offsets stay within the log, records in hand are records of the log, and a
\* position is never behind the committed offset.
THEOREM ConsumerTypeCorrect == Spec => []TypeOK
<1>1. ConsumerType => TypeOK
    BY LengthType DEF ConsumerType, TypeOK
<1> QED BY <1>1, TypeAlways, PTL

\* No step moves a committed offset back.
THEOREM CommitsMoveForward == Spec => CommitForward
<1>1. ASSUME ConsumerType, [Next]_vars
      PROVE  [\A p \in Partitions : committed'[p] >= committed[p]]_vars
    <2> SUFFICES ASSUME Next, NEW p \in Partitions PROVE committed'[p] >= committed[p]
        BY <1>1
    <2>1. committed[p] \in Nat /\ position[p] \in Nat /\ committed[p] =< position[p]
        BY <1>1 DEF ConsumerType
    <2>2. committed' = committed \/ committed'[p] \in {committed[p], position[p]}
        BY DEF Next, ConsumerStep, Consume, DeadLetter, Check, Handle, HandleTooLarge, Mark,
               MarkConflict, Commit, Raise, Crash, Rebalance, ChangeAudience, kafkaVars
    <2> QED BY <2>1, <2>2
<1> QED BY <1>1, TypeAlways, PTL DEF Spec, CommitForward
-----------------------------------------------------------------------------
(* Accounting of committed records *)

\* The owner of its partition is working on record r.
InHand(r) == pc[owner[r[1]]] # "idle" /\ record[owner[r[1]]] = r

\* Of the records read since the offset was committed at most the one in hand
\* is open; whoever is about to commit has closed it.
AccountInv ==
    /\ CommittedAccountedFor
    /\ \A r \in LogRecords : r[2] =< position[r[1]] => AccountedFor(r) \/ InHand(r)
    /\ \A c \in Consumers : pc[c] = "committing" => AccountedFor(record[c])

\* What became of a record is never undone.
LEMMA AccountedStays ==
    ASSUME [Next]_vars PROVE \A r : AccountedFor(r) => AccountedFor(r)'
<1>1. processed \subseteq processed' /\ deadLetters \subseteq deadLetters'
      /\ abandoned \subseteq abandoned'
    BY DEF Next, ConsumerStep, Consume, DeadLetter, Check, Handle, HandleTooLarge, Mark,
           MarkConflict, Commit, Raise, Crash, Rebalance, ChangeAudience, tableVars, vars
<1> QED BY <1>1 DEF AccountedFor, Content

\* A consumer goes on with its record, which it commits only when it is
\* accounted for, or drops it when it is.
HandSafe(c) ==
    \/ pc[c] = "idle" /\ pc'[c] = "idle"
    \/ /\ record'[c] = record[c]
       /\ pc'[c] # "idle"
       /\ pc'[c] = "committing" => AccountedFor(record[c])'
    \/ /\ \A r : r = record[c] => AccountedFor(r)'
       /\ pc'[c] = "idle"

\* Steps that leave the offsets alone.
LEMMA HandsAccount ==
    ASSUME ConsumerType, AccountInv, UNCHANGED kafkaVars, \A c \in Consumers : HandSafe(c),
           \A r : AccountedFor(r) => AccountedFor(r)'
    PROVE  AccountInv'
<1>1. CommittedAccountedFor'
    BY DEF AccountInv, CommittedAccountedFor, kafkaVars
<1>2. ASSUME NEW r \in LogRecords, r[2] =< position'[r[1]] PROVE AccountedFor(r)' \/ InHand(r)'
    <2>1. owner[r[1]] \in Consumers
        BY RecordParts DEF ConsumerType
    <2>2. AccountedFor(r) \/ InHand(r)
        BY <1>2 DEF AccountInv, kafkaVars
    <2>3. CASE AccountedFor(r)
        BY <2>3
    <2>4. CASE InHand(r)
        BY <2>1, <2>4 DEF InHand, HandSafe, kafkaVars
    <2> QED BY <2>2, <2>3, <2>4
<1>3. ASSUME NEW c \in Consumers, pc'[c] = "committing" PROVE AccountedFor(record[c])'
    BY <1>3 DEF HandSafe
<1> QED BY <1>1, <1>2, <1>3 DEF AccountInv

LEMMA AccountInit == Init => AccountInv
<1> SUFFICES ASSUME Init PROVE AccountInv
    OBVIOUS
<1>1. \A r \in LogRecords : ~(r[2] =< committed[r[1]]) /\ ~(r[2] =< position[r[1]])
    BY RecordParts DEF Init
<1>2. \A c \in Consumers : pc[c] # "committing"
    BY DEF Init
<1> QED BY <1>1, <1>2 DEF AccountInv, CommittedAccountedFor

LEMMA ConsumeAccount ==
    ASSUME ConsumerType, AccountInv, NEW c \in Consumers, NEW p \in Partitions, Consume(c, p),
           \A r : AccountedFor(r) => AccountedFor(r)'
    PROVE  AccountInv'
<1>1. /\ pc[c] = "idle" /\ owner[p] = c /\ owner' = owner /\ committed' = committed
      /\ position' = [position EXCEPT ![p] = position[p] + 1]
      /\ pc'[c] = "received" /\ record'[c] = <<p, position[p] + 1>>
      /\ \A b \in Consumers : b # c => pc'[b] = pc[b] /\ record'[b] = record[b]
    BY DEF Consume, ConsumerType
<1>2. CommittedAccountedFor'
    BY <1>1 DEF AccountInv, CommittedAccountedFor
<1>3. ASSUME NEW r \in LogRecords, r[2] =< position'[r[1]] PROVE AccountedFor(r)' \/ InHand(r)'
    <2>1. r[1] \in Partitions /\ r = <<r[1], r[2]>> /\ r[2] \in Nat /\ position[p] \in Nat
          /\ owner[r[1]] \in Consumers
        BY RecordParts, LengthType DEF ConsumerType
    <2>2. CASE r = <<p, position[p] + 1>>
        BY <1>1, <2>2 DEF InHand
    <2>3. CASE r # <<p, position[p] + 1>>
        <3>1. r[2] =< position[r[1]]
            BY <1>1, <1>3, <2>1, <2>3 DEF ConsumerType
        <3>2. AccountedFor(r) \/ InHand(r)
            BY <3>1 DEF AccountInv
        <3> QED BY <1>1, <2>1, <3>2 DEF InHand
    <2> QED BY <2>2, <2>3
<1>4. ASSUME NEW b \in Consumers, pc'[b] = "committing" PROVE AccountedFor(record[b])'
    <2>1. b # c /\ pc[b] = "committing" /\ record'[b] = record[b]
        BY <1>1, <1>4
    <2> QED BY <2>1 DEF AccountInv
<1> QED BY <1>2, <1>3, <1>4 DEF AccountInv

LEMMA CommitAccount ==
    ASSUME ConsumerType, AccountInv, NEW c \in Consumers, Commit(c),
           \A r : AccountedFor(r) => AccountedFor(r)'
    PROVE  AccountInv'
<1>1. /\ pc[c] = "committing" /\ owner' = owner /\ position' = position
      /\ \A p \in Partitions :
            committed'[p] = IF owner[p] = c THEN position[p] ELSE committed[p]
      /\ pc'[c] = "idle"
      /\ \A b \in Consumers : b # c => pc'[b] = pc[b] /\ record'[b] = record[b]
    BY DEF Commit, Drop, ConsumerType
<1>2. ASSUME NEW r \in LogRecords, r[2] =< position[r[1]] PROVE AccountedFor(r)' \/ InHand(r)'
    <2>1. r[1] \in Partitions /\ owner[r[1]] \in Consumers
        BY RecordParts DEF ConsumerType
    <2>2. AccountedFor(r) \/ InHand(r)
        BY <1>2 DEF AccountInv
    <2>3. CASE InHand(r) /\ owner[r[1]] = c
        BY <1>1, <2>3 DEF InHand, AccountInv
    <2>4. CASE InHand(r) /\ owner[r[1]] # c
        BY <1>1, <2>1, <2>4 DEF InHand
    <2> QED BY <2>2, <2>3, <2>4
<1>3. ASSUME NEW r \in LogRecords, r[2] =< committed'[r[1]] PROVE AccountedFor(r)'
    <2>1. r[1] \in Partitions /\ owner[r[1]] \in Consumers
        BY RecordParts DEF ConsumerType
    <2>2. CASE owner[r[1]] = c
        <3>1. r[2] =< position[r[1]]
            BY <1>1, <1>3, <2>1, <2>2
        <3>2. ~InHand(r)'
            BY <1>1, <2>2 DEF InHand
        <3> QED BY <1>2, <3>1, <3>2
    <2>3. CASE owner[r[1]] # c
        BY <1>1, <1>3, <2>1, <2>3 DEF AccountInv, CommittedAccountedFor
    <2> QED BY <2>2, <2>3
<1>4. ASSUME NEW b \in Consumers, pc'[b] = "committing" PROVE AccountedFor(record[b])'
    <2>1. b # c /\ pc[b] = "committing" /\ record'[b] = record[b]
        BY <1>1, <1>4
    <2> QED BY <2>1 DEF AccountInv
<1> QED BY <1>1, <1>2, <1>3, <1>4 DEF AccountInv, CommittedAccountedFor

\* Whoever starts again from the committed offset has nothing open.
LEMMA ResumeAccount ==
    ASSUME ConsumerType, AccountInv, committed' = committed,
           \A p \in Partitions :
                \/ position'[p] = committed[p]
                \/ /\ position'[p] = position[p] /\ owner'[p] = owner[p]
                   /\ pc'[owner[p]] = pc[owner[p]] /\ record'[owner[p]] = record[owner[p]],
           \A c \in Consumers : pc'[c] = "committing" => pc[c] = "committing" /\ record'[c] = record[c],
           \A r : AccountedFor(r) => AccountedFor(r)'
    PROVE  AccountInv'
<1>1. CommittedAccountedFor'
    BY DEF AccountInv, CommittedAccountedFor
<1>2. ASSUME NEW r \in LogRecords, r[2] =< position'[r[1]] PROVE AccountedFor(r)' \/ InHand(r)'
    <2>1. r[1] \in Partitions
        BY RecordParts
    <2>2. CASE position'[r[1]] = committed[r[1]]
        BY <1>2, <2>2 DEF AccountInv, CommittedAccountedFor
    <2>3. CASE position'[r[1]] # committed[r[1]]
        BY <1>2, <2>1, <2>3 DEF AccountInv, InHand
    <2> QED BY <2>2, <2>3
<1>3. ASSUME NEW c \in Consumers, pc'[c] = "committing" PROVE AccountedFor(record[c])'
    BY <1>3 DEF AccountInv
<1> QED BY <1>1, <1>2, <1>3 DEF AccountInv

LEMMA AccountNext == ASSUME ConsumerType, AccountInv, [Next]_vars PROVE AccountInv'
<1>0. \A r : AccountedFor(r) => AccountedFor(r)'
    BY AccountedStays
<1> DEFINE Others(c) == \A b \in Consumers : b # c => pc'[b] = pc[b] /\ record'[b] = record[b]
<1>a. ASSUME NEW c \in Consumers, Others(c), HandSafe(c) PROVE \A b \in Consumers : HandSafe(b)
    <2>1. ASSUME NEW b \in Consumers, b # c PROVE HandSafe(b)
        BY <1>0, <1>a, <2>1 DEF HandSafe, AccountInv
    <2> QED BY <1>a, <2>1
<1>1. ASSUME NEW c \in Consumers, NEW p \in Partitions, Consume(c, p) PROVE AccountInv'
    BY <1>0, <1>1, ConsumeAccount
<1>2. ASSUME NEW c \in Consumers, DeadLetter(c) PROVE AccountInv'
    <2>1. Others(c) /\ HandSafe(c) /\ UNCHANGED kafkaVars
        BY <1>2 DEF DeadLetter, HandSafe, AccountedFor, ConsumerType
    <2> QED BY <1>0, <1>a, <2>1, HandsAccount
<1>3. ASSUME NEW c \in Consumers, Check(c) PROVE AccountInv'
    <2>1. Others(c) /\ HandSafe(c) /\ UNCHANGED kafkaVars
        BY <1>3 DEF Check, AlreadyProcessed, HandSafe, AccountedFor, Content, tableVars, ConsumerType
    <2> QED BY <1>0, <1>a, <2>1, HandsAccount
<1>4. ASSUME NEW c \in Consumers, Handle(c) PROVE AccountInv'
    <2>1. Others(c) /\ HandSafe(c) /\ UNCHANGED kafkaVars
        BY <1>4 DEF Handle, HandSafe, ConsumerType
    <2> QED BY <1>0, <1>a, <2>1, HandsAccount
<1>5. ASSUME NEW c \in Consumers, HandleTooLarge(c) \/ Raise(c) PROVE AccountInv'
    <2>1. Others(c) /\ HandSafe(c) /\ UNCHANGED kafkaVars
        BY <1>5 DEF HandleTooLarge, Raise, Drop, HandSafe, AccountedFor, ConsumerType
    <2> QED BY <1>0, <1>a, <2>1, HandsAccount
<1>6. ASSUME NEW c \in Consumers, Mark(c) PROVE AccountInv'
    <2>1. Others(c) /\ HandSafe(c) /\ UNCHANGED kafkaVars
        BY <1>6 DEF Mark, HandSafe, AccountedFor, Content, ConsumerType
    <2> QED BY <1>0, <1>a, <2>1, HandsAccount
<1>7. ASSUME NEW c \in Consumers, MarkConflict(c) PROVE AccountInv'
    <2>1. Others(c) /\ HandSafe(c) /\ UNCHANGED kafkaVars
        BY <1>7 DEF MarkConflict, Drop, HandSafe, AccountedFor, Content, tableVars, ConsumerType
    <2> QED BY <1>0, <1>a, <2>1, HandsAccount
<1>8. ASSUME NEW c \in Consumers, Commit(c) PROVE AccountInv'
    BY <1>0, <1>8, CommitAccount
<1>9. ASSUME NEW c \in Consumers, Crash(c) PROVE AccountInv'
    BY <1>0, <1>9, ResumeAccount DEF Crash, ResumeOffset, Drop, ConsumerType
<1>10. CASE Rebalance
    BY <1>0, <1>10, ResumeAccount DEF Rebalance, ResumeOffset
<1>11. CASE ChangeAudience \/ UNCHANGED vars
    <2>1. UNCHANGED <<kafkaVars, pc, record>>
        BY <1>11 DEF ChangeAudience, vars
    <2>2. \A c \in Consumers : HandSafe(c)
        BY <1>0, <2>1 DEF HandSafe, AccountInv
    <2> QED BY <1>0, <2>1, <2>2, HandsAccount
<1> QED
    BY <1>1, <1>2, <1>3, <1>4, <1>5, <1>6, <1>7, <1>8, <1>9, <1>10, <1>11 DEF Next, ConsumerStep

\* A record is passed over by a committed offset only if its event is processed,
\* it is dead-lettered, or an exception was raised over it.
THEOREM CommitsAreAccountedFor == Spec => []CommittedAccountedFor
<1>1. Spec => []AccountInv
    BY AccountInit, AccountNext, TypeAlways, PTL DEF Spec
<1> QED BY <1>1, PTL DEF AccountInv

-----------------------------------------------------------------------------
(* Repeated fanouts *)

Working(e, points) == {c \in Consumers : pc[c] \in points /\ Content(record[c]) = e}
Early == {"received", "handling"}

\* The owner of the partition of event e is working on a copy of it.
Held(e) ==
    \E c \in Consumers :
        /\ pc[c] \in {"received", "handling", "marking"}
        /\ Content(record[c]) = e
        /\ owner[record[c][1]] = c

Budget(e) == disruptions + (IF Held(e) THEN 1 ELSE 0)

\* The fanouts of an event that were or may yet be completed are paid for by the
\* disruptions and, until it is marked, by the owner that holds it.
HandledRow(e) ==
    /\ e \in processed => handled[e] + Cardinality(Working(e, {"handling"})) =< 1 + disruptions
    /\ e \notin processed => handled[e] + Cardinality(Working(e, Early)) =< Budget(e)

HandledInv == \A e \in Events : HandledRow(e)

LEMMA WorkingFinite ==
    ASSUME NEW e, NEW points
    PROVE  /\ IsFiniteSet(Working(e, points))
           /\ Cardinality(Working(e, points)) \in Nat
           /\ IsFiniteSet(Working(e, points)')
           /\ Cardinality(Working(e, points)') \in Nat
BY FS_Subset, FS_CardinalityType, ConsumersAssumption DEF Working

LEMMA HandledInit == Init => HandledInv
<1> SUFFICES ASSUME Init, NEW e \in Events PROVE HandledRow(e)
    BY DEF HandledInv
<1>1. Working(e, Early) = {}
    BY DEF Init, Working, Early
<1>2. e \notin processed /\ handled[e] = 0 /\ disruptions = 0
    BY DEF Init
<1>3. Cardinality(Working(e, Early)) = 0
    BY <1>1, FS_EmptySet
<1> QED BY <1>2, <1>3 DEF HandledRow, Budget

\* Steps that complete no fanout of e, let nobody begin one that was not about
\* to, and lose the owner's share only at the price of a disruption.
LEMMA HandledKept ==
    ASSUME ConsumerType, ConsumerType', NEW e \in Events, HandledRow(e),
           handled'[e] = handled[e], processed \subseteq processed',
           disruptions' >= disruptions,
           e \notin processed => Working(e, Early)' \subseteq Working(e, Early),
           e \in processed => Working(e, {"handling"})' \subseteq Working(e, {"handling"}),
           e \notin processed' => disruptions' >= disruptions + 1 \/ (Held(e) => Held(e)')
    PROVE  HandledRow(e)'
<1>1. handled[e] \in Nat /\ disruptions \in Nat /\ disruptions' \in Nat
    BY BoundAssumption DEF ConsumerType, MaxHandled
<1> DEFINE E == Cardinality(Working(e, Early))
           H == Cardinality(Working(e, {"handling"}))
<1>2. E \in Nat /\ H \in Nat /\ E' \in Nat /\ H' \in Nat
    BY WorkingFinite
<1>3. H' =< E'
    <2>1. Working(e, {"handling"})' \subseteq Working(e, Early)'
        BY DEF Working, Early
    <2> QED BY <2>1, WorkingFinite, FS_Subset
<1>4. e \notin processed => E' =< E
    BY WorkingFinite, FS_Subset
<1>5. e \in processed => H' =< H
    BY WorkingFinite, FS_Subset
<1>6. /\ e \in processed => handled[e] + H =< 1 + disruptions
      /\ e \notin processed => handled[e] + E =< Budget(e)
    BY DEF HandledRow
<1>7. /\ Budget(e) \in Nat /\ Budget(e)' \in Nat /\ Budget(e) =< 1 + disruptions
      /\ e \notin processed' => Budget(e) =< Budget(e)'
    BY <1>1 DEF Budget
<1> HIDE DEF E, H
<1>8. ASSUME e \in processed' PROVE handled'[e] + H' =< 1 + disruptions'
    <2>1. CASE e \in processed
        <3>1. handled[e] + H =< 1 + disruptions /\ H' =< H
            BY <1>5, <1>6, <2>1
        <3> QED BY <1>1, <1>2, <3>1
    <2>2. CASE e \notin processed
        <3>1. handled[e] + E =< Budget(e) /\ E' =< E
            BY <1>4, <1>6, <2>2
        <3> QED BY <1>1, <1>2, <1>3, <1>7, <3>1
    <2> QED BY <2>1, <2>2
<1>9. ASSUME e \notin processed' PROVE handled'[e] + E' =< Budget(e)'
    <2>1. e \notin processed /\ Budget(e) =< Budget(e)'
        BY <1>7, <1>9
    <2>2. handled[e] + E =< Budget(e) /\ E' =< E
        BY <1>4, <1>6, <2>1
    <2> QED BY <1>1, <1>2, <1>7, <2>1, <2>2
<1> QED BY <1>8, <1>9 DEF HandledRow, E, H

\* The owner of its partition, which was idle, takes an unprocessed event.
LEMMA HandledConsume ==
    ASSUME ConsumerType, ConsumerType', HandledInv, NEW c \in Consumers, NEW p \in Partitions,
           Consume(c, p), NEW e \in Events
    PROVE  HandledRow(e)'
<1> DEFINE r == <<p, position[p] + 1>>
<1>1. /\ pc[c] = "idle" /\ owner[p] = c /\ owner' = owner
      /\ pc'[c] = "received" /\ record'[c] = r
      /\ \A b \in Consumers : b # c => pc'[b] = pc[b] /\ record'[b] = record[b]
      /\ UNCHANGED <<handled, processed, disruptions>>
    BY DEF Consume, ConsumerType, tableVars, boundVars
<1>2. disruptions \in Nat /\ HandledRow(e)
    BY DEF ConsumerType, HandledInv
<1>3. r \in LogRecords
    BY <1>1 DEF ConsumerType
<1>4. Working(e, {"handling"})' \subseteq Working(e, {"handling"})
    BY <1>1 DEF Working, Content
<1>5. CASE e \in processed
    BY <1>1, <1>2, <1>4, <1>5, HandledKept
<1>6. CASE Content(r) # e
    <2>1. Working(e, Early)' \subseteq Working(e, Early)
        BY <1>1, <1>6 DEF Working, Early, Content
    <2>2. Held(e) => Held(e)'
        BY <1>1 DEF Held, Content
    <2> QED BY <1>1, <1>2, <1>4, <2>1, <2>2, HandledKept
<1>7. CASE e \notin processed /\ Content(r) = e
    <2>1. Working(e, Early)' = Working(e, Early) \cup {c} /\ c \notin Working(e, Early)
        BY <1>1, <1>7 DEF Working, Early, Content
    <2>2. Cardinality(Working(e, Early)') = Cardinality(Working(e, Early)) + 1
        BY <2>1, WorkingFinite, FS_AddElement
    <2>3. ~Held(e)
        <3> SUFFICES ASSUME NEW b \in Consumers, pc[b] # "idle", Content(record[b]) = e,
                            owner[record[b][1]] = b
                     PROVE  FALSE
            BY DEF Held
        <3>1. record[b] \in LogRecords
            BY DEF ConsumerType
        <3>2. e # Invalid
            BY LogAssumption
        <3>3. record[b][1] = r[1]
            BY <1>3, <1>7, <3>1, <3>2, RecordParts, CopiesAssumption DEF Content
        <3> QED BY <1>1, <3>3
    <2>4. Held(e)'
        BY <1>1, <1>7 DEF Held, Content
    <2>5. handled[e] \in Nat
        BY BoundAssumption DEF ConsumerType, MaxHandled
    <2> QED BY <1>1, <1>2, <1>7, <2>2, <2>3, <2>4, <2>5, WorkingFinite DEF HandledRow, Budget
<1> QED BY <1>5, <1>6, <1>7

\* A completed fanout moves from the ones that may happen to those that did; an
\* audience over the limit ends the work of the consumer.
LEMMA HandledHandle ==
    ASSUME ConsumerType, ConsumerType', HandledInv, NEW c \in Consumers,
           Handle(c) \/ HandleTooLarge(c), NEW e \in Events
    PROVE  HandledRow(e)'
<1>1. /\ pc[c] = "handling" /\ UNCHANGED <<owner, processed, disruptions>>
      /\ pc'[c] \in {"marking", "idle"}
      /\ \A b \in Consumers : b # c => pc'[b] = pc[b] /\ record'[b] = record[b]
    BY DEF Handle, HandleTooLarge, Drop, ConsumerType, kafkaVars, tableVars, boundVars
<1>2. disruptions \in Nat /\ HandledRow(e) /\ handled[e] \in Nat /\ handled'[e] \in Nat
    BY BoundAssumption DEF ConsumerType, HandledInv, MaxHandled
<1>3. CASE Content(record[c]) # e
    <2>1. /\ Working(e, {"handling"})' \subseteq Working(e, {"handling"})
          /\ Working(e, Early)' \subseteq Working(e, Early)
        BY <1>1 DEF Working, Early, Content
    <2>2. Held(e) => Held(e)'
        BY <1>1, <1>3 DEF Held, Content
    <2>3. handled'[e] = handled[e]
        BY <1>3 DEF Handle, HandleTooLarge, ConsumerType
    <2> QED BY <1>1, <1>2, <2>1, <2>2, <2>3, HandledKept
<1>4. CASE Content(record[c]) = e
    <2>1. /\ Working(e, {"handling"})' = Working(e, {"handling"}) \ {c}
          /\ Working(e, Early)' = Working(e, Early) \ {c}
          /\ c \in Working(e, {"handling"}) /\ c \in Working(e, Early)
        BY <1>1, <1>4 DEF Working, Early, Content
    <2>2. /\ Cardinality(Working(e, {"handling"})') = Cardinality(Working(e, {"handling"})) - 1
          /\ Cardinality(Working(e, Early)') = Cardinality(Working(e, Early)) - 1
        BY <2>1, WorkingFinite, FS_RemoveElement
    <2>3. handled'[e] =< handled[e] + 1
        <3>1. handled'[e] \in {handled[e], handled[e] + 1}
            BY <1>4 DEF Handle, HandleTooLarge, ConsumerType
        <3> QED BY <1>2, <3>1
    <2>4. HandleTooLarge(c) => handled'[e] = handled[e]
        BY DEF HandleTooLarge
    <2>5. Handle(c) => (Held(e) => Held(e)')
        <3> SUFFICES ASSUME Handle(c), Held(e) PROVE Held(e)'
            OBVIOUS
        <3>1. pc'[c] = "marking" /\ record' = record /\ owner' = owner
            BY DEF Handle, ConsumerType, kafkaVars
        <3> QED BY <1>1, <3>1 DEF Held, Content
    <2>6. /\ Budget(e) \in Nat /\ Budget(e)' \in Nat /\ Budget(e)' >= Budget(e) - 1
          /\ Handle(c) => Budget(e)' >= Budget(e)
        BY <1>1, <1>2, <2>5 DEF Budget
    <2>7. /\ Cardinality(Working(e, {"handling"})) \in Nat
          /\ Cardinality(Working(e, Early)) \in Nat
        BY WorkingFinite
    <2>8. e \in processed => handled'[e] + Cardinality(Working(e, {"handling"})') =< 1 + disruptions
        BY <1>2, <2>2, <2>3, <2>7 DEF HandledRow
    <2>9. e \notin processed => handled'[e] + Cardinality(Working(e, Early)') =< Budget(e)'
        <3> SUFFICES ASSUME e \notin processed
                     PROVE  handled'[e] + Cardinality(Working(e, Early)') =< Budget(e)'
            OBVIOUS
        <3>1. handled[e] + Cardinality(Working(e, Early)) =< Budget(e)
            BY <1>2 DEF HandledRow
        <3>2. CASE Handle(c)
            BY <1>2, <2>2, <2>3, <2>6, <2>7, <3>1, <3>2
        <3>3. CASE HandleTooLarge(c)
            BY <1>2, <2>2, <2>4, <2>6, <2>7, <3>1, <3>3
        <3> QED BY <3>2, <3>3
    <2> QED BY <1>1, <2>8, <2>9 DEF HandledRow
<1> QED BY <1>3, <1>4

LEMMA HandledNext == ASSUME ConsumerType, HandledInv, [Next]_vars PROVE HandledInv'
<1>0. ConsumerType'
    BY TypeNext
<1> SUFFICES ASSUME NEW e \in Events PROVE HandledRow(e)'
    BY DEF HandledInv
<1>a. HandledRow(e) /\ disruptions \in Nat
    BY DEF HandledInv, ConsumerType
<1> DEFINE Others(c) == \A b \in Consumers : b # c => pc'[b] = pc[b] /\ record'[b] = record[b]
<1>1. ASSUME NEW c \in Consumers, NEW p \in Partitions, Consume(c, p) PROVE HandledRow(e)'
    BY <1>0, <1>1, HandledConsume
<1>2. ASSUME NEW c \in Consumers, DeadLetter(c) PROVE HandledRow(e)'
    <2>1. Content(record[c]) # e /\ Others(c) /\ pc'[c] = "committing"
          /\ UNCHANGED <<owner, processed, handled, disruptions>>
        BY <1>2, LogAssumption DEF DeadLetter, ConsumerType, kafkaVars, boundVars
    <2>2. /\ Working(e, {"handling"})' \subseteq Working(e, {"handling"})
          /\ Working(e, Early)' \subseteq Working(e, Early)
        BY <2>1 DEF Working, Early, Content
    <2>3. Held(e) => Held(e)'
        BY <2>1 DEF Held, Content
    <2> QED BY <1>0, <1>a, <2>1, <2>2, <2>3, HandledKept
<1>3. ASSUME NEW c \in Consumers, Check(c) PROVE HandledRow(e)'
    <2>1. Others(c) /\ pc[c] = "received" /\ record' = record
          /\ pc'[c] = (IF Content(record[c]) \in processed THEN "committing" ELSE "handling")
          /\ UNCHANGED <<owner, processed, handled, disruptions>>
        BY <1>3 DEF Check, AlreadyProcessed, ConsumerType, kafkaVars, tableVars, boundVars
    <2>2. e \in processed => Working(e, {"handling"})' \subseteq Working(e, {"handling"})
        BY <2>1 DEF Working, Content
    <2>3. Working(e, Early)' \subseteq Working(e, Early)
        BY <2>1 DEF Working, Early, Content
    <2>4. e \notin processed => (Held(e) => Held(e)')
        BY <2>1 DEF Held, Content
    <2> QED BY <1>0, <1>a, <2>1, <2>2, <2>3, <2>4, HandledKept
<1>4. ASSUME NEW c \in Consumers, Handle(c) \/ HandleTooLarge(c) PROVE HandledRow(e)'
    BY <1>0, <1>4, HandledHandle
<1>5. ASSUME NEW c \in Consumers, Mark(c) \/ MarkConflict(c) PROVE HandledRow(e)'
    <2>1. /\ Others(c) /\ pc[c] = "marking" /\ pc'[c] \in {"committing", "idle"}
          /\ UNCHANGED <<owner, handled, disruptions>>
          /\ processed' = processed \cup {Content(record[c])}
        BY <1>5 DEF Mark, MarkConflict, Drop, ConsumerType, kafkaVars, tableVars, boundVars
    <2>2. /\ Working(e, {"handling"})' \subseteq Working(e, {"handling"})
          /\ Working(e, Early)' \subseteq Working(e, Early)
        BY <2>1 DEF Working, Early, Content
    <2>3. e \notin processed' => (Held(e) => Held(e)')
        BY <2>1 DEF Held, Content
    <2> QED BY <1>0, <1>a, <2>1, <2>2, <2>3, HandledKept
<1>6. ASSUME NEW c \in Consumers, Commit(c) PROVE HandledRow(e)'
    <2>1. /\ Others(c) /\ pc[c] = "committing" /\ pc'[c] = "idle"
          /\ UNCHANGED <<owner, processed, handled, disruptions>>
        BY <1>6 DEF Commit, Drop, ConsumerType, tableVars, boundVars
    <2>2. /\ Working(e, {"handling"})' \subseteq Working(e, {"handling"})
          /\ Working(e, Early)' \subseteq Working(e, Early)
        BY <2>1 DEF Working, Early, Content
    <2>3. Held(e) => Held(e)'
        BY <2>1 DEF Held, Content
    <2> QED BY <1>0, <1>a, <2>1, <2>2, <2>3, HandledKept
<1>7. ASSUME NEW c \in Consumers, Raise(c) \/ Crash(c) PROVE HandledRow(e)'
    <2>1. /\ Others(c) /\ pc'[c] = "idle" /\ disruptions' = disruptions + 1
          /\ UNCHANGED <<processed, handled>>
        BY <1>7 DEF Raise, Crash, Drop, ConsumerType, tableVars
    <2>3. disruptions' >= disruptions /\ disruptions' >= disruptions + 1
        BY <1>a, <2>1
    <2>2. /\ Working(e, {"handling"})' \subseteq Working(e, {"handling"})
          /\ Working(e, Early)' \subseteq Working(e, Early)
        BY <2>1 DEF Working, Early, Content
    <2> QED BY <1>0, <1>a, <2>1, <2>2, <2>3, HandledKept
<1>8. CASE Rebalance
    <2>1. /\ UNCHANGED <<pc, record, processed, handled>> /\ disruptions' = disruptions + 1
        BY <1>8 DEF Rebalance, tableVars
    <2>3. disruptions' >= disruptions /\ disruptions' >= disruptions + 1
        BY <1>a, <2>1
    <2>2. /\ Working(e, {"handling"})' = Working(e, {"handling"})
          /\ Working(e, Early)' = Working(e, Early)
        BY <2>1 DEF Working, Content
    <2> QED BY <1>0, <1>a, <2>1, <2>2, <2>3, HandledKept
<1>9. CASE ChangeAudience \/ UNCHANGED vars
    <2>1. UNCHANGED <<owner, pc, record, processed, handled, disruptions>>
        BY <1>9 DEF ChangeAudience, vars, kafkaVars, tableVars, boundVars
    <2>2. /\ Working(e, {"handling"})' = Working(e, {"handling"})
          /\ Working(e, Early)' = Working(e, Early) /\ Held(e)' = Held(e)
        BY <2>1 DEF Working, Held, Content
    <2> QED BY <1>0, <1>a, <2>1, <2>2, HandledKept
<1> QED
    BY <1>1, <1>2, <1>3, <1>4, <1>5, <1>6, <1>7, <1>8, <1>9 DEF Next, ConsumerStep

\* However many copies there are, an event is fanned out once, and once more for
\* each crash, exception or rebalance at most.
THEOREM EventsHandledOncePerDisruption == Spec => []HandledOncePerDisruption
<1>1. ConsumerType /\ HandledInv => HandledOncePerDisruption
    <2> SUFFICES ASSUME ConsumerType, HandledInv, NEW e \in Events
                 PROVE  handled[e] =< 1 + disruptions
        BY DEF HandledOncePerDisruption
    <2>1. handled[e] \in Nat /\ disruptions \in Nat /\ HandledRow(e)
        BY BoundAssumption DEF ConsumerType, HandledInv, MaxHandled
    <2> QED BY <2>1, WorkingFinite DEF HandledRow, Budget
<1>2. Spec => []HandledInv
    BY HandledInit, HandledNext, TypeAlways, PTL DEF Spec
<1> QED BY <1>1, <1>2, TypeAlways, PTL


-----------------------------------------------------------------------------
(* What delimits the findings *)

\* A poison record whose offset is committed is on the dead-letter topic or was
\* in the hands of a consumer when an exception was raised: the design's rule
\* for poison records (CommittedIsDeadLettered) fails in no other way.
PoisonPassedOverByExceptions ==
    \A r \in LogRecords :
        r[2] =< committed[r[1]] /\ Content(r) = Invalid
            => r \in deadLetters \/ r \in abandoned

\* Crashes, rebalances and copies alone lose no poison record.
THEOREM PoisonIsDeadLettered == Spec => []PoisonPassedOverByExceptions
<1>1. ConsumerType /\ CommittedAccountedFor => PoisonPassedOverByExceptions
    BY LogAssumption
    DEF ConsumerType, CommittedAccountedFor, AccountedFor, PoisonPassedOverByExceptions
<1> QED BY <1>1, TypeAlways, CommitsAreAccountedFor, PTL

\* As long as the audience has not changed, the fanout of a replay event creates
\* no recipient: the architecture's rule for retries (ReplayKeepsRecipients)
\* fails in no other way than by an audience that grew.
ReplayKeepsUnlessChanged ==
    [][\A c \in Consumers :
        (changes = 0 /\ pc[c] = "handling"
                     /\ TypeOf[Content(record[c])] = "replay_requested"
                     /\ pc'[c] = "marking")
            => recipients' = recipients]_vars

\* A consumer holds a replay only after a fanout, and until the audience changes
\* every fanout leaves the audience in the table of recipients.
WorksOnWritten == \A c \in Consumers : pc[c] # "idle" => Written(record[c])
FirstFanoutComplete == changes = 0 => recipients = {} \/ recipients = audience
ReplayInv ==
    ConsumerType /\ WorksOnWritten /\ FirstFanoutComplete /\ changes \in Nat

LEMMA ReplayInit == Init => ReplayInv
BY TypeInit DEF Init, ReplayInv, WorksOnWritten, FirstFanoutComplete

LEMMA ReplayNext == ASSUME ReplayInv, [Next]_vars PROVE ReplayInv'
<1> USE DEF kafkaVars, tableVars, boundVars
<1>1. ConsumerType /\ ConsumerType'
    BY TypeNext DEF ReplayInv
<1>2. recipients \subseteq recipients'
    BY DEF Next, ConsumerStep, Consume, DeadLetter, Check, Handle, HandleTooLarge, Mark,
           MarkConflict, Commit, Raise, Crash, Rebalance, ChangeAudience, vars
<1>3. ASSUME NEW c \in Consumers, pc'[c] # "idle" PROVE Written(record[c])'
    <2>1. CASE pc[c] # "idle" /\ record'[c] = record[c]
        BY <1>2, <2>1 DEF ReplayInv, WorksOnWritten, Written
    <2>2. CASE \E p \in Partitions : Consume(c, p)
        <3>1. PICK p \in Partitions : Consume(c, p)
            BY <2>2
        <3>2. record'[c] = <<p, position[p] + 1>> /\ Written(<<p, position[p] + 1>>)
            BY <1>1, <3>1 DEF Consume, HasRecord, ConsumerType
        <3> QED BY <1>2, <3>2 DEF Written
    <2>3. \/ pc[c] # "idle" /\ record'[c] = record[c]
          \/ \E p \in Partitions : Consume(c, p)
        <3>1. ASSUME NEW b \in Consumers, ConsumerStep(b) \/ Raise(b) \/ Crash(b)
              PROVE  \/ pc[c] # "idle" /\ record'[c] = record[c]
                     \/ \E p \in Partitions : Consume(c, p)
            BY <1>1, <1>3, <3>1
            DEF ConsumerStep, Consume, DeadLetter, Check, Handle, HandleTooLarge, Mark,
                MarkConflict, Commit, Raise, Crash, Drop, ConsumerType
        <3> QED BY <1>3, <3>1 DEF Next, Rebalance, ChangeAudience, vars
    <2> QED BY <2>1, <2>2, <2>3
<1>4. FirstFanoutComplete'
    <2>1. CASE ChangeAudience
        BY <2>1 DEF ChangeAudience, FirstFanoutComplete, ReplayInv
    <2>2. CASE \E c \in Consumers : Handle(c)
        BY <2>2 DEF Handle, FirstFanoutComplete, ReplayInv
    <2>3. CASE UNCHANGED <<recipients, audience, changes>>
        BY <2>3 DEF FirstFanoutComplete, ReplayInv
    <2> QED
        BY <2>1, <2>2, <2>3
        DEF Next, ConsumerStep, Consume, DeadLetter, Check, HandleTooLarge, Mark,
            MarkConflict, Commit, Raise, Crash, Rebalance, vars
<1>5. changes' \in Nat
    BY DEF ReplayInv, Next, ConsumerStep, Consume, DeadLetter, Check, Handle, HandleTooLarge,
           Mark, MarkConflict, Commit, Raise, Crash, Rebalance, ChangeAudience, vars
<1> QED BY <1>1, <1>3, <1>4, <1>5 DEF ReplayInv, WorksOnWritten

THEOREM ReplaysKeepRecipientsUnlessChanged == Spec => ReplayKeepsUnlessChanged
<1>1. ASSUME ReplayInv, [Next]_vars, NEW c \in Consumers, changes = 0,
             pc[c] = "handling", TypeOf[Content(record[c])] = "replay_requested",
             pc'[c] = "marking"
      PROVE  recipients' = recipients
    <2> USE <1>1
    <2>1. record[c] \in LogRecords /\ Content(record[c]) \in Events
        BY DEF ReplayInv, ConsumerType
    <2>2. record[c][2] \in 1 .. record[c][2]
        BY <2>1, RecordParts, LengthType
    <2>3. recipients # {}
        BY <2>1, <2>2 DEF ReplayInv, WorksOnWritten, Written, Content
    <2>4. recipients' = recipients \/ recipients' = recipients \cup audience
        BY DEF Next, ConsumerStep, Consume, DeadLetter, Check, Handle, HandleTooLarge,
               Mark, MarkConflict, Commit, Raise, Crash, Rebalance, ChangeAudience, vars,
               kafkaVars, tableVars
    <2>5. recipients = audience
        BY <2>3 DEF ReplayInv, FirstFanoutComplete
    <2> QED BY <2>4, <2>5
<1>2. ReplayInv /\ [Next]_vars => ReplayInv'
    BY ReplayNext
<1>3. ReplayInv /\ [Next]_vars =>
        \A c \in Consumers :
            (changes = 0 /\ pc[c] = "handling"
                         /\ TypeOf[Content(record[c])] = "replay_requested"
                         /\ pc'[c] = "marking")
                => recipients' = recipients
    BY <1>1
<1> QED BY <1>2, <1>3, ReplayInit, PTL DEF Spec, ReplayKeepsUnlessChanged

-----------------------------------------------------------------------------
(* Processed events *)

\* An event is recorded as processed only after a fanout of it was completed, so
\* a copy that is skipped as processed has nothing left to do.
ProcessedWasHandled == \A e \in processed : handled[e] >= 1

\* Whoever is about to mark an event has completed its fanout.
MarksHandled == \A c \in Consumers : pc[c] = "marking" => handled[Content(record[c])] >= 1
MarkInv == ConsumerType /\ MarksHandled /\ ProcessedWasHandled

LEMMA MarkNext == ASSUME MarkInv, [Next]_vars PROVE MarkInv'
<1> USE DEF kafkaVars, tableVars, boundVars
<1>1. ConsumerType /\ ConsumerType'
    BY TypeNext DEF MarkInv
<1>2. ASSUME NEW c \in Consumers, Handle(c) PROVE MarksHandled' /\ ProcessedWasHandled'
    <2> DEFINE e == Content(record[c])
    <2>1. e \in Events /\ handled \in [Events -> 0 .. MaxHandled] /\ MaxHandled \in Nat
          /\ MaxHandled >= 1
        BY <1>1, <1>2, BoundAssumption DEF Handle, ConsumerType, MaxHandled
    <2>2. /\ handled' = [handled EXCEPT ![e] = IF @ < MaxHandled THEN @ + 1 ELSE @]
          /\ pc' = [pc EXCEPT ![c] = "marking"]
          /\ UNCHANGED <<record, processed>>
        BY <1>2 DEF Handle
    <2> HIDE DEF e
    <2>3. handled'[e] >= 1 /\ \A d \in Events : handled[d] >= 1 => handled'[d] >= 1
        BY <2>1, <2>2
    <2>4. ProcessedWasHandled'
        BY <1>1, <2>2, <2>3 DEF MarkInv, ProcessedWasHandled, ConsumerType
    <2>5. ASSUME NEW b \in Consumers, pc'[b] = "marking"
          PROVE  handled'[Content(record'[b])] >= 1
        <3>1. CASE b = c
            BY <2>2, <2>3, <3>1 DEF e, Content
        <3>2. CASE b # c
            <4>1. pc[b] = "marking" /\ Content(record[b]) \in Events
                BY <1>1, <2>2, <2>5, <3>2 DEF ConsumerType
            <4>2. handled[Content(record[b])] >= 1
                BY <4>1 DEF MarkInv, MarksHandled
            <4> QED BY <2>2, <2>3, <4>1, <4>2
        <3> QED BY <3>1, <3>2
    <2> QED BY <2>4, <2>5 DEF MarksHandled, Content
<1>3. ASSUME UNCHANGED handled,
             \A b \in Consumers : pc'[b] = "marking" => pc[b] = "marking" /\ record'[b] = record[b]
      PROVE  MarksHandled'
    BY <1>3 DEF MarkInv, MarksHandled, Content
<1>4. ASSUME NEW c \in Consumers, Mark(c) PROVE MarksHandled' /\ ProcessedWasHandled'
    <2>1. handled[Content(record[c])] >= 1
        BY <1>4 DEF Mark, MarkInv, MarksHandled
    <2>2. ProcessedWasHandled'
        BY <1>4, <2>1 DEF Mark, MarkInv, ProcessedWasHandled
    <2>3. \A b \in Consumers : pc'[b] = "marking" => pc[b] = "marking" /\ record'[b] = record[b]
        BY <1>1, <1>4 DEF Mark, ConsumerType
    <2> QED BY <1>3, <1>4, <2>2, <2>3 DEF Mark
<1>5. ASSUME NEW c \in Consumers,
             \/ \E p \in Partitions : Consume(c, p)
             \/ DeadLetter(c) \/ Check(c) \/ HandleTooLarge(c) \/ MarkConflict(c)
             \/ Commit(c) \/ Raise(c) \/ Crash(c)
      PROVE  MarksHandled' /\ ProcessedWasHandled'
    <2>1. UNCHANGED <<handled, processed>>
        BY <1>5 DEF Consume, DeadLetter, Check, HandleTooLarge, MarkConflict, Commit, Raise,
                    Crash
    <2>2. \A b \in Consumers : pc'[b] = "marking" => pc[b] = "marking" /\ record'[b] = record[b]
        BY <1>1, <1>5
        DEF Consume, DeadLetter, Check, HandleTooLarge, MarkConflict, Commit, Raise, Crash,
            Drop, ConsumerType
    <2> QED BY <1>3, <2>1, <2>2 DEF MarkInv, ProcessedWasHandled
<1>6. ASSUME Rebalance \/ ChangeAudience \/ UNCHANGED vars
      PROVE  MarksHandled' /\ ProcessedWasHandled'
    BY <1>6 DEF Rebalance, ChangeAudience, vars, MarkInv, MarksHandled,
                ProcessedWasHandled, Content
<1>7. MarksHandled' /\ ProcessedWasHandled'
    <2>1. ASSUME NEW c \in Consumers, ConsumerStep(c) \/ Raise(c) \/ Crash(c)
          PROVE  MarksHandled' /\ ProcessedWasHandled'
        BY <1>2, <1>4, <1>5, <2>1 DEF ConsumerStep
    <2> QED BY <1>6, <2>1 DEF Next
<1> QED BY <1>1, <1>7 DEF MarkInv

\* Whichever consumer marks an event, whatever was taken from it meanwhile, the
\* fanout of the event was committed before.
THEOREM ProcessedEventsWereHandled == Spec => []ProcessedWasHandled
<1>1. Init => MarkInv
    BY TypeInit DEF Init, MarkInv, MarksHandled, ProcessedWasHandled
<1>2. MarkInv /\ [Next]_vars => MarkInv'
    BY MarkNext
<1>3. MarkInv => ProcessedWasHandled
    BY DEF MarkInv
<1> QED BY <1>1, <1>2, <1>3, PTL DEF Spec

-----------------------------------------------------------------------------
(* The ledger *)

\* What a step is judged by: in the state before it and in the state after.
LedgerInv ==
    /\ ConsumerType /\ CommittedAccountedFor /\ HandledOncePerDisruption
    /\ MarksHandled /\ WorksOnWritten /\ disruptions =< MaxDisruptions

LEMMA LedgerAlways == Spec => []LedgerInv
<1>1. Init => MarkInv /\ disruptions =< MaxDisruptions
    BY TypeInit, BoundAssumption DEF Init, MarkInv, MarksHandled, ProcessedWasHandled
<1>2. ASSUME ConsumerType, disruptions =< MaxDisruptions, [Next]_vars
      PROVE  (disruptions =< MaxDisruptions)'
    BY <1>2, BoundAssumption
    DEF ConsumerType, Next, ConsumerStep, Consume, DeadLetter, Check, Handle, HandleTooLarge,
        Mark, MarkConflict, Commit, Raise, Crash, Rebalance, ChangeAudience, vars, boundVars
<1>3. ASSUME MarkInv, [Next]_vars PROVE MarkInv'
    BY <1>3, MarkNext
<1>4. ASSUME ReplayInv, [Next]_vars PROVE ReplayInv'
    BY <1>4, ReplayNext
<1>5. Spec => [](disruptions =< MaxDisruptions)
    BY <1>1, <1>2, TypeAlways, PTL DEF Spec
<1>6. Spec => []MarkInv /\ []ReplayInv
    BY <1>1, <1>3, <1>4, ReplayInit, PTL DEF Spec
<1>7. MarkInv /\ ReplayInv => MarksHandled /\ WorksOnWritten
    BY DEF MarkInv, ReplayInv
<1>8. ConsumerType /\ CommittedAccountedFor /\ HandledOncePerDisruption /\ MarksHandled
      /\ WorksOnWritten /\ disruptions =< MaxDisruptions => LedgerInv
    BY DEF LedgerInv
<1> QED
    BY <1>5, <1>6, <1>7, <1>8, TypeAlways, CommitsAreAccountedFor,
       EventsHandledOncePerDisruption, PTL

Passed == {r \in LogRecords : r[2] =< committed[r[1]]}

\* The refinement mapping is a function of the state: what it leaves alone.
LEMMA PassedKept == ASSUME committed' = committed PROVE Passed' = Passed
BY DEF Passed

\* The instance of the ledger counts as this module does.
LEMMA SameCardinality == \A S : Ledger!Cardinality(S) = Cardinality(S)
BY DEF Ledger!Cardinality, Cardinality

LEMMA LedgerInit == Init => Ledger!Init
<1> SUFFICES ASSUME Init PROVE Ledger!Init
    OBVIOUS
<1>1. Passed = {}
    BY RecordParts DEF Init, Passed
<1> QED BY <1>1 DEF Init, Ledger!Init, Passed

\* A completed fanout: the budget of the event was not used up.
LEMMA LedgerHandle ==
    ASSUME LedgerInv, LedgerInv', NEW c \in Consumers, Handle(c) PROVE Ledger!Next
<1> DEFINE e == Content(record[c])
<1>1. /\ e \in Events /\ record[c] \in LogRecords
      /\ handled \in [Events -> 0 .. MaxHandled] /\ disruptions \in Nat
      /\ disruptions =< MaxDisruptions /\ handled[e] =< 1 + disruptions
      /\ handled[e] \in Nat
    BY BoundAssumption
    DEF LedgerInv, Handle, ConsumerType, HandledOncePerDisruption, MaxHandled
<1>2. /\ handled' = [handled EXCEPT ![e] = IF @ < MaxHandled THEN @ + 1 ELSE @]
      /\ recipients' = recipients \cup audience /\ Cardinality(audience) =< MaxRecipients
      /\ UNCHANGED <<audience, processed, deadLetters, abandoned, disruptions, committed>>
    BY DEF Handle, kafkaVars, boundVars
<1>3. Passed' = Passed
    BY <1>2, PassedKept
<1>4. TypeOf[e] = "replay_requested" => recipients # {}
    <2>1. record[c][2] \in 1 .. record[c][2]
        BY <1>1, RecordParts, LengthType
    <2>2. Written(record[c])
        BY DEF LedgerInv, WorksOnWritten, Handle
    <2> QED BY <1>1, <2>1, <2>2 DEF Written, Content
<1>5. handled'[e] =< 1 + disruptions
    BY <1>1, <1>2 DEF LedgerInv, HandledOncePerDisruption
<1> HIDE DEF e
<1>6. handled[e] < MaxHandled
    BY <1>1, BoundAssumption DEF MaxHandled
<1>7. handled'[e] = handled[e] + 1 /\ handled' = [handled EXCEPT ![e] = @ + 1]
    BY <1>1, <1>2, <1>6
<1>8. handled[e] =< disruptions
    BY <1>1, <1>5, <1>7
<1>9. Ledger!Fanout(e)
    <2>1. UNCHANGED <<audience, processed, Ledger!topicVars, disruptions>>
        BY <1>2, <1>3 DEF Ledger!topicVars, Passed
    <2> QED BY <1>2, <1>4, <1>7, <1>8, <2>1, SameCardinality DEF Ledger!Fanout
<1> QED BY <1>1, <1>9 DEF Ledger!Next

LEMMA LedgerMark ==
    ASSUME LedgerInv, NEW c \in Consumers, Mark(c) PROVE Ledger!Next
<1> DEFINE e == Content(record[c])
<1>1. e \in Events /\ handled[e] >= 1
    BY DEF LedgerInv, MarksHandled, Mark, ConsumerType
<1>2. Passed' = Passed
    BY PassedKept DEF Mark, kafkaVars
<1>3. Ledger!Mark(e)
    BY <1>1, <1>2 DEF Mark, boundVars, Ledger!Mark, Ledger!topicVars, Passed
<1> QED BY <1>1, <1>3 DEF Ledger!Next

\* Steps about the record in hand.
LEMMA LedgerRecord ==
    ASSUME LedgerInv, NEW c \in Consumers, DeadLetter(c) \/ HandleTooLarge(c) \/ Raise(c)
    PROVE  Ledger!Next
<1>1. record[c] \in LogRecords
    BY DEF LedgerInv, ConsumerType, DeadLetter, HandleTooLarge, Raise
<1>2. Passed' = Passed
    BY PassedKept DEF DeadLetter, HandleTooLarge, Raise, kafkaVars
<1>3. CASE DeadLetter(c)
    <2>1. Ledger!DeadLetter(record[c])
        BY <1>1, <1>2, <1>3 DEF DeadLetter, boundVars, Ledger!DeadLetter, Passed
    <2> QED BY <1>1, <2>1 DEF Ledger!Next
<1>4. CASE HandleTooLarge(c)
    <2>1. Content(record[c]) # Invalid
        BY <1>4, LogAssumption DEF LedgerInv, ConsumerType, HandleTooLarge
    <2>2. [r \in LogRecords |-> Content(r)][record[c]] # Invalid
        BY <1>1, <2>1
    <2>3. /\ Cardinality(audience) > MaxRecipients
          /\ abandoned' = abandoned \cup {record[c]}
          /\ UNCHANGED <<audience, recipients, handled, processed, deadLetters, Passed, disruptions>>
        BY <1>2, <1>4 DEF HandleTooLarge, tableVars, boundVars
    <2>4. Ledger!GiveUp(record[c])
        BY <2>2, <2>3, SameCardinality DEF Ledger!GiveUp, Passed
    <2> QED BY <1>1, <2>4 DEF Ledger!Next
<1>5. CASE Raise(c)
    <2>1. Ledger!Raise(record[c])
        BY <1>1, <1>2, <1>5 DEF Raise, Ledger!Raise, Passed
    <2> QED BY <1>1, <2>1 DEF Ledger!Next
<1> QED BY <1>3, <1>4, <1>5

\* The offsets that are committed move past accounted records only, and none of
\* the records the group has passed over comes back.
LEMMA LedgerCommit ==
    ASSUME LedgerInv, LedgerInv', NEW c \in Consumers, Commit(c) PROVE Ledger!Next
<1>1. \A p \in Partitions :
        committed[p] \in Nat /\ committed'[p] \in Nat /\ committed[p] =< committed'[p]
    BY DEF LedgerInv, ConsumerType, Commit
<1>2. Passed \subseteq Passed'
    <2> SUFFICES ASSUME NEW r \in LogRecords, r[2] =< committed[r[1]]
                 PROVE  r[2] =< committed'[r[1]]
        BY DEF Passed
    <2>1. r[1] \in Partitions /\ r[2] \in Nat
        BY RecordParts, LengthType
    <2> QED BY <1>1, <2>1
<1>3. UNCHANGED <<audience, processed, recipients, deadLetters, abandoned, handled, disruptions>>
    BY DEF Commit, tableVars, boundVars
<1>4. PICK R : R = Passed'
    OBVIOUS
<1>5. ASSUME NEW r \in R PROVE Ledger!AccountedFor(r)
    <2>1. r \in LogRecords /\ r[2] =< committed'[r[1]]
        BY <1>4, <1>5 DEF Passed
    <2>2. Content(r) \in processed \/ r \in deadLetters \/ r \in abandoned
        BY <1>3, <2>1 DEF LedgerInv, CommittedAccountedFor, AccountedFor, Content
    <2> QED BY <2>1, <2>2 DEF Ledger!AccountedFor
<1>6. Ledger!PassOver(R)
    BY <1>2, <1>3, <1>4, <1>5 DEF Ledger!PassOver, Passed
<1>7. R \in SUBSET LogRecords
    BY <1>4 DEF Passed
<1> QED BY <1>6, <1>7 DEF Ledger!Next

\* The consumer group keeps what the ledger promises of every record, for any
\* log and any number of partitions and consumers: every step is one of the
\* ledger's or none of its business.
THEOREM ConsumersImplementLedger == Spec => LedgerSpec
<1> DEFINE ledgerVars ==
        <<audience, recipients, handled, processed, deadLetters, abandoned, Passed, disruptions>>
<1>1. ASSUME LedgerInv, LedgerInv', [Next]_vars PROVE Ledger!Next \/ UNCHANGED ledgerVars
    <2>1. ASSUME NEW c \in Consumers, ConsumerStep(c)
          PROVE  Ledger!Next \/ UNCHANGED ledgerVars
        <3>1. CASE (\E p \in Partitions : Consume(c, p)) \/ Check(c) \/ MarkConflict(c)
            <4>1. UNCHANGED <<audience, recipients, handled, processed, deadLetters, abandoned,
                              committed, disruptions>>
                BY <3>1 DEF Consume, Check, MarkConflict, kafkaVars, tableVars, boundVars
            <4> QED BY <4>1, PassedKept
        <3> QED
            BY <1>1, <2>1, <3>1, LedgerHandle, LedgerMark, LedgerRecord, LedgerCommit
            DEF ConsumerStep
    <2>2. ASSUME NEW c \in Consumers, Raise(c) PROVE Ledger!Next
        BY <1>1, <2>2, LedgerRecord
    <2>3. ASSUME \/ \E c \in Consumers : Crash(c)
                 \/ Rebalance
          PROVE  Ledger!Next
        <3>1. Passed' = Passed
            BY <2>3, PassedKept DEF Crash, Rebalance
        <3>2. Ledger!Disturb
            BY <2>3, <3>1
            DEF Crash, Rebalance, tableVars, Ledger!Disturb, Ledger!topicVars, Passed
        <3> QED BY <3>2 DEF Ledger!Next
    <2>4. ASSUME ChangeAudience PROVE Ledger!Next
        <3>1. Passed' = Passed
            BY <2>4, PassedKept DEF ChangeAudience, kafkaVars
        <3>2. Ledger!ChangeAudience
            BY <2>4, <3>1
            DEF ChangeAudience, tableVars, Ledger!ChangeAudience, Ledger!topicVars, Passed
        <3> QED BY <3>2 DEF Ledger!Next
    <2>5. ASSUME UNCHANGED vars PROVE UNCHANGED ledgerVars
        BY <2>5, PassedKept DEF vars, kafkaVars, tableVars, boundVars
    <2> QED BY <1>1, <2>1, <2>2, <2>3, <2>4, <2>5 DEF Next
<1>2. LedgerInv /\ LedgerInv' /\ [Next]_vars =>
        [Ledger!Next]_<<audience, recipients, handled, processed, Ledger!topicVars, disruptions>>
    BY <1>1 DEF Passed, Ledger!topicVars
<1> QED BY <1>2, LedgerInit, LedgerAlways, PTL DEF Spec, LedgerSpec, Ledger!Spec
=============================================================================
