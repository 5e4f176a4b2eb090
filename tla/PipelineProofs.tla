--------------------------- MODULE PipelineProofs ---------------------------
(***************************************************************************)
(* Proofs about Pipeline and Directory, for every number of demo users,    *)
(* every selection, and every bound.                                       *)
(***************************************************************************)
EXTENDS Pipeline, FiniteSetTheorems, TLAPS

-----------------------------------------------------------------------------
(* The directory *)

\* What a seeding leaves: the profiles, active, with their own labels and groups.
Restored ==
    /\ users = Profiles
    /\ active = Profiles
    /\ userLabels = {<<p[1], p[2], ProfileLabel(p[1], p[2])>> : p \in Profiles \X Keys}
    /\ \A n \in Profiles : <<n, GroupName(n)>> \in memberships

\* The constraints of the tables, and label rows as triples under the seeder's
\* keys.
DirectoryInv ==
    /\ active \subseteq users
    /\ users \subseteq Profiles
    /\ memberships \subseteq users \X groups
    /\ \A r \in userLabels : r = <<r[1], r[2], r[3]>> /\ r[1] \in users /\ r[2] \in Keys
    /\ LabelsUnique
    /\ seeded \in BOOLEAN
    /\ seeded => Restored

LEMMA DirectoryInitInv == DirectoryInit => DirectoryInv
BY DEF DirectoryInit, DirectoryInv, LabelsUnique

\* Seeding over rows an operator edited leaves the rows of the profiles, and no
\* others.
LEMMA SeededLabels ==
    ASSUME DirectoryInv, Seed
    PROVE  userLabels' = {<<p[1], p[2], ProfileLabel(p[1], p[2])>> : p \in Profiles \X Keys}
<1> DEFINE row(p) == <<p[1], p[2], ProfileLabel(p[1], p[2])>>
<1>1. userLabels' = {<<r[1], r[2], EnsuredValue(r)>> : r \in userLabels} \cup InsertedLabels
    BY DEF Seed, EnsuredLabels
<1>2. \A r \in userLabels : <<r[1], r[2]>> \in Profiles \X Keys
    BY DEF DirectoryInv
<1>3. \A r \in userLabels : <<r[1], r[2], EnsuredValue(r)>> = row(<<r[1], r[2]>>)
    BY <1>2 DEF EnsuredValue
<1>4. {<<r[1], r[2], EnsuredValue(r)>> : r \in userLabels} = {row(p) : p \in LabelsByUserKey}
    <2> HIDE DEF row
    <2>1. {<<r[1], r[2], EnsuredValue(r)>> : r \in userLabels}
            = {row(<<r[1], r[2]>>) : r \in userLabels}
        BY <1>3
    <2>2. {row(<<r[1], r[2]>>) : r \in userLabels} = {row(p) : p \in LabelsByUserKey}
        BY DEF LabelsByUserKey
    <2> QED BY <2>1, <2>2
<1>5. InsertedLabels = {row(p) : p \in (Profiles \X Keys) \ LabelsByUserKey}
    BY DEF InsertedLabels
<1>6. LabelsByUserKey \subseteq Profiles \X Keys
    BY <1>2 DEF LabelsByUserKey
<1> HIDE DEF row
<1>7. userLabels' = {row(p) : p \in Profiles \X Keys}
    BY <1>1, <1>4, <1>5, <1>6
<1> QED BY <1>7 DEF row

LEMMA SeedInv == ASSUME DirectoryInv, Seed PROVE DirectoryInv'
<1>1. /\ groups' = groups \cup GroupNames
      /\ users' = users \cup Profiles
      /\ active' = active \cup Profiles
      /\ memberships' = memberships \cup {<<n, GroupName(n)>> : n \in Profiles}
    BY DEF Seed, EnsuredMemberships
<1>2. \A n \in Profiles : GroupName(n) \in GroupNames
    BY DEF GroupName, GroupNames
<1>3. memberships' \subseteq users' \X groups'
    BY <1>1, <1>2 DEF DirectoryInv
<1>4. \A r \in userLabels' :
        \E p \in Profiles \X Keys : r = <<p[1], p[2], ProfileLabel(p[1], p[2])>>
    BY SeededLabels
<1>5. \A r \in userLabels' :
        r = <<r[1], r[2], ProfileLabel(r[1], r[2])>> /\ r[1] \in Profiles /\ r[2] \in Keys
    BY <1>4
<1>6. \A r \in userLabels' : r = <<r[1], r[2], r[3]>> /\ r[1] \in users' /\ r[2] \in Keys
    BY <1>1, <1>5
<1>7. LabelsUnique'
    BY <1>5 DEF LabelsUnique
<1>8. active' \subseteq users' /\ users' \subseteq Profiles
    BY <1>1 DEF DirectoryInv
<1>9. Restored'
    BY <1>1, SeededLabels DEF DirectoryInv, Restored
<1>10. seeded' = TRUE
    BY DEF Seed
<1> QED BY <1>3, <1>6, <1>7, <1>8, <1>9, <1>10 DEF DirectoryInv

LEMMA EditInv == ASSUME DirectoryInv, Edit PROVE DirectoryInv'
<1>1. UNCHANGED <<groups, users>> /\ seeded' = FALSE
    BY DEF Edit
<1>2. CASE \E u \in active : active' = active \ {u} /\ UNCHANGED <<userLabels, memberships>>
    BY <1>1, <1>2 DEF DirectoryInv, LabelsUnique
<1>3. ASSUME NEW r \in userLabels, NEW n \in Profiles,
             \/ userLabels' = userLabels \ {r}
             \/ userLabels' = (userLabels \ {r}) \cup {<<r[1], r[2], ProfileLabel(n, r[2])>>},
             UNCHANGED <<active, memberships>>
      PROVE  DirectoryInv'
    <2>1. \A q \in userLabels' : q = <<q[1], q[2], q[3]>> /\ q[1] \in users /\ q[2] \in Keys
        BY <1>3 DEF DirectoryInv
    <2>2. LabelsUnique'
        BY <1>3 DEF DirectoryInv, LabelsUnique
    <2> QED BY <1>1, <1>3, <2>1, <2>2 DEF DirectoryInv
<1>4. CASE /\ \E u \in users, g \in groups :
                memberships' \in {memberships \cup {<<u, g>>}, memberships \ {<<u, g>>}}
           /\ UNCHANGED <<active, userLabels>>
    <2>1. memberships' \subseteq users \X groups
        BY <1>4 DEF DirectoryInv
    <2>2. LabelsUnique'
        BY <1>4 DEF DirectoryInv, LabelsUnique
    <2> QED BY <1>1, <1>4, <2>1, <2>2 DEF DirectoryInv
<1> QED BY <1>2, <1>3, <1>4 DEF Edit

\* A user has as many of the keys asked for as pairs were asked for exactly if
\* the user has all the pairs.
LEMMA CountMeansAll ==
    ASSUME DirectoryInv, NEW u, NEW s \in Selections, s.type = "labels"
    PROVE  HasLabels(u, s.labels) <=> \A p \in s.labels : <<u, p[1], p[2]>> \in userLabels
<1> DEFINE P == s.labels
           K == {p[1] : p \in P}
           key == [p \in P |-> p[1]]
<1>1. /\ IsFiniteSet(P)
      /\ \A p \in P : p = <<p[1], p[2]>>
      /\ \A a, b \in P : a[1] = b[1] => a = b
    BY DirectoryAssumption DEF IsSelection
<1>2. key \in Surjection(P, K) /\ key \in Injection(P, K)
    BY <1>1 DEF Surjection, Injection, IsInjective
<1>3. IsFiniteSet(K) /\ Cardinality(K) = Cardinality(P)
    BY <1>1, <1>2, FS_Surjection
<1>4. MatchedKeys(u, P) \in SUBSET K
    <2> SUFFICES ASSUME NEW row \in userLabels, <<row[2], row[3]>> \in P
                 PROVE  row[2] \in K
        BY DEF MatchedKeys
    <2>1. <<row[2], row[3]>>[1] = row[2]
        OBVIOUS
    <2> QED BY <2>1
<1>5. HasLabels(u, P) <=> K \subseteq MatchedKeys(u, P)
    <2>1. HasLabels(u, P) => K = MatchedKeys(u, P)
        BY <1>3, <1>4, FS_Subset DEF HasLabels
    <2>2. K \subseteq MatchedKeys(u, P) => K = MatchedKeys(u, P)
        BY <1>4
    <2> QED BY <1>3, <2>1, <2>2 DEF HasLabels
<1>6. K \subseteq MatchedKeys(u, P) <=> \A p \in P : <<u, p[1], p[2]>> \in userLabels
    <2>1. ASSUME \A p \in P : <<u, p[1], p[2]>> \in userLabels, NEW p \in P
          PROVE  p[1] \in MatchedKeys(u, P)
        <3> DEFINE row == <<u, p[1], p[2]>>
        <3>1. row \in userLabels /\ row[1] = u /\ row[2] = p[1] /\ row[3] = p[2]
            BY <2>1
        <3>2. <<row[2], row[3]>> \in P
            BY <1>1, <3>1
        <3> HIDE DEF row
        <3> QED BY <3>1, <3>2 DEF MatchedKeys
    <2>2. ASSUME K \subseteq MatchedKeys(u, P), NEW p \in P
          PROVE  <<u, p[1], p[2]>> \in userLabels
        <3>1. PICK row \in userLabels :
                row[1] = u /\ <<row[2], row[3]>> \in P /\ row[2] = p[1]
            BY <2>2 DEF MatchedKeys
        <3>2. <<row[2], row[3]>> = p
            BY <1>1, <3>1
        <3>3. row = <<row[1], row[2], row[3]>> /\ row[3] = p[2]
            BY <3>2 DEF DirectoryInv
        <3> QED BY <3>1, <3>3
    <2> QED BY <2>1, <2>2
<1> QED BY <1>5, <1>6

\* In every state of the tables the queries return what the selection means.
LEMMA QueriesExact == DirectoryInv => AudienceExact
<1> SUFFICES ASSUME DirectoryInv, NEW s \in Selections PROVE Resolve(s) = Meant(s)
    BY DEF AudienceExact
<1>1. CASE s.type = "all"
    BY <1>1 DEF Resolve, Meant, ListActive, DirectoryInv
<1>2. CASE s.type = "group"
    BY <1>2 DEF Resolve, Meant, ListActiveByGroup, DirectoryInv
<1>3. CASE s.type = "labels"
    <2>1. s.labels # {}
        BY <1>3, DirectoryAssumption DEF IsSelection
    <2>2. Resolve(s) = {u \in active : HasLabels(u, s.labels)}
        BY <1>3, <2>1 DEF Resolve, ListActiveByLabels
    <2>3. Meant(s) = {u \in users : u \in active /\
                        \A p \in s.labels : <<u, p[1], p[2]>> \in userLabels}
        BY <1>3 DEF Meant
    <2> QED BY <1>3, <2>2, <2>3, CountMeansAll DEF DirectoryInv
<1> QED BY <1>1, <1>2, <1>3, DirectoryAssumption DEF IsSelection

-----------------------------------------------------------------------------
(* The pipeline *)

Phases == {"open", "claimed", "delivered", "failed_terminal"}

EventPhases == {"absent", "open", "claimed", "published", "failed_terminal"}

PipelineType ==
    /\ eventPhase \in [Events -> EventPhases]
    /\ eventFails \in [Events -> 0 .. OutboxAttempts]
    /\ topic \in Seq(Events)
    /\ committed \in 0 .. position
    /\ position \in 0 .. Len(topic)
    /\ pc \in {"idle", "handling", "marking", "committing"}
    /\ processed \subseteq Events
    /\ rows \subseteq Profiles
    /\ phase \in [Profiles -> Phases]
    /\ tries \in [Profiles -> 0 .. MaxAttempts]
    /\ dropped \subseteq Events

\* The consumer works on a record of the topic.
WorksOnRecord == pc # "idle" => position >= 1

\* A replay event is added only for rows.
ReplayHasRows == eventPhase["replay"] # "absent" => rows # {}

\* A copy of the request lies on the topic before position i.
RequestedBefore(i) == \E j \in 1 .. i - 1 : topic[j] = "requested"
ReplaysFollow == \A i \in 1 .. Len(topic) : topic[i] = "replay" => RequestedBefore(i)
RowsFollow == rows # {} => RequestedBefore(Len(topic) + 1)

PipelineInv ==
    /\ DirectoryInv
    /\ PipelineType
    /\ WorksOnRecord
    /\ ReplayHasRows
    /\ ReplaysFollow
    /\ RowsFollow

LEMMA PipelineInitInv == Init => PipelineInv
<1> SUFFICES ASSUME Init PROVE PipelineInv
    OBVIOUS
<1>1. PipelineType
    BY PipelineAssumption
    DEF Init, Outbox!Init, Deliveries!Init, PipelineType, Phases, EventPhases, Events
<1>2. WorksOnRecord /\ ReplayHasRows /\ ReplaysFollow /\ RowsFollow
    BY DEF Init, Outbox!Init, WorksOnRecord, ReplayHasRows, ReplaysFollow, RowsFollow, Events
<1> QED BY <1>1, <1>2, DirectoryInitInv DEF Init, PipelineInv

\* A query finds demo users only.
LEMMA ResolveProfiles == ASSUME DirectoryInv PROVE Resolve(Selection) \subseteq Profiles
<1>1. active \subseteq Profiles
    BY DEF DirectoryInv
<1> QED BY <1>1 DEF Resolve, ListActive, ListActiveByGroup, ListActiveByLabels

\* Steps of the outbox that leave the topic as it is.
LEMMA OutboxPhaseInv ==
    ASSUME PipelineInv, UNCHANGED <<directoryVars, consumerVars, deliveryVars, topic>>,
           eventPhase' \in [Events -> EventPhases],
           eventFails' \in [Events -> 0 .. OutboxAttempts],
           eventPhase'["replay"] # "absent" => eventPhase["replay"] # "absent" \/ rows # {}
    PROVE  PipelineInv'
<1>1. DirectoryInv'
    BY DEF PipelineInv, DirectoryInv, LabelsUnique, Restored, directoryVars
<1>2. PipelineType'
    BY DEF PipelineInv, PipelineType, consumerVars, deliveryVars
<1>3. WorksOnRecord' /\ ReplayHasRows' /\ ReplaysFollow' /\ RowsFollow'
    BY DEF PipelineInv, WorksOnRecord, ReplayHasRows, ReplaysFollow, RowsFollow,
           RequestedBefore, consumerVars, deliveryVars
<1> QED BY <1>1, <1>2, <1>3 DEF PipelineInv

LEMMA AddInv ==
    ASSUME PipelineInv, Accept \/ Retry
    PROVE  PipelineInv'
<1>1. /\ UNCHANGED <<directoryVars, consumerVars, deliveryVars, topic, eventFails>>
      /\ \/ eventPhase' = [eventPhase EXCEPT !["requested"] = "open"]
         \/ rows # {} /\ eventPhase' = [eventPhase EXCEPT !["replay"] = "open"]
    BY DEF Accept, Retry, Eligible, Outbox!Add
<1>2. /\ eventPhase \in [Events -> EventPhases]
      /\ eventFails \in [Events -> 0 .. OutboxAttempts]
    BY DEF PipelineInv, PipelineType
<1>3. eventPhase' \in [Events -> EventPhases]
    BY <1>1, <1>2 DEF EventPhases
<1>4. eventPhase'["replay"] # "absent" => eventPhase["replay"] # "absent" \/ rows # {}
    BY <1>1, <1>2 DEF Events
<1> QED BY <1>1, <1>2, <1>3, <1>4, OutboxPhaseInv

LEMMA ClaimInv == ASSUME PipelineInv, NEW e \in Events, Claim(e) PROVE PipelineInv'
<1>1. /\ UNCHANGED <<directoryVars, consumerVars, deliveryVars, topic, eventFails>>
      /\ eventPhase[e] # "absent"
      /\ eventPhase' = [f \in Events |-> IF f \in {e} THEN "claimed" ELSE eventPhase[f]]
    BY DEF Claim, Outbox!Take
<1>2. /\ eventPhase \in [Events -> EventPhases]
      /\ eventFails \in [Events -> 0 .. OutboxAttempts]
    BY DEF PipelineInv, PipelineType
<1>3. eventPhase' \in [Events -> EventPhases]
    BY <1>1, <1>2 DEF EventPhases
<1>4. eventPhase'["replay"] # "absent" => eventPhase["replay"] # "absent" \/ rows # {}
    BY <1>1, <1>2 DEF Events
<1> QED BY <1>1, <1>2, <1>3, <1>4, OutboxPhaseInv

LEMMA FinalizeInv == ASSUME PipelineInv, NEW e \in Events, Finalize(e) PROVE PipelineInv'
<1>1. /\ eventPhase \in [Events -> EventPhases]
      /\ eventFails \in [Events -> 0 .. OutboxAttempts]
    BY DEF PipelineInv, PipelineType
<1>2. /\ UNCHANGED <<directoryVars, consumerVars, deliveryVars, topic>>
      /\ eventPhase[e] # "absent"
      /\ \E point \in {"published", "open", "failed_terminal"} :
            eventPhase' = [eventPhase EXCEPT ![e] = point]
      /\ eventFails' \in [Events -> 0 .. OutboxAttempts]
    BY <1>1, PipelineAssumption
    DEF Finalize, Outbox!ReportPublished, Outbox!ReportFailed
<1>3. eventPhase' \in [Events -> EventPhases]
    BY <1>1, <1>2 DEF EventPhases
<1>4. eventPhase'["replay"] # "absent" => eventPhase["replay"] # "absent" \/ rows # {}
    BY <1>1, <1>2 DEF Events
<1> QED BY <1>1, <1>2, <1>3, <1>4, OutboxPhaseInv

\* A replay is stored only after a copy of the request.
LEMMA StoreInv == ASSUME PipelineInv, NEW e \in Events, Store(e) PROVE PipelineInv'
<1>1. /\ topic' = Append(topic, e)
      /\ eventPhase[e] # "absent"
      /\ UNCHANGED <<directoryVars, consumerVars, deliveryVars, eventPhase, eventFails>>
    BY DEF Store, Outbox!Store, Outbox!WasClaimed
<1>2. topic \in Seq(Events) /\ Len(topic) \in Nat
    BY DEF PipelineInv, PipelineType
<1>3. /\ topic' \in Seq(Events)
      /\ Len(topic') = Len(topic) + 1
      /\ topic'[Len(topic) + 1] = e
      /\ \A i \in 1 .. Len(topic) : topic'[i] = topic[i]
    BY <1>1, <1>2
<1>4. PipelineType'
    BY <1>1, <1>2, <1>3 DEF PipelineInv, PipelineType, consumerVars, deliveryVars
<1>5. ASSUME NEW i \in 1 .. Len(topic) + 1, RequestedBefore(i) PROVE RequestedBefore(i)'
    BY <1>2, <1>3, <1>5 DEF RequestedBefore
<1>6. ReplaysFollow'
    <2> SUFFICES ASSUME NEW i \in 1 .. Len(topic) + 1, topic'[i] = "replay"
                 PROVE  RequestedBefore(i)'
        BY <1>3 DEF ReplaysFollow
    <2>1. CASE i \in 1 .. Len(topic)
        <3>1. RequestedBefore(i)
            BY <1>3, <2>1 DEF PipelineInv, ReplaysFollow
        <3> QED BY <1>5, <3>1
    <2>2. CASE i = Len(topic) + 1
        <3>1. e = "replay" /\ rows # {}
            BY <1>1, <1>3, <2>2 DEF PipelineInv, ReplayHasRows
        <3>2. RequestedBefore(i)
            BY <2>2, <3>1 DEF PipelineInv, RowsFollow
        <3> QED BY <1>5, <3>2
    <2> QED BY <1>2, <2>1, <2>2
<1>7. RowsFollow'
    <2>1. ASSUME rows # {} PROVE \E j \in 1 .. Len(topic) : topic[j] = "requested"
        BY <1>2, <2>1 DEF PipelineInv, RowsFollow, RequestedBefore
    <2>2. ASSUME rows # {} PROVE \E j \in 1 .. Len(topic') + 1 - 1 : topic'[j] = "requested"
        BY <1>2, <1>3, <2>1, <2>2
    <2> QED BY <1>1, <2>2 DEF RowsFollow, RequestedBefore, deliveryVars
<1>8. WorksOnRecord' /\ ReplayHasRows'
    BY <1>1 DEF PipelineInv, WorksOnRecord, ReplayHasRows, consumerVars, deliveryVars
<1>9. DirectoryInv'
    BY <1>1 DEF PipelineInv, DirectoryInv, LabelsUnique, Restored, directoryVars
<1> QED BY <1>4, <1>6, <1>7, <1>8, <1>9 DEF PipelineInv

\* The fanout inserts rows while it handles a record, which follows a request
\* or is one.
LEMMA HandleInv == ASSUME PipelineInv, Handle PROVE PipelineInv'
<1>1. /\ pc = "handling" /\ pc' = "marking"
      /\ rows' = rows \cup Resolve(Selection)
      /\ UNCHANGED <<committed, position, processed, dropped, disruptions>>
      /\ UNCHANGED <<directoryVars, outboxVars>>
    BY DEF Handle
<1>2. \E inserted \in SUBSET Profiles :
        /\ phase' = [u \in Profiles |-> IF u \in inserted THEN "open" ELSE phase[u]]
        /\ tries' = [u \in Profiles |-> IF u \in inserted THEN 0 ELSE tries[u]]
    <2>1. {u \in Resolve(Selection) : NewRow(u)} \in SUBSET Profiles
        BY ResolveProfiles DEF PipelineInv
    <2> QED BY <2>1 DEF Handle
<1>3. PipelineType'
    <2>1. phase' \in [Profiles -> Phases] /\ tries' \in [Profiles -> 0 .. MaxAttempts]
        BY <1>2, PipelineAssumption DEF PipelineInv, PipelineType, Phases
    <2>2. rows' \subseteq Profiles
        BY <1>1, ResolveProfiles DEF PipelineInv, PipelineType
    <2> QED BY <1>1, <2>1, <2>2 DEF PipelineInv, PipelineType, outboxVars
<1>4. RowsFollow'
    <2>1. topic \in Seq(Events) /\ position \in 1 .. Len(topic)
        BY <1>1 DEF PipelineInv, PipelineType, WorksOnRecord
    <2>2. topic[position] = "requested" \/ topic[position] = "replay"
        BY <2>1 DEF Events
    <2>3. \E j \in 1 .. Len(topic) : topic[j] = "requested"
        BY <2>1, <2>2 DEF PipelineInv, ReplaysFollow, RequestedBefore
    <2>4. RequestedBefore(Len(topic) + 1)
        BY <2>1, <2>3 DEF RequestedBefore
    <2> QED BY <1>1, <2>4 DEF RowsFollow, RequestedBefore, outboxVars
<1>5. WorksOnRecord' /\ ReplayHasRows' /\ ReplaysFollow'
    BY <1>1
    DEF PipelineInv, WorksOnRecord, ReplayHasRows, ReplaysFollow, RequestedBefore, outboxVars
<1>6. DirectoryInv'
    BY <1>1 DEF PipelineInv, DirectoryInv, LabelsUnique, Restored, directoryVars
<1> QED BY <1>3, <1>4, <1>5, <1>6 DEF PipelineInv

\* The other steps of the consumer leave the rows and the topic alone.
LEMMA ConsumerInv ==
    ASSUME PipelineInv, Consume \/ Mark \/ Commit \/ Raise \/ Crash PROVE PipelineInv'
<1>1. UNCHANGED <<directoryVars, outboxVars, deliveryVars>>
    BY DEF Consume, Mark, Commit, Raise, Crash
<1>2. /\ topic \in Seq(Events) /\ Len(topic) \in Nat
      /\ position \in Nat /\ position =< Len(topic)
      /\ committed \in Nat /\ committed =< position
      /\ pc \in {"idle", "handling", "marking", "committing"}
    BY DEF PipelineInv, PipelineType
<1>3. /\ position' \in Nat /\ position' =< Len(topic)
      /\ committed' \in Nat /\ committed' =< position'
      /\ pc' \in {"idle", "handling", "marking", "committing"}
      /\ pc' # "idle" => position' >= 1
    BY <1>2
    DEF Consume, Mark, Commit, Raise, Crash, ResumeOffset, PipelineInv, WorksOnRecord
<1>4. processed' \subseteq Events /\ dropped' \subseteq Events
    <2>1. pc # "idle" => Event \in Events
        BY <1>2 DEF PipelineInv, WorksOnRecord, Event
    <2> QED
        BY <2>1 DEF Consume, Mark, Commit, Raise, Crash, PipelineInv, PipelineType
<1>5. PipelineType'
    BY <1>1, <1>3, <1>4 DEF PipelineInv, PipelineType, outboxVars, deliveryVars
<1>6. WorksOnRecord'
    BY <1>3 DEF WorksOnRecord
<1>7. ReplayHasRows' /\ ReplaysFollow' /\ RowsFollow'
    BY <1>1 DEF PipelineInv, ReplayHasRows, ReplaysFollow, RowsFollow, RequestedBefore,
                outboxVars, deliveryVars
<1>8. DirectoryInv'
    BY <1>1 DEF PipelineInv, DirectoryInv, LabelsUnique, Restored, directoryVars
<1> QED BY <1>5, <1>6, <1>7, <1>8 DEF PipelineInv

LEMMA DeliveryStepInv ==
    ASSUME PipelineInv, NEW u \in Profiles, DeliveryStep(u) PROVE PipelineInv'
<1>1. UNCHANGED <<directoryVars, outboxVars, consumerVars, rows>>
    BY DEF DeliveryStep, Take, Report
<1>2. phase \in [Profiles -> Phases] /\ tries \in [Profiles -> 0 .. MaxAttempts]
    BY DEF PipelineInv, PipelineType
<1>5. phase' \in [Profiles -> Phases] /\ tries' \in [Profiles -> 0 .. MaxAttempts]
    <2>1. CASE Take(u)
        BY <1>2, <2>1 DEF Take, Deliveries!Take, Phases
    <2>2. CASE Report(u)
        BY <1>2, <2>2, PipelineAssumption DEF Report, Deliveries!Report, Phases
    <2> QED BY <2>1, <2>2 DEF DeliveryStep
<1>6. PipelineType'
    BY <1>1, <1>5 DEF PipelineInv, PipelineType, outboxVars, consumerVars
<1>7. WorksOnRecord' /\ ReplayHasRows' /\ ReplaysFollow' /\ RowsFollow'
    BY <1>1 DEF PipelineInv, WorksOnRecord, ReplayHasRows, ReplaysFollow, RowsFollow,
                RequestedBefore, outboxVars, consumerVars
<1>8. DirectoryInv'
    BY <1>1 DEF PipelineInv, DirectoryInv, LabelsUnique, Restored, directoryVars
<1> QED BY <1>6, <1>7, <1>8 DEF PipelineInv

\* PipelineInv is inductive.
LEMMA PipelineNextInv == ASSUME PipelineInv, [Next]_vars PROVE PipelineInv'
<1>1. CASE ChangeDirectory
    <2>1. UNCHANGED <<outboxVars, consumerVars, deliveryVars>>
        BY <1>1 DEF ChangeDirectory
    <2>2. DirectoryInv'
        BY <1>1, SeedInv, EditInv DEF ChangeDirectory, PipelineInv
    <2>3. PipelineType'
        BY <2>1 DEF PipelineInv, PipelineType, outboxVars, consumerVars, deliveryVars
    <2>4. WorksOnRecord' /\ ReplayHasRows' /\ ReplaysFollow' /\ RowsFollow'
        BY <2>1 DEF PipelineInv, WorksOnRecord, ReplayHasRows, ReplaysFollow, RowsFollow,
                    RequestedBefore, outboxVars, consumerVars, deliveryVars
    <2> QED BY <2>2, <2>3, <2>4 DEF PipelineInv
<1>2. CASE UNCHANGED vars
    <2>1. PipelineType'
        BY <1>2 DEF PipelineInv, PipelineType, vars, outboxVars, consumerVars, deliveryVars
    <2>2. WorksOnRecord' /\ ReplayHasRows' /\ ReplaysFollow' /\ RowsFollow'
        BY <1>2 DEF PipelineInv, WorksOnRecord, ReplayHasRows, ReplaysFollow, RowsFollow,
                    RequestedBefore, vars, outboxVars, consumerVars, deliveryVars
    <2>3. DirectoryInv'
        BY <1>2 DEF PipelineInv, DirectoryInv, LabelsUnique, Restored, vars, directoryVars
    <2> QED BY <2>1, <2>2, <2>3 DEF PipelineInv
<1>3. ASSUME NEW e \in Events, PublisherStep(e) \/ Store(e) PROVE PipelineInv'
    BY <1>3, ClaimInv, FinalizeInv, StoreInv DEF PublisherStep
<1> QED
    BY <1>1, <1>2, <1>3, AddInv, HandleInv, ConsumerInv, DeliveryStepInv
    DEF Next, ConsumerStep

LEMMA PipelineInvAlways == Spec => []PipelineInv
BY PipelineInitInv, PipelineNextInv, PTL DEF Spec

\* The composed system keeps its types and the constraints of the
\* directory's tables.
THEOREM PipelineTypeCorrect == Spec => []TypeOK
<1>1. PipelineInv => TypeOK
    BY DEF PipelineInv, PipelineType, DirectoryInv, Phases, EventPhases, TypeOK
<1> QED BY <1>1, PipelineInvAlways, PTL

\* However the tables were edited, seeding again makes every selection find the
\* users whose profiles it means, and a selection of all users or by labels no
\* others.
THEOREM SeedingRestoresAudiences == Spec => []SeedingRestores
<1>1. ASSUME DirectoryInv, seeded, NEW s \in Selections
      PROVE  /\ Profiled(s) \subseteq Resolve(s)
             /\ s.type # "group" => Resolve(s) = Profiled(s)
    <2>1. Resolve(s) = Meant(s)
        BY <1>1, QueriesExact DEF AudienceExact
    <2>2. Restored
        BY <1>1 DEF DirectoryInv
    <2>3. CASE s.type = "all"
        BY <2>1, <2>2, <2>3 DEF Meant, Profiled, Restored
    <2>4. CASE s.type = "group"
        BY <2>1, <2>2, <2>4 DEF Meant, Profiled, Restored
    <2>5. CASE s.type = "labels"
        <3>1. ASSUME NEW n \in Profiles, NEW p \in s.labels
              PROVE  <<n, p[1], p[2]>> \in userLabels <=>
                        p[1] \in Keys /\ p[2] = ProfileLabel(n, p[1])
            <4>1. <<n, p[1], p[2]>> \in userLabels <=>
                    \E q \in Profiles \X Keys :
                        <<n, p[1], p[2]>> = <<q[1], q[2], ProfileLabel(q[1], q[2])>>
                BY <2>2 DEF Restored
            <4>2. ASSUME p[1] \in Keys, p[2] = ProfileLabel(n, p[1])
                  PROVE  \E q \in Profiles \X Keys :
                            <<n, p[1], p[2]>> = <<q[1], q[2], ProfileLabel(q[1], q[2])>>
                <5>1. <<n, p[1]>> \in Profiles \X Keys
                    BY <4>2
                <5> QED BY <4>2, <5>1
            <4> QED BY <4>1, <4>2
        <3> QED BY <2>1, <2>2, <2>5, <3>1 DEF Meant, Profiled, Restored
    <2> QED BY <2>3, <2>4, <2>5, DirectoryAssumption DEF IsSelection
<1>2. PipelineInv => SeedingRestores
    BY <1>1 DEF PipelineInv, SeedingRestores
<1> QED BY <1>2, PipelineInvAlways, PTL

\* The audience queries return the users a selection means, whatever was seeded
\* again and edited in between.
THEOREM AudiencesExact == Spec => []AudienceExact
<1>1. PipelineInv => AudienceExact
    BY QueriesExact DEF PipelineInv
<1> QED BY <1>1, PipelineInvAlways, PTL

\* Rows and replays on the topic follow a copy of the request on the topic.
THEOREM CausesComeFirst == Spec => []CausesFirst
<1>1. PipelineInv => CausesFirst
    <2> SUFFICES ASSUME PipelineInv PROVE CausesFirst
        OBVIOUS
    <2>1. topic \in Seq(Events) /\ DOMAIN topic = 1 .. Len(topic) /\ Len(topic) \in Nat
        BY DEF PipelineInv, PipelineType
    <2>2. ASSUME rows # {} PROVE "requested" \in Range(topic)
        <3>1. PICK j \in 1 .. Len(topic) : topic[j] = "requested"
            BY <2>1, <2>2 DEF PipelineInv, RowsFollow, RequestedBefore
        <3> QED BY <2>1, <3>1 DEF Range
    <2>3. \A i \in DOMAIN topic : topic[i] = "replay" => RequestedBefore(i)
        BY <2>1 DEF PipelineInv, ReplaysFollow
    <2> QED BY <2>2, <2>3 DEF CausesFirst, RequestedBefore
<1> QED BY <1>1, PipelineInvAlways, PTL

\* No copy of an event and no replay serves a settled row again.
THEOREM RowsServedOnce == Spec => ServedOnce
<1>1. PipelineInv /\ [Next]_vars =>
        (\A u \in rows : Settled(u) => Settled(u)' /\ tries'[u] = tries[u])
    <2> SUFFICES ASSUME PipelineInv, [Next]_vars, NEW u \in rows, Settled(u)
                 PROVE  Settled(u)' /\ tries'[u] = tries[u]
        OBVIOUS
    <2>1. /\ phase \in [Profiles -> Phases] /\ tries \in [Profiles -> 0 .. MaxAttempts]
          /\ u \in Profiles
        BY DEF PipelineInv, PipelineType
    <2>2. phase[u] # "open" /\ phase[u] # "claimed"
        BY DEF Settled
    <2>3. CASE Handle
        BY <2>1, <2>3 DEF Handle, NewRow, Settled
    <2>4. ASSUME NEW v \in Profiles, DeliveryStep(v)
          PROVE  Settled(u)' /\ tries'[u] = tries[u]
        <3>1. CASE Take(v)
            BY <2>1, <2>2, <3>1 DEF Take, Deliveries!Take, Settled
        <3>2. CASE Report(v)
            BY <2>1, <2>2, <3>2 DEF Report, Deliveries!Report, Settled
        <3> QED BY <2>4, <3>1, <3>2 DEF DeliveryStep
    <2>5. CASE UNCHANGED deliveryVars
        BY <2>5 DEF deliveryVars, Settled
    <2>6. \/ Handle
          \/ \E v \in Profiles : DeliveryStep(v)
          \/ UNCHANGED deliveryVars
        BY DEF Next, Accept, Retry, ChangeDirectory, PublisherStep, Claim, Finalize, Store,
               ConsumerStep, Consume, Mark, Commit, Raise, Crash, vars
    <2> QED BY <2>3, <2>4, <2>5, <2>6
<1> QED BY <1>1, PipelineInvAlways, PTL DEF Spec, ServedOnce

-----------------------------------------------------------------------------
(* The broker's promise *)

\* The request is on the topic only if its event was added.
StoredAccepted ==
    "requested" \in Range(topic) => eventPhase["requested"] # "absent"

\* No delivery worker touches a user without a row.
UntouchedWithoutRow == \A u \in Profiles \ rows : phase[u] = "open" /\ tries[u] = 0

ServiceInv == PipelineInv /\ StoredAccepted /\ UntouchedWithoutRow

\* The users a selection means are the ones its queries return, and profiles.
LEMMA MeantIsResolved ==
    ASSUME DirectoryInv
    PROVE  Meant(Selection) = Resolve(Selection) /\ Meant(Selection) \subseteq Profiles
BY QueriesExact, ResolveProfiles, PipelineAssumption DEF AudienceExact

LEMMA MeantUnchanged == UNCHANGED directoryVars => UNCHANGED Meant(Selection)
BY DEF directoryVars, Meant

\* Fanout comes after the request was accepted: a record in hand is a copy of
\* the request or follows one.
LEMMA HandlesAccepted ==
    ASSUME ServiceInv, Handle PROVE eventPhase["requested"] # "absent"
<1>1. topic \in Seq(Events) /\ position \in 1 .. Len(topic)
    BY DEF Handle, ServiceInv, PipelineInv, PipelineType, WorksOnRecord
<1>2. topic[position] = "requested" \/ topic[position] = "replay"
    BY <1>1 DEF Events
<1>3. \E j \in 1 .. Len(topic) : topic[j] = "requested"
    BY <1>1, <1>2 DEF ServiceInv, PipelineInv, ReplaysFollow, RequestedBefore
<1>4. "requested" \in Range(topic)
    BY <1>1, <1>3 DEF Range
<1> QED BY <1>4 DEF ServiceInv, StoredAccepted

\* Of the outbox, the broker's promise sees that the request was accepted.
LEMMA PublisherAccepts ==
    ASSUME ServiceInv, NEW e \in Events, PublisherStep(e) \/ Store(e)
    PROVE  /\ eventPhase'["requested"] # "absent" <=> eventPhase["requested"] # "absent"
           /\ StoredAccepted'
           /\ UNCHANGED <<directoryVars, deliveryVars>>
<1>1. eventPhase \in [Events -> EventPhases] /\ "requested" \in Events
      /\ topic \in Seq(Events)
    BY DEF ServiceInv, PipelineInv, PipelineType, Events
<1>2. CASE Claim(e)
    <2>1. /\ eventPhase[e] # "absent"
          /\ eventPhase' = [f \in Events |-> IF f \in {e} THEN "claimed" ELSE eventPhase[f]]
          /\ UNCHANGED <<directoryVars, deliveryVars, topic>>
        BY <1>2 DEF Claim, Outbox!Take
    <2> QED BY <1>1, <2>1 DEF ServiceInv, StoredAccepted
<1>3. CASE Finalize(e)
    <2>1. /\ eventPhase[e] # "absent"
          /\ \E point \in {"published", "open", "failed_terminal"} :
                eventPhase' = [eventPhase EXCEPT ![e] = point]
          /\ UNCHANGED <<directoryVars, deliveryVars, topic>>
        BY <1>3 DEF Finalize, Outbox!ReportPublished, Outbox!ReportFailed
    <2> QED BY <1>1, <2>1 DEF ServiceInv, StoredAccepted
<1>4. CASE Store(e)
    <2>1. /\ eventPhase[e] # "absent"
          /\ Range(topic') = Range(topic) \cup {e}
          /\ UNCHANGED <<directoryVars, deliveryVars, eventPhase>>
        BY <1>4 DEF Store, Outbox!Store, Outbox!WasClaimed
    <2> QED BY <1>1, <2>1 DEF ServiceInv, StoredAccepted
<1> QED BY <1>2, <1>3, <1>4 DEF PublisherStep

\* The steps the broker's promise does not see.
LEMMA ServiceStutters ==
    ASSUME UNCHANGED <<directoryVars, deliveryVars>>,
           eventPhase'["requested"] # "absent" <=> eventPhase["requested"] # "absent"
    PROVE  UNCHANGED <<Meant(Selection), eventPhase["requested"] # "absent",
                       [u \in Profiles |-> IF u \in rows THEN phase[u] ELSE "none"],
                       tries>>
<1>1. UNCHANGED Meant(Selection)
    BY MeantUnchanged
<1>2. UNCHANGED <<rows, phase, tries>>
    BY DEF deliveryVars
<1> QED BY <1>1, <1>2

LEMMA ServiceInitInv == Init => ServiceInv
<1>1. Init => StoredAccepted /\ UntouchedWithoutRow
    BY DEF Init, Outbox!Init, Deliveries!Init, StoredAccepted, UntouchedWithoutRow
<1> QED BY <1>1, PipelineInitInv DEF ServiceInv

\* ServiceInv is inductive.
LEMMA ServiceNextInv == ASSUME ServiceInv, [Next]_vars PROVE ServiceInv'
<1>1. PipelineInv'
    BY PipelineNextInv DEF ServiceInv
<1>2. /\ eventPhase \in [Events -> EventPhases] /\ "requested" \in Events
      /\ phase \in [Profiles -> Phases] /\ tries \in [Profiles -> 0 .. MaxAttempts]
    BY DEF ServiceInv, PipelineInv, PipelineType, Events
<1>3. CASE Accept \/ Retry
    <2>1. /\ UNCHANGED <<topic, rows, phase, tries>>
          /\ \E e \in Events : eventPhase' = [eventPhase EXCEPT ![e] = "open"]
        BY <1>3 DEF Accept, Retry, Outbox!Add, deliveryVars, Events
    <2> QED
        BY <1>1, <1>2, <2>1 DEF ServiceInv, StoredAccepted, UntouchedWithoutRow
<1>4. ASSUME NEW e \in Events, PublisherStep(e) \/ Store(e) PROVE ServiceInv'
    <2>1. StoredAccepted' /\ UNCHANGED <<rows, phase, tries>>
        BY <1>4, PublisherAccepts DEF deliveryVars
    <2> QED BY <1>1, <2>1 DEF ServiceInv, UntouchedWithoutRow
<1>5. CASE Handle
    <2>1. /\ rows \subseteq rows'
          /\ UNCHANGED <<topic, eventPhase>>
          /\ \A u \in Profiles \ rows : phase'[u] = "open" /\ tries'[u] = 0
        BY <1>2, <1>5 DEF Handle, outboxVars, ServiceInv, UntouchedWithoutRow
    <2> QED BY <1>1, <2>1 DEF ServiceInv, StoredAccepted, UntouchedWithoutRow
<1>6. ASSUME NEW u \in Profiles, DeliveryStep(u) PROVE ServiceInv'
    <2>1. UNCHANGED <<topic, eventPhase, rows>>
        BY <1>6 DEF DeliveryStep, Take, Report, outboxVars
    <2>2. u \in rows
        BY <1>6 DEF DeliveryStep, Take, Report, Deliveries!Report, ServiceInv,
                    UntouchedWithoutRow
    <2>3. \A v \in Profiles \ rows : phase'[v] = phase[v] /\ tries'[v] = tries[v]
        <3>1. CASE Take(u)
            BY <1>2, <2>2, <3>1 DEF Take, Deliveries!Take
        <3>2. CASE Report(u)
            BY <1>2, <2>2, <3>2 DEF Report, Deliveries!Report
        <3> QED BY <1>6, <3>1, <3>2 DEF DeliveryStep
    <2> QED
        BY <1>1, <2>1, <2>3 DEF ServiceInv, StoredAccepted, UntouchedWithoutRow
<1>7. CASE UNCHANGED <<outboxVars, deliveryVars>>
    BY <1>1, <1>7
    DEF ServiceInv, StoredAccepted, UntouchedWithoutRow, outboxVars, deliveryVars
<1>8. \/ Accept \/ Retry \/ Handle
      \/ \E e \in Events : PublisherStep(e) \/ Store(e)
      \/ \E u \in Profiles : DeliveryStep(u)
      \/ UNCHANGED <<outboxVars, deliveryVars>>
    BY DEF Next, ChangeDirectory, ConsumerStep, Consume, Mark, Commit, Raise, Crash, vars
<1> QED BY <1>3, <1>4, <1>5, <1>6, <1>7, <1>8

\* A fanout addresses the users of the audience who have no row, and no others.
LEMMA HandleAddresses == ASSUME ServiceInv, Handle PROVE Service!Address
<1> DEFINE status == [u \in Profiles |-> IF u \in rows THEN phase[u] ELSE "none"]
<1>1. /\ rows' = rows \cup Resolve(Selection)
      /\ UNCHANGED <<directoryVars, outboxVars>>
      /\ phase' = [u \in Profiles |->
            IF u \in Resolve(Selection) /\ u \notin rows THEN "open" ELSE phase[u]]
      /\ tries' = [u \in Profiles |->
            IF u \in Resolve(Selection) /\ u \notin rows THEN 0 ELSE tries[u]]
    BY DEF Handle, NewRow
<1>2. /\ phase \in [Profiles -> Phases] /\ tries \in [Profiles -> 0 .. MaxAttempts]
      /\ rows \subseteq Profiles
      /\ \A u \in Profiles \ rows : phase[u] = "open" /\ tries[u] = 0
    BY DEF ServiceInv, PipelineInv, PipelineType, UntouchedWithoutRow
<1>3. Meant(Selection) = Resolve(Selection) /\ Meant(Selection) \subseteq Profiles
    BY MeantIsResolved DEF ServiceInv, PipelineInv
<1>4. tries' = tries
    BY <1>1, <1>2
<1>5. \A u \in rows : phase[u] # "none"
    BY <1>2 DEF Phases
<1>6. status' = [u \in Profiles |->
            IF u \in Meant(Selection) /\ status[u] = "none" THEN "open" ELSE status[u]]
    BY <1>1, <1>2, <1>3, <1>5
<1>7. UNCHANGED <<Meant(Selection), eventPhase["requested"] # "absent">>
    BY <1>1, MeantUnchanged DEF outboxVars
<1> QED BY <1>4, <1>6, <1>7, HandlesAccepted DEF Service!Address

\* Every step of the pipeline is a step of the broker's promise or is invisible
\* in it.
LEMMA NextRefinesService ==
    ASSUME ServiceInv, [Next]_vars
    PROVE  \/ Service!Next
           \/ UNCHANGED <<Meant(Selection), eventPhase["requested"] # "absent",
                          [u \in Profiles |-> IF u \in rows THEN phase[u] ELSE "none"],
                          tries>>
<1>1. /\ eventPhase \in [Events -> EventPhases] /\ "requested" \in Events
      /\ phase \in [Profiles -> Phases] /\ tries \in [Profiles -> 0 .. MaxAttempts]
      /\ rows \subseteq Profiles
    BY DEF ServiceInv, PipelineInv, PipelineType, Events
<1>2. CASE Accept
    <2>1. /\ eventPhase["requested"] = "absent"
          /\ eventPhase'["requested"] # "absent"
          /\ UNCHANGED <<directoryVars, deliveryVars>>
        BY <1>1, <1>2 DEF Accept, Outbox!Add
    <2>2. Service!Accept
        BY <2>1, MeantUnchanged DEF Service!Accept, deliveryVars
    <2> QED BY <2>2 DEF Service!Next
<1>3. CASE Retry
    <2>1. /\ eventPhase'["requested"] = eventPhase["requested"]
          /\ UNCHANGED <<directoryVars, deliveryVars>>
        BY <1>1, <1>3 DEF Retry, Outbox!Add
    <2> QED BY <2>1, ServiceStutters
<1>4. CASE ChangeDirectory
    <2>1. (Meant(Selection) \subseteq Profiles)'
        <3>1. DirectoryInv'
            BY ServiceNextInv DEF ServiceInv, PipelineInv
        <3>2. (users \subseteq Profiles)'
            BY <3>1 DEF DirectoryInv
        <3> QED BY <3>2 DEF Meant
    <2>2. UNCHANGED <<eventPhase, rows, phase, tries>>
        BY <1>4 DEF ChangeDirectory, outboxVars, deliveryVars
    <2>3. Service!ChangeAudience
        BY <2>1, <2>2 DEF Service!ChangeAudience
    <2> QED BY <2>3 DEF Service!Next
<1>5. ASSUME NEW e \in Events, PublisherStep(e) \/ Store(e)
      PROVE  UNCHANGED <<Meant(Selection), eventPhase["requested"] # "absent",
                         [u \in Profiles |-> IF u \in rows THEN phase[u] ELSE "none"],
                         tries>>
    BY <1>5, PublisherAccepts, ServiceStutters
<1>6. CASE Handle
    BY <1>6, HandleAddresses DEF Service!Next
<1>7. ASSUME NEW u \in Profiles, DeliveryStep(u) PROVE Service!Next
    <2> DEFINE status == [v \in Profiles |-> IF v \in rows THEN phase[v] ELSE "none"]
    <2>1. /\ UNCHANGED <<directoryVars, outboxVars, rows>>
          /\ UNCHANGED <<Meant(Selection), eventPhase["requested"] # "absent">>
        BY <1>7, MeantUnchanged DEF DeliveryStep, Take, Report, outboxVars
    <2>2. u \in rows
        BY <1>7 DEF DeliveryStep, Take, Report, Deliveries!Report, ServiceInv,
                    UntouchedWithoutRow
    <2>3. CASE Take(u)
        <3>1. /\ phase[u] \in {"open", "claimed"}
              /\ phase' = [v \in Profiles |-> IF v \in {u} THEN "claimed" ELSE phase[v]]
              /\ tries' = tries
            BY <2>3 DEF Take, Deliveries!Take
        <3>2. status' = [status EXCEPT ![u] = "claimed"] /\ status[u] = phase[u]
            BY <1>1, <2>1, <2>2, <3>1
        <3>3. Service!Try(u)
            BY <2>1, <3>1, <3>2 DEF Service!Try
        <3> QED BY <3>3 DEF Service!Next
    <2>4. CASE Report(u)
        <3>1. PICK result \in {"open", "delivered", "failed_terminal"} :
                Deliveries!Report(u, result)
            BY <2>4 DEF Report
        <3>2. status' = [status EXCEPT ![u] = result] /\ status[u] = phase[u]
            BY <1>1, <2>1, <2>2, <3>1 DEF Deliveries!Report
        <3>3. Service!Report(u, result)
            BY <2>1, <3>1, <3>2 DEF Service!Report, Deliveries!Report
        <3> QED BY <3>3 DEF Service!Next
    <2> QED BY <1>7, <2>3, <2>4 DEF DeliveryStep
<1>8. CASE UNCHANGED <<directoryVars, outboxVars, deliveryVars>>
    BY <1>8, ServiceStutters DEF outboxVars
<1>9. \/ Accept \/ Retry \/ ChangeDirectory \/ Handle
      \/ \E e \in Events : PublisherStep(e) \/ Store(e)
      \/ \E u \in Profiles : DeliveryStep(u)
      \/ UNCHANGED <<directoryVars, outboxVars, deliveryVars>>
    BY DEF Next, ConsumerStep, Consume, Mark, Commit, Raise, Crash, vars
<1> QED BY <1>2, <1>3, <1>4, <1>5, <1>6, <1>7, <1>8, <1>9

\* The pipeline keeps the promise the broker makes of one notification: after it
\* was accepted, exactly the users its audience means at the moment of a fanout
\* are addressed together, each once, and each is tried at most MaxAttempts
\* times and never again when settled, whatever is published, consumed or
\* retried twice.
THEOREM PipelineKeepsPromise == Spec => ServiceSpec
<1>1. Init => Service!Init
    <2> SUFFICES ASSUME Init PROVE Service!Init
        OBVIOUS
    <2>1. Meant(Selection) \in SUBSET Profiles
        BY DirectoryInitInv, MeantIsResolved DEF Init
    <2> QED
        BY <2>1 DEF Init, Outbox!Init, Deliveries!Init, Service!Init, Events
<1>2. ServiceInv /\ [Next]_vars => ServiceInv'
    BY ServiceNextInv
<1>3. ServiceInv /\ [Next]_vars =>
        [Service!Next]_<<Meant(Selection), eventPhase["requested"] # "absent",
                         [u \in Profiles |-> IF u \in rows THEN phase[u] ELSE "none"],
                         tries>>
    BY NextRefinesService
<1> QED
    BY <1>1, <1>2, <1>3, ServiceInitInv, PTL DEF Spec, ServiceSpec, Service!Spec

-----------------------------------------------------------------------------
(* The ledgers inside the pipeline *)

\* A fanout leaves the ledger of the deliveries as it is: the rows it inserts
\* were untouched before.
LEMMA FanoutInvisible == ASSUME ServiceInv, Handle PROVE UNCHANGED <<phase, tries>>
<1>1. /\ phase \in [Profiles -> Phases] /\ tries \in [Profiles -> 0 .. MaxAttempts]
      /\ \A u \in Profiles \ rows : phase[u] = "open" /\ tries[u] = 0
    BY DEF ServiceInv, PipelineInv, PipelineType, UntouchedWithoutRow
<1>2. /\ phase' = [u \in Profiles |->
            IF u \in Resolve(Selection) /\ u \notin rows THEN "open" ELSE phase[u]]
      /\ tries' = [u \in Profiles |->
            IF u \in Resolve(Selection) /\ u \notin rows THEN 0 ELSE tries[u]]
    BY DEF Handle, NewRow
<1> QED BY <1>1, <1>2

LEMMA NextRefinesOutbox ==
    ASSUME [Next]_vars
    PROVE  Outbox!Next \/ UNCHANGED <<eventPhase, eventFails, Range(topic)>>
<1>1. ASSUME Accept \/ Retry PROVE Outbox!Next
    BY <1>1 DEF Accept, Retry, Outbox!Next, Events
<1>2. ASSUME NEW e \in Events, PublisherStep(e) \/ Store(e) PROVE Outbox!Next
    <2>1. CASE Claim(e)
        BY <2>1 DEF Claim, Outbox!Next
    <2>2. CASE Finalize(e)
        BY <2>2 DEF Finalize, Outbox!Next
    <2>3. CASE Store(e)
        BY <2>3 DEF Store, Outbox!Next
    <2> QED BY <1>2, <2>1, <2>2, <2>3 DEF PublisherStep
<1>3. ASSUME UNCHANGED outboxVars PROVE UNCHANGED <<eventPhase, eventFails, Range(topic)>>
    BY <1>3 DEF outboxVars
<1>4. \/ Accept \/ Retry
      \/ \E e \in Events : PublisherStep(e) \/ Store(e)
      \/ UNCHANGED outboxVars
    BY DEF Next, ChangeDirectory, ConsumerStep, Consume, Handle, Mark, Commit, Raise, Crash,
           DeliveryStep, Take, Report, vars
<1> QED BY <1>1, <1>2, <1>3, <1>4

LEMMA NextRefinesDeliveries ==
    ASSUME ServiceInv, [Next]_vars
    PROVE  Deliveries!Next \/ UNCHANGED <<phase, tries>>
<1>1. ASSUME NEW u \in Profiles, DeliveryStep(u) PROVE Deliveries!Next
    <2>1. CASE Take(u)
        BY <2>1 DEF Take, Deliveries!Next
    <2>2. CASE Report(u)
        BY <2>2 DEF Report, Deliveries!Next
    <2> QED BY <1>1, <2>1, <2>2 DEF DeliveryStep
<1>2. ASSUME UNCHANGED deliveryVars PROVE UNCHANGED <<phase, tries>>
    BY <1>2 DEF deliveryVars
<1>3. \/ Handle
      \/ \E u \in Profiles : DeliveryStep(u)
      \/ UNCHANGED deliveryVars
    BY DEF Next, Accept, Retry, ChangeDirectory, PublisherStep, Claim, Finalize, Store,
           ConsumerStep, Consume, Mark, Commit, Raise, Crash, vars
<1> QED BY <1>1, <1>2, <1>3, FanoutInvisible

\* The pipeline puts the outbox and the delivery rows through steps of their
\* ledgers only: a retry adds an event once, and a fanout, of whatever copy or
\* replay, touches no row that the delivery workers know.
THEOREM PipelineRunsLedgers == Spec => Outbox!Spec /\ Deliveries!Spec
<1>1. Init => Outbox!Init /\ Deliveries!Init
    BY DEF Init
<1>2. [Next]_vars => [Outbox!Next]_<<eventPhase, eventFails, Range(topic)>>
    BY NextRefinesOutbox
<1>3. ServiceInv /\ [Next]_vars => [Deliveries!Next]_<<phase, tries>>
    BY NextRefinesDeliveries
<1>4. ServiceInv /\ [Next]_vars => ServiceInv'
    BY ServiceNextInv
<1> QED
    BY <1>1, <1>2, <1>3, <1>4, ServiceInitInv, PTL DEF Spec, Outbox!Spec, Deliveries!Spec
=============================================================================
