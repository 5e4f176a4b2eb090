---------------------- MODULE FanoutTransactionsProofs ----------------------
(***************************************************************************)
(* Proofs about FanoutTransactions, for any users, channels, limits and    *)
(* any number of overlapping transactions.                                 *)
(***************************************************************************)
EXTENDS FanoutTransactions, FiniteSetTheorems, TLAPS

\* Rows can be counted.
LEMMA CountTypes ==
    /\ \A S \in SUBSET Users :
        IsFiniteSet(S) /\ Cardinality(S) \in 0 .. Cardinality(Users)
    /\ \A D \in SUBSET (Users \X Channels) :
        IsFiniteSet(D) /\ Cardinality(D) \in 0 .. Cardinality(Users) * Cardinality(Channels)
<1>1. /\ Cardinality(Users) \in Nat
      /\ \A S \in SUBSET Users : /\ IsFiniteSet(S) /\ Cardinality(S) \in Nat
                                 /\ Cardinality(S) =< Cardinality(Users)
    BY FS_Subset, FS_CardinalityType, FinitenessAssumption
<1>2. /\ IsFiniteSet(Users \X Channels)
      /\ Cardinality(Users \X Channels) = Cardinality(Users) * Cardinality(Channels)
    BY FS_Product, FinitenessAssumption
<1>3. /\ Cardinality(Users \X Channels) \in Nat
      /\ \A D \in SUBSET (Users \X Channels) :
            /\ IsFiniteSet(D) /\ Cardinality(D) \in Nat
            /\ Cardinality(D) =< Cardinality(Users \X Channels)
    BY <1>2, FS_Subset, FS_CardinalityType
<1>4. \A S \in SUBSET Users : Cardinality(S) \in 0 .. Cardinality(Users)
    BY <1>1
<1>5. \A D \in SUBSET (Users \X Channels) :
        Cardinality(D) \in 0 .. Cardinality(Users \X Channels)
    BY <1>3
<1> QED BY <1>1, <1>2, <1>3, <1>4, <1>5

\* A growing table does not get fewer rows.
LEMMA CountGrows ==
    /\ \A S, T \in SUBSET Users : S \subseteq T => Cardinality(S) =< Cardinality(T)
    /\ \A D, E \in SUBSET (Users \X Channels) : D \subseteq E => Cardinality(D) =< Cardinality(E)
BY CountTypes, FS_Subset

LEMMA NumberTypes ==
    /\ Cardinality(Users) \in Nat
    /\ Cardinality(Users) * Cardinality(Channels) \in Nat
<1>1. Cardinality(Users) \in Nat /\ Cardinality(Channels) \in Nat
    BY FS_CardinalityType, FinitenessAssumption
<1> QED BY <1>1

LEMMA CountsType ==
    /\ NoCounts \in Counts
    /\ \A c \in Counts : /\ c.r \in 0 .. Cardinality(Users)
                         /\ c.d \in 0 .. Cardinality(Users) * Cardinality(Channels)
                         /\ c.r \in Nat /\ c.d \in Nat
BY NumberTypes DEF NoCounts, Counts

\* Closing a transaction keeps the types.
LEMMA CloseType ==
    ASSUME TypeOK, NEW t \in Fanouts, Close(t)
    PROVE  /\ pc' \in [Fanouts -> {"idle", "resolving", "listing", "inserting", "delivering",
                                   "counting", "committing"}]
           /\ loaded' \in [Fanouts -> Counts]
           /\ users' \in [Fanouts -> SUBSET Users]
           /\ missing' \in [Fanouts -> SUBSET Users]
           /\ ownRecipients' \in [Fanouts -> SUBSET Users]
           /\ ownDeliveries' \in [Fanouts -> SUBSET (Users \X Channels)]
           /\ counted' \in [Fanouts -> Counts]
<1>1. /\ pc' \in [Fanouts -> {"idle", "resolving", "listing", "inserting", "delivering",
                              "counting", "committing"}]
      /\ users' \in [Fanouts -> SUBSET Users]
      /\ missing' \in [Fanouts -> SUBSET Users]
      /\ ownRecipients' \in [Fanouts -> SUBSET Users]
      /\ ownDeliveries' \in [Fanouts -> SUBSET (Users \X Channels)]
    BY DEF Close, TypeOK
<1>2. loaded' \in [Fanouts -> Counts] /\ counted' \in [Fanouts -> Counts]
    BY CountsType DEF Close, TypeOK
<1> QED BY <1>1, <1>2

LEMMA FanoutTypeInit == Init => TypeOK
<1> SUFFICES ASSUME Init PROVE TypeOK
    OBVIOUS
<1>1. NoCounts \in Counts
    BY CountsType
<1> HIDE DEF NoCounts
<1>2. loaded \in [Fanouts -> Counts] /\ counted \in [Fanouts -> Counts] /\ counts \in Counts
    BY <1>1 DEF Init
<1> QED BY <1>2, BoundAssumption DEF Init, TypeOK

LEMMA FanoutTypeNext == ASSUME TypeOK, [Next]_vars PROVE TypeOK'
<1> USE DEF rowVars, txnVars
<1>1. ASSUME NEW t \in Fanouts, Load(t) PROVE TypeOK'
    BY <1>1 DEF Load, Goto, TypeOK, Counts
<1>2. ASSUME NEW t \in Fanouts, Resolve(t) PROVE TypeOK'
    BY <1>2 DEF Resolve, Goto, TypeOK, Counts
<1>3. ASSUME NEW t \in Fanouts, ListMissing(t) PROVE TypeOK'
    BY <1>3 DEF ListMissing, Missing, Goto, TypeOK, Counts
<1>4. ASSUME NEW t \in Fanouts, NEW u \in Users, InsertRecipient(t, u) PROVE TypeOK'
    BY <1>4 DEF InsertRecipient, TypeOK, Counts
<1>5. ASSUME NEW t \in Fanouts, ListRecipients(t) PROVE TypeOK'
    <2>1. Cardinality(Recipients(t)) \in 0 .. Cardinality(Users)
        BY CountTypes DEF Recipients, TypeOK
    <2>2. counted' \in [Fanouts -> Counts]
        BY <1>5, <2>1 DEF ListRecipients, TypeOK, Counts
    <2> QED BY <1>5, <2>2 DEF ListRecipients, Goto, TypeOK, Counts
<1>6. ASSUME NEW t \in Fanouts, InsertDeliveries(t) PROVE TypeOK'
    BY <1>6 DEF InsertDeliveries, Wanted, Goto, TypeOK, Counts
<1>7. ASSUME NEW t \in Fanouts, CountDeliveries(t) PROVE TypeOK'
    <2>1. Cardinality(Deliveries(t)) \in 0 .. Cardinality(Users) * Cardinality(Channels)
        BY CountTypes DEF Deliveries, TypeOK
    <2>2. counted' \in [Fanouts -> Counts]
        BY <1>7, <2>1 DEF CountDeliveries, TypeOK, Counts
    <2> QED BY <1>7, <2>2 DEF CountDeliveries, Goto, TypeOK, Counts
<1>8. ASSUME NEW t \in Fanouts, Commit(t) PROVE TypeOK'
    <2>1. Recipients(t) \subseteq Users /\ Deliveries(t) \subseteq Users \X Channels
        BY DEF Recipients, Deliveries, TypeOK
    <2>2. Flushed(t) \in Counts
        <3>1. counted[t] \in Counts /\ counts \in Counts
            BY DEF TypeOK
        <3> QED BY <3>1 DEF Flushed, Counts
    <2> QED BY <1>8, <2>1, <2>2, CloseType DEF Commit, TypeOK, Counts
<1>9. ASSUME NEW t \in Fanouts, RejectOverLimit(t) \/ RejectStatement(t) PROVE TypeOK'
    BY <1>9, CloseType DEF RejectOverLimit, RejectStatement, TypeOK, Counts
<1>10. ASSUME NEW t \in Fanouts, Abort(t) PROVE TypeOK'
    <2>1. aborts' \in 0 .. MaxAborts
        BY <1>10, BoundAssumption DEF Abort, TypeOK
    <2> QED BY <1>10, <2>1, CloseType DEF Abort, TypeOK, Counts
<1>11. CASE ChangeAudience
    <2>1. changes' \in 0 .. MaxChanges
        BY <1>11, BoundAssumption DEF ChangeAudience, TypeOK
    <2> QED BY <1>11, <2>1 DEF ChangeAudience, TypeOK, Counts
<1>12. CASE UNCHANGED vars
    BY <1>12 DEF vars, TypeOK, Counts
<1> QED
    BY <1>1, <1>2, <1>3, <1>4, <1>5, <1>6, <1>7, <1>8, <1>9, <1>10, <1>11, <1>12
    DEF Next, FanoutStep

\* Every variable keeps its type; no stored count exceeds the users and channels.
THEOREM FanoutTypeCorrect == Spec => []TypeOK
BY FanoutTypeInit, FanoutTypeNext, PTL DEF Spec
-----------------------------------------------------------------------------
(* Rows *)

Inserted == {"delivering", "counting", "committing"}

\* What a transaction has resolved, inserted and still to insert.
OwnRow(t) ==
    /\ ownRecipients[t] \subseteq users[t]
    /\ ownDeliveries[t] \subseteq Wanted(t)
    /\ missing[t] \subseteq users[t]
    /\ pc[t] \in {"idle", "resolving", "listing"} => ownRecipients[t] = {} /\ missing[t] = {}
    /\ pc[t] = "inserting" => users[t] \subseteq Recipients(t) \cup missing[t]
    /\ pc[t] \in Inserted => missing[t] = {} /\ users[t] \subseteq Recipients(t)
    /\ pc[t] \in {"counting", "committing"} => Wanted(t) \subseteq Deliveries(t)
    /\ pc[t] \notin {"counting", "committing"} => ownDeliveries[t] = {}
    /\ \A u \in ownRecipients[t], v \in missing[t] : u < v

RowsInv ==
    /\ TypeOK
    /\ \A t \in Fanouts : OwnRow(t)
    /\ InsertsDisjoint
    /\ RecipientsFullyServed

\* t works, the other transactions and the audience stand still.
Alone(t) ==
    /\ \A s \in Fanouts \ {t} :
        /\ pc'[s] = pc[s]
        /\ loaded'[s] = loaded[s]
        /\ users'[s] = users[s]
        /\ missing'[s] = missing[s]
        /\ ownRecipients'[s] = ownRecipients[s]
        /\ ownDeliveries'[s] = ownDeliveries[s]
        /\ counted'[s] = counted[s]
    /\ audience' = audience
    /\ changes' = changes

\* What the other transactions did is only helped by more committed rows.
LEMMA OthersKept ==
    ASSUME RowsInv, NEW t \in Fanouts, Alone(t),
           recipients \subseteq recipients', deliveries \subseteq deliveries',
           NEW s \in Fanouts \ {t}
    PROVE  OwnRow(s)'
BY DEF RowsInv, Alone, OwnRow, Wanted, Recipients, Deliveries, Inserted

\* A closed transaction has nothing.
Closed(t) ==
    /\ pc'[t] = "idle"
    /\ loaded'[t] = NoCounts
    /\ users'[t] = {} /\ missing'[t] = {}
    /\ ownRecipients'[t] = {} /\ ownDeliveries'[t] = {}

LEMMA CloseAlone ==
    ASSUME TypeOK, NEW t \in Fanouts, Close(t), UNCHANGED <<audience, changes>>
    PROVE  Alone(t) /\ Closed(t)
BY DEF Close, Alone, Closed, TypeOK

LEMMA ClosedRow ==
    ASSUME NEW t \in Fanouts, Closed(t) PROVE OwnRow(t)'
BY DEF Closed, OwnRow, Wanted, Inserted

LEMMA RowsInit == Init => RowsInv
<1> SUFFICES ASSUME Init PROVE RowsInv
    OBVIOUS
<1>1. \A t \in Fanouts : OwnRow(t)
    BY DEF Init, OwnRow, Wanted, Inserted
<1>2. InsertsDisjoint /\ RecipientsFullyServed
    BY DEF Init, InsertsDisjoint, RecipientsFullyServed, Recipients, Deliveries
<1> QED BY <1>1, <1>2, FanoutTypeInit DEF RowsInv

\* A step inside t that inserts only rows no other transaction has inserted.
LEMMA InnerStep ==
    ASSUME RowsInv, TypeOK', NEW t \in Fanouts, Alone(t), UNCHANGED <<recipients, deliveries>>,
           OwnRow(t)',
           \A s \in Fanouts \ {t} : /\ ownRecipients'[t] \cap Recipients(s) = {}
                                   /\ ownDeliveries'[t] \cap Deliveries(s) = {}
    PROVE  RowsInv'
<1>1. \A s \in Fanouts : OwnRow(s)'
    BY OthersKept
<1>2. InsertsDisjoint'
    <2> SUFFICES ASSUME NEW s \in Fanouts, NEW q \in Fanouts, s # q
                 PROVE  /\ ownRecipients'[s] \cap (recipients \cup ownRecipients'[q]) = {}
                        /\ ownDeliveries'[s] \cap (deliveries \cup ownDeliveries'[q]) = {}
        BY DEF InsertsDisjoint, Recipients, Deliveries
    <2>1. CASE s = t
        BY <2>1 DEF Alone, RowsInv, InsertsDisjoint, Recipients, Deliveries
    <2>2. CASE q = t
        <3>1. /\ ownRecipients'[s] \cap recipients = {}
              /\ ownDeliveries'[s] \cap deliveries = {}
            BY <2>2 DEF Alone, RowsInv, InsertsDisjoint, Recipients, Deliveries
        <3> QED BY <2>2, <3>1 DEF Alone, Recipients, Deliveries
    <2>3. CASE s # t /\ q # t
        BY <2>3 DEF Alone, RowsInv, InsertsDisjoint, Recipients, Deliveries
    <2> QED BY <2>1, <2>2, <2>3
<1>3. RecipientsFullyServed'
    BY DEF RowsInv, RecipientsFullyServed
<1> QED BY <1>1, <1>2, <1>3 DEF RowsInv

\* A step inside t that inserts nothing.
LEMMA QuietStep ==
    ASSUME RowsInv, TypeOK', NEW t \in Fanouts, Alone(t), UNCHANGED <<recipients, deliveries>>,
           OwnRow(t)', ownRecipients'[t] = ownRecipients[t], ownDeliveries'[t] = ownDeliveries[t]
    PROVE  RowsInv'
<1>1. \A s \in Fanouts \ {t} : /\ ownRecipients'[t] \cap Recipients(s) = {}
                              /\ ownDeliveries'[t] \cap Deliveries(s) = {}
    BY DEF RowsInv, InsertsDisjoint
<1> QED BY <1>1, InnerStep

LEMMA ClosingStep ==
    ASSUME RowsInv, TypeOK', NEW t \in Fanouts, Alone(t), Closed(t),
           UNCHANGED <<recipients, deliveries>>
    PROVE  RowsInv'
<1>1. OwnRow(t)'
    BY ClosedRow
<1>2. \A s \in Fanouts \ {t} : /\ ownRecipients'[t] \cap Recipients(s) = {}
                              /\ ownDeliveries'[t] \cap Deliveries(s) = {}
    BY DEF Closed
<1> QED BY <1>1, <1>2, InnerStep

\* The committed rows of t complete its users on every channel.
LEMMA CommitRows ==
    ASSUME RowsInv, TypeOK', NEW t \in Fanouts, Commit(t) PROVE RowsInv'
<1>1. /\ pc[t] = "committing" /\ Alone(t) /\ Closed(t)
      /\ recipients' = Recipients(t) /\ deliveries' = Deliveries(t)
    BY CloseAlone DEF Commit, RowsInv
<1>2. recipients \subseteq recipients' /\ deliveries \subseteq deliveries'
    BY <1>1 DEF Recipients, Deliveries
<1>3. \A s \in Fanouts : OwnRow(s)'
    BY <1>1, <1>2, OthersKept, ClosedRow
<1>4. InsertsDisjoint'
    <2> SUFFICES ASSUME NEW s \in Fanouts, NEW q \in Fanouts, s # q
                 PROVE  /\ ownRecipients'[s] \cap (recipients' \cup ownRecipients'[q]) = {}
                        /\ ownDeliveries'[s] \cap (deliveries' \cup ownDeliveries'[q]) = {}
        BY DEF InsertsDisjoint, Recipients, Deliveries
    <2>1. CASE s = t
        BY <1>1, <2>1 DEF Closed
    <2>2. CASE s # t
        <3>1. /\ ownRecipients'[s] \cap recipients' = {}
              /\ ownDeliveries'[s] \cap deliveries' = {}
            BY <1>1, <2>2 DEF Alone, RowsInv, InsertsDisjoint
        <3>2. CASE q = t
            BY <1>1, <3>1, <3>2 DEF Closed
        <3>3. CASE q # t
            BY <1>1, <2>2, <3>1, <3>3 DEF Alone, RowsInv, InsertsDisjoint, Recipients, Deliveries
        <3> QED BY <3>2, <3>3
    <2> QED BY <2>1, <2>2
<1>5. RecipientsFullyServed'
    <2>1. /\ ownRecipients[t] \subseteq users[t]
          /\ users[t] \subseteq recipients \cup ownRecipients[t]
          /\ ownDeliveries[t] \subseteq users[t] \X Channels
          /\ users[t] \X Channels \subseteq deliveries \cup ownDeliveries[t]
          /\ deliveries = recipients \X Channels
        BY <1>1 DEF RowsInv, RecipientsFullyServed, OwnRow, Wanted, Recipients, Deliveries, Inserted
    <2>2. deliveries \cup ownDeliveries[t] = (recipients \cup ownRecipients[t]) \X Channels
        BY <2>1
    <2> QED BY <1>1, <2>2 DEF RecipientsFullyServed, Recipients, Deliveries
<1> QED BY <1>3, <1>4, <1>5 DEF RowsInv

LEMMA InsertRows ==
    ASSUME RowsInv, TypeOK', NEW t \in Fanouts, NEW u \in Users, InsertRecipient(t, u)
    PROVE  RowsInv'
<1>1. /\ pc[t] = "inserting" /\ u \in missing[t] /\ \A v \in missing[t] : u =< v
      /\ \A s \in Fanouts \ {t} : u \notin ownRecipients[s]
      /\ missing'[t] = missing[t] \ {u}
      /\ ownRecipients'[t] = ownRecipients[t] \cup ({u} \ recipients)
      /\ pc' = pc /\ users' = users /\ ownDeliveries' = ownDeliveries
      /\ UNCHANGED <<recipients, deliveries>>
      /\ Alone(t)
    BY DEF InsertRecipient, NextUser, Uncommitted, rowVars, RowsInv, TypeOK, Alone
<1>2. users[t] \subseteq Nat /\ missing[t] \subseteq Nat
    BY BoundAssumption DEF RowsInv, TypeOK
<1>3. \A a \in ownRecipients'[t], b \in missing'[t] : a < b
    <2> SUFFICES ASSUME NEW a \in ownRecipients'[t], NEW b \in missing'[t] PROVE a < b
        OBVIOUS
    <2>1. CASE a \in ownRecipients[t]
        BY <1>1, <2>1 DEF RowsInv, OwnRow
    <2>2. CASE a = u
        BY <1>1, <1>2, <2>2
    <2> QED BY <1>1, <2>1, <2>2
<1>4. OwnRow(t)'
    BY <1>1, <1>3 DEF RowsInv, OwnRow, Wanted, Recipients, Deliveries, Inserted
<1>5. \A s \in Fanouts \ {t} : /\ ownRecipients'[t] \cap Recipients(s) = {}
                              /\ ownDeliveries'[t] \cap Deliveries(s) = {}
    BY <1>1 DEF RowsInv, InsertsDisjoint, Recipients, Deliveries
<1> QED BY <1>1, <1>4, <1>5, InnerStep

LEMMA RowsNext == ASSUME RowsInv, [Next]_vars PROVE RowsInv'
<1>0. TypeOK /\ TypeOK'
    BY FanoutTypeNext DEF RowsInv
<1> USE DEF rowVars, txnVars
<1>1. ASSUME NEW t \in Fanouts, Load(t) \/ Resolve(t) PROVE RowsInv'
    <2>1. /\ Alone(t) /\ pc[t] \in {"idle", "resolving"} /\ pc'[t] \in {"resolving", "listing"}
          /\ UNCHANGED <<missing, ownRecipients, ownDeliveries, recipients, deliveries>>
        BY <1>0, <1>1 DEF Load, Resolve, Goto, Alone, TypeOK
    <2>2. OwnRow(t)'
        BY <2>1 DEF RowsInv, OwnRow, Wanted, Inserted
    <2> QED BY <1>0, <2>1, <2>2, QuietStep
<1>2. ASSUME NEW t \in Fanouts, ListMissing(t) PROVE RowsInv'
    <2>1. /\ Alone(t) /\ pc[t] = "listing" /\ pc'[t] = "inserting"
          /\ missing'[t] = users[t] \ Recipients(t)
          /\ UNCHANGED <<users, ownRecipients, ownDeliveries, recipients, deliveries>>
        BY <1>0, <1>2 DEF ListMissing, Missing, Goto, Alone, TypeOK
    <2>2. OwnRow(t)'
        BY <2>1 DEF RowsInv, OwnRow, Wanted, Inserted, Recipients, Deliveries
    <2> QED BY <1>0, <2>1, <2>2, QuietStep
<1>3. ASSUME NEW t \in Fanouts, NEW u \in Users, InsertRecipient(t, u) PROVE RowsInv'
    BY <1>0, <1>3, InsertRows
<1>4. ASSUME NEW t \in Fanouts, ListRecipients(t) \/ CountDeliveries(t) PROVE RowsInv'
    <2>1. /\ Alone(t)
          /\ \/ missing[t] = {} /\ pc[t] = "inserting" /\ pc'[t] = "delivering"
             \/ pc[t] = "counting" /\ pc'[t] = "committing"
          /\ UNCHANGED <<users, missing, ownRecipients, ownDeliveries, recipients, deliveries>>
        BY <1>0, <1>4 DEF ListRecipients, CountDeliveries, Goto, Alone, TypeOK
    <2>2. OwnRow(t)'
        BY <2>1 DEF RowsInv, OwnRow, Wanted, Inserted, Recipients, Deliveries
    <2> QED BY <1>0, <2>1, <2>2, QuietStep
<1>5. ASSUME NEW t \in Fanouts, InsertDeliveries(t) PROVE RowsInv'
    <2>1. /\ Alone(t) /\ pc[t] = "delivering" /\ pc'[t] = "counting"
          /\ ownDeliveries'[t] = Wanted(t) \ deliveries
          /\ \A s \in Fanouts \ {t} : ownDeliveries[s] \cap Wanted(t) = {}
          /\ UNCHANGED <<users, missing, ownRecipients, recipients, deliveries>>
        BY <1>0, <1>5 DEF InsertDeliveries, Goto, Alone, TypeOK
    <2>2. OwnRow(t)'
        BY <2>1 DEF RowsInv, OwnRow, Wanted, Inserted, Recipients, Deliveries
    <2>3. \A s \in Fanouts \ {t} : /\ ownRecipients'[t] \cap Recipients(s) = {}
                                  /\ ownDeliveries'[t] \cap Deliveries(s) = {}
        BY <2>1 DEF RowsInv, InsertsDisjoint, Deliveries
    <2> QED BY <1>0, <2>1, <2>2, <2>3, InnerStep
<1>6. ASSUME NEW t \in Fanouts, Commit(t) PROVE RowsInv'
    BY <1>0, <1>6, CommitRows
<1>7. ASSUME NEW t \in Fanouts, RejectOverLimit(t) \/ RejectStatement(t) \/ Abort(t)
      PROVE  RowsInv'
    <2>1. Close(t) /\ UNCHANGED <<audience, changes, recipients, deliveries>>
        BY <1>7 DEF RejectOverLimit, RejectStatement, Abort
    <2> QED BY <1>0, <2>1, CloseAlone, ClosingStep
<1>8. CASE ChangeAudience \/ UNCHANGED vars
    <2>1. UNCHANGED <<recipients, deliveries, pc, users, missing, ownRecipients, ownDeliveries>>
        BY <1>8 DEF ChangeAudience, vars
    <2>2. \A t \in Fanouts : OwnRow(t)'
        BY <2>1 DEF RowsInv, OwnRow, Wanted, Recipients, Deliveries
    <2>3. InsertsDisjoint' /\ RecipientsFullyServed'
        BY <2>1 DEF RowsInv, InsertsDisjoint, RecipientsFullyServed, Recipients, Deliveries
    <2> QED BY <1>0, <2>2, <2>3 DEF RowsInv
<1> QED
    BY <1>1, <1>2, <1>3, <1>4, <1>5, <1>6, <1>7, <1>8 DEF Next, FanoutStep

LEMMA RowsAlways == Spec => []RowsInv
BY RowsInit, RowsNext, PTL DEF Spec

\* No fanout fails because another one runs.
THEOREM FanoutsAreIndependent == Spec => []FanoutsIndependent
<1>1. RowsInv => FanoutsIndependent
    BY DEF RowsInv, FanoutsIndependent, RecipientsKnown, OwnRow, Inserted
<1> QED BY <1>1, RowsAlways, PTL

\* Every recipient has exactly one delivery on every channel.
THEOREM RecipientsAreFullyServed == Spec => []RecipientsFullyServed
BY RowsAlways, PTL DEF RowsInv

\* Two fanouts never wait for each other's rows, since both insert in the order
\* of the user ids.
THEOREM FanoutsDoNotDeadlock == Spec => []NoCircularWait
<1>1. RowsInv => NoCircularWait
    <2> SUFFICES ASSUME RowsInv, NEW s \in Fanouts, NEW t \in Fanouts,
                        WaitsFor(s, t), WaitsFor(t, s)
                 PROVE  FALSE
        BY DEF NoCircularWait
    <2>1. PICK u \in missing[s] : u \in ownRecipients[t]
        BY DEF WaitsFor, NextUser
    <2>2. PICK v \in missing[t] : v \in ownRecipients[s]
        BY DEF WaitsFor, NextUser
    <2>3. u < v /\ v < u
        BY <2>1, <2>2 DEF RowsInv, OwnRow
    <2>4. u \in Nat /\ v \in Nat
        BY <2>1, <2>2, BoundAssumption DEF RowsInv, TypeOK
    <2> QED BY <2>3, <2>4
<1> QED BY <1>1, RowsAlways, PTL

-----------------------------------------------------------------------------
(* Counts *)

\* The counts are of rows that are there or will be, and while the audience has
\* not changed, of all the rows the audience gets.
CountedRow(t) ==
    /\ pc[t] \in Inserted => counted[t].r =< Cardinality(Recipients(t))
    /\ pc[t] = "committing" => counted[t].d =< Cardinality(Deliveries(t))

ExactRow(t) ==
    /\ loaded[t].r =< counts.r /\ loaded[t].d =< counts.d
    /\ pc[t] \in {"listing", "inserting"} \cup Inserted => users[t] = audience
    /\ pc[t] \in Inserted => counted[t].r = Cardinality(audience)
    /\ pc[t] = "committing" => counted[t].d = Cardinality(audience \X Channels)

Exact ==
    /\ counts.r = Cardinality(recipients) /\ counts.d = Cardinality(deliveries)
    /\ recipients \subseteq audience
    /\ \A t \in Fanouts : ownRecipients[t] \subseteq audience /\ ExactRow(t)

CountInv ==
    /\ counts.r =< Cardinality(recipients)
    /\ counts.d =< Cardinality(deliveries)
    /\ \A t \in Fanouts : CountedRow(t)
    /\ changes = 0 => Exact

LEMMA CountInit == Init => CountInv
<1> SUFFICES ASSUME Init PROVE CountInv
    OBVIOUS
<1>1. Cardinality(recipients) = 0 /\ Cardinality(deliveries) = 0
    BY FS_EmptySet DEF Init
<1>2. counts.r = 0 /\ counts.d = 0 /\ \A t \in Fanouts : loaded[t].r = 0 /\ loaded[t].d = 0
    BY DEF Init, NoCounts
<1>3. \A t \in Fanouts : pc[t] = "idle" /\ ownRecipients[t] = {}
    BY DEF Init
<1> QED BY <1>1, <1>2, <1>3 DEF Init, CountInv, CountedRow, Exact, ExactRow, Inserted

\* The rows t sees can be counted.
LEMMA SeenTypes ==
    ASSUME TypeOK, NEW t \in Fanouts
    PROVE  /\ Recipients(t) \in SUBSET Users /\ Deliveries(t) \in SUBSET (Users \X Channels)
           /\ Cardinality(Recipients(t)) \in Nat /\ Cardinality(Deliveries(t)) \in Nat
           /\ Cardinality(recipients) \in Nat /\ Cardinality(deliveries) \in Nat
           /\ counted[t].r \in Nat /\ counted[t].d \in Nat
           /\ loaded[t].r \in Nat /\ loaded[t].d \in Nat
           /\ counts.r \in Nat /\ counts.d \in Nat
<1>1. Recipients(t) \in SUBSET Users /\ Deliveries(t) \in SUBSET (Users \X Channels)
    BY DEF TypeOK, Recipients, Deliveries
<1>2. \A S \in SUBSET Users : Cardinality(S) \in Nat
    BY CountTypes
<1>3. \A D \in SUBSET (Users \X Channels) : Cardinality(D) \in Nat
    BY CountTypes, FS_CardinalityType
<1>4. counted[t] \in Counts /\ loaded[t] \in Counts /\ counts \in Counts
    BY DEF TypeOK
<1>5. recipients \in SUBSET Users /\ deliveries \in SUBSET (Users \X Channels)
    BY DEF TypeOK
<1> QED BY <1>1, <1>2, <1>3, <1>4, <1>5, CountsType

\* A step inside t that keeps what is committed.
LEMMA CountInner ==
    ASSUME TypeOK, CountInv, NEW t \in Fanouts, Alone(t), UNCHANGED rowVars,
           CountedRow(t)', changes = 0 => ExactRow(t)' /\ ownRecipients'[t] \subseteq audience
    PROVE  CountInv'
<1>1. \A s \in Fanouts : CountedRow(s)'
    BY DEF CountInv, CountedRow, Alone, rowVars, Recipients, Deliveries
<1>2. changes = 0 => \A s \in Fanouts : ownRecipients'[s] \subseteq audience /\ ExactRow(s)'
    BY DEF CountInv, Exact, ExactRow, Alone, rowVars
<1> QED BY <1>1, <1>2 DEF CountInv, Exact, rowVars, Alone

LEMMA CountClosed ==
    ASSUME TypeOK, NEW t \in Fanouts, Closed(t), counts'.r \in Nat, counts'.d \in Nat
    PROVE  CountedRow(t)' /\ ExactRow(t)' /\ ownRecipients'[t] \subseteq audience
<1>1. loaded'[t].r = 0 /\ loaded'[t].d = 0 /\ pc'[t] = "idle" /\ ownRecipients'[t] = {}
    BY DEF Closed, NoCounts
<1> QED BY <1>1 DEF CountedRow, ExactRow, Inserted

\* As long as the audience stays, t has inserted all of it and nothing else.
LEMMA AllOfAudience ==
    ASSUME RowsInv, Exact, NEW t \in Fanouts, pc[t] \in Inserted
    PROVE  Recipients(t) = audience
BY DEF RowsInv, Exact, ExactRow, OwnRow, Recipients

LEMMA CommitCounts ==
    ASSUME RowsInv, TypeOK', CountInv, NEW t \in Fanouts, Commit(t) PROVE CountInv'
<1>1. /\ pc[t] = "committing" /\ Alone(t) /\ Closed(t)
      /\ recipients' = Recipients(t) /\ deliveries' = Deliveries(t)
      /\ counts' = Flushed(t)
    BY CloseAlone DEF Commit, RowsInv
<1>2. TypeOK /\ counts'.r \in Nat /\ counts'.d \in Nat
    <2>1. counts' \in Counts
        BY DEF TypeOK, Counts
    <2> QED BY <2>1, CountsType DEF RowsInv
<1>3. recipients \subseteq recipients' /\ deliveries \subseteq deliveries'
      /\ recipients' \in SUBSET Users /\ deliveries' \in SUBSET (Users \X Channels)
      /\ recipients \in SUBSET Users /\ deliveries \in SUBSET (Users \X Channels)
    BY <1>1 DEF Recipients, Deliveries, TypeOK, RowsInv
<1>4. /\ Cardinality(recipients) =< Cardinality(recipients')
      /\ Cardinality(deliveries) =< Cardinality(deliveries')
    BY <1>3, CountGrows
<1>5. /\ counts'.r \in {counted[t].r, counts.r} /\ counts'.d \in {counted[t].d, counts.d}
      /\ counts'.r = (IF counted[t].r # loaded[t].r THEN counted[t].r ELSE counts.r)
      /\ counts'.d = (IF counted[t].d # loaded[t].d THEN counted[t].d ELSE counts.d)
    BY <1>1 DEF Flushed
<1>6. /\ Cardinality(recipients) \in Nat /\ Cardinality(deliveries) \in Nat
      /\ Cardinality(recipients') \in Nat /\ Cardinality(deliveries') \in Nat
      /\ counted[t].r \in Nat /\ counted[t].d \in Nat
      /\ loaded[t].r \in Nat /\ loaded[t].d \in Nat
      /\ counts.r \in Nat /\ counts.d \in Nat
    BY <1>1, <1>2, SeenTypes
<1>7. counts'.r =< Cardinality(recipients') /\ counts'.d =< Cardinality(deliveries')
    <2>1. counted[t].r =< Cardinality(recipients') /\ counted[t].d =< Cardinality(deliveries')
        BY <1>1 DEF CountInv, CountedRow, Inserted
    <2>2. counts.r =< Cardinality(recipients) /\ counts.d =< Cardinality(deliveries)
        BY DEF CountInv
    <2> QED BY <1>4, <1>5, <1>6, <2>1, <2>2
<1>8. ASSUME NEW s \in Fanouts PROVE CountedRow(s)'
    <2>1. CASE s = t
        BY <1>2, <1>1, <2>1, CountClosed
    <2>2. CASE s # t
        <3>1. pc'[s] = pc[s] /\ counted'[s] = counted[s] /\ ownRecipients'[s] = ownRecipients[s]
              /\ ownDeliveries'[s] = ownDeliveries[s]
            BY <1>1, <2>2 DEF Alone
        <3>2. Recipients(s) \subseteq Recipients(s)' /\ Deliveries(s) \subseteq Deliveries(s)'
            BY <1>3, <3>1 DEF Recipients, Deliveries
        <3>3. /\ Recipients(s)' \in SUBSET Users /\ Deliveries(s)' \in SUBSET (Users \X Channels)
              /\ Cardinality(Recipients(s)') \in Nat /\ Cardinality(Deliveries(s)') \in Nat
            <4>1. /\ Recipients(s)' \in SUBSET Users
                  /\ Deliveries(s)' \in SUBSET (Users \X Channels)
                BY DEF TypeOK, Recipients, Deliveries
            <4> QED BY <4>1, CountTypes, FS_CardinalityType
        <3>4. /\ Cardinality(Recipients(s)) =< Cardinality(Recipients(s)')
              /\ Cardinality(Deliveries(s)) =< Cardinality(Deliveries(s)')
            BY <1>2, <3>2, <3>3, CountGrows, SeenTypes
        <3>5. CountedRow(s) /\ counted[s].r \in Nat /\ counted[s].d \in Nat
              /\ Cardinality(Recipients(s)) \in Nat /\ Cardinality(Deliveries(s)) \in Nat
            BY <1>2, SeenTypes DEF CountInv
        <3> QED BY <3>1, <3>3, <3>4, <3>5 DEF CountedRow
    <2> QED BY <2>1, <2>2
<1>9. ASSUME changes = 0 PROVE Exact'
    <2>1. Exact /\ audience' = audience
        BY <1>1, <1>9 DEF CountInv, Alone
    <2>2. recipients' = audience
        BY <1>1, <2>1, AllOfAudience DEF Inserted
    <2>3. deliveries' = audience \X Channels
        <3>1. RecipientsFullyServed'
            BY CommitRows DEF RowsInv
        <3> QED BY <2>2, <3>1 DEF RecipientsFullyServed
    <2>4. /\ counted[t].r = Cardinality(recipients') /\ counted[t].d = Cardinality(deliveries')
          /\ loaded[t].r =< counts.r /\ loaded[t].d =< counts.d
          /\ counts.r = Cardinality(recipients) /\ counts.d = Cardinality(deliveries)
        BY <1>1, <2>1, <2>2, <2>3 DEF Exact, ExactRow, Inserted
    <2>5. /\ counts'.r = Cardinality(recipients') /\ counts'.d = Cardinality(deliveries')
          /\ counts.r =< counts'.r /\ counts.d =< counts'.d
        BY <1>4, <1>5, <1>6, <2>4
    <2>6. ASSUME NEW s \in Fanouts PROVE ownRecipients'[s] \subseteq audience /\ ExactRow(s)'
        <3>1. CASE s = t
            BY <1>1, <1>2, <3>1, CountClosed
        <3>2. CASE s # t
            <4>1. /\ pc'[s] = pc[s] /\ counted'[s] = counted[s] /\ loaded'[s] = loaded[s]
                  /\ users'[s] = users[s] /\ ownRecipients'[s] = ownRecipients[s]
                BY <1>1, <3>2 DEF Alone
            <4>2. loaded[s].r \in Nat /\ loaded[s].d \in Nat
                BY <1>2, SeenTypes
            <4>3. loaded[s].r =< counts'.r /\ loaded[s].d =< counts'.d
                BY <1>2, <1>6, <2>1, <2>5, <4>2 DEF Exact, ExactRow
            <4> QED BY <2>1, <4>1, <4>3 DEF Exact, ExactRow
        <3> QED BY <3>1, <3>2
    <2> QED BY <2>1, <2>2, <2>5, <2>6 DEF Exact
<1> QED BY <1>1, <1>7, <1>8, <1>9 DEF CountInv, Alone

LEMMA CountNext == ASSUME RowsInv, CountInv, [Next]_vars PROVE CountInv'
<1>0. TypeOK /\ TypeOK' /\ changes \in Nat
    BY FanoutTypeNext, BoundAssumption DEF RowsInv, TypeOK
<1> USE DEF rowVars, txnVars
<1>1. ASSUME NEW t \in Fanouts, Load(t) PROVE CountInv'
    <2>1. /\ Alone(t) /\ pc'[t] = "resolving" /\ loaded'[t] = counts
          /\ ownRecipients' = ownRecipients /\ UNCHANGED rowVars
        BY <1>0, <1>1 DEF Load, Goto, Alone, TypeOK
    <2>2. CountedRow(t)'
        BY <2>1 DEF CountedRow, Inserted
    <2>3. changes = 0 => ExactRow(t)' /\ ownRecipients'[t] \subseteq audience
        <3>1. counts.r =< counts.r /\ counts.d =< counts.d
            BY <1>0, SeenTypes
        <3> QED BY <2>1, <3>1 DEF CountInv, Exact, ExactRow, Inserted
    <2> QED BY <1>0, <2>1, <2>2, <2>3, CountInner
<1>2. ASSUME NEW t \in Fanouts, Resolve(t) PROVE CountInv'
    <2>1. /\ Alone(t) /\ pc'[t] = "listing" /\ users'[t] = audience
          /\ UNCHANGED <<loaded, ownRecipients, rowVars>>
        BY <1>0, <1>2 DEF Resolve, Goto, Alone, TypeOK
    <2>2. CountedRow(t)'
        BY <2>1 DEF CountedRow, Inserted
    <2>3. changes = 0 => ExactRow(t)' /\ ownRecipients'[t] \subseteq audience
        BY <2>1 DEF CountInv, Exact, ExactRow, Inserted, Alone
    <2> QED BY <1>0, <2>1, <2>2, <2>3, CountInner
<1>3. ASSUME NEW t \in Fanouts, ListMissing(t) PROVE CountInv'
    <2>1. /\ Alone(t) /\ pc[t] = "listing" /\ pc'[t] = "inserting"
          /\ UNCHANGED <<loaded, users, ownRecipients, rowVars>>
        BY <1>0, <1>3 DEF ListMissing, Goto, Alone, TypeOK
    <2>2. CountedRow(t)'
        BY <2>1 DEF CountedRow, Inserted
    <2>3. changes = 0 => ExactRow(t)' /\ ownRecipients'[t] \subseteq audience
        BY <2>1 DEF CountInv, Exact, ExactRow, Inserted, Alone
    <2> QED BY <1>0, <2>1, <2>2, <2>3, CountInner
<1>4. ASSUME NEW t \in Fanouts, NEW u \in Users, InsertRecipient(t, u) PROVE CountInv'
    <2>1. /\ Alone(t) /\ pc[t] = "inserting" /\ pc'[t] = "inserting" /\ u \in missing[t]
          /\ ownRecipients'[t] = ownRecipients[t] \cup ({u} \ recipients)
          /\ UNCHANGED <<loaded, users, rowVars>>
        BY <1>0, <1>4 DEF InsertRecipient, NextUser, Alone, TypeOK
    <2>2. CountedRow(t)'
        BY <2>1 DEF CountedRow, Inserted
    <2>3. missing[t] \subseteq users[t]
        BY DEF RowsInv, OwnRow
    <2>4. changes = 0 => ExactRow(t)' /\ ownRecipients'[t] \subseteq audience
        BY <2>1, <2>3 DEF CountInv, Exact, ExactRow, Inserted, Alone
    <2> QED BY <1>0, <2>1, <2>2, <2>4, CountInner
<1>5. ASSUME NEW t \in Fanouts, ListRecipients(t) PROVE CountInv'
    <2>1. /\ Alone(t) /\ pc[t] = "inserting" /\ pc'[t] = "delivering"
          /\ missing[t] = {} /\ counted'[t].r = Cardinality(Recipients(t))
          /\ UNCHANGED <<loaded, users, ownRecipients, rowVars>>
        BY <1>0, <1>5 DEF ListRecipients, Goto, Alone, TypeOK, Counts
    <2>2. Recipients(t)' = Recipients(t)
        BY <2>1 DEF Recipients
    <2>3. CountedRow(t)'
        BY <1>0, <2>1, <2>2, SeenTypes DEF CountedRow, Inserted
    <2>4. changes = 0 => Recipients(t) = audience
        BY <2>1 DEF RowsInv, OwnRow, CountInv, Exact, ExactRow, Recipients
    <2>5. changes = 0 => ExactRow(t)' /\ ownRecipients'[t] \subseteq audience
        BY <2>1, <2>4 DEF CountInv, Exact, ExactRow, Inserted, Alone
    <2> QED BY <1>0, <2>1, <2>3, <2>5, CountInner
<1>6. ASSUME NEW t \in Fanouts, InsertDeliveries(t) PROVE CountInv'
    <2>1. /\ Alone(t) /\ pc[t] = "delivering" /\ pc'[t] = "counting"
          /\ UNCHANGED <<loaded, users, ownRecipients, counted, rowVars>>
        BY <1>0, <1>6 DEF InsertDeliveries, Goto, Alone, TypeOK
    <2>2. CountedRow(t)'
        BY <2>1 DEF CountInv, CountedRow, Inserted, Recipients
    <2>3. changes = 0 => ExactRow(t)' /\ ownRecipients'[t] \subseteq audience
        BY <2>1 DEF CountInv, Exact, ExactRow, Inserted, Alone
    <2> QED BY <1>0, <2>1, <2>2, <2>3, CountInner
<1>7. ASSUME NEW t \in Fanouts, CountDeliveries(t) PROVE CountInv'
    <2>1. /\ Alone(t) /\ pc[t] = "counting" /\ pc'[t] = "committing"
          /\ counted'[t].r = counted[t].r /\ counted'[t].d = Cardinality(Deliveries(t))
          /\ UNCHANGED <<loaded, users, ownRecipients, ownDeliveries, rowVars>>
        BY <1>0, <1>7 DEF CountDeliveries, Goto, Alone, TypeOK, Counts
    <2>2. Recipients(t)' = Recipients(t) /\ Deliveries(t)' = Deliveries(t)
        BY <2>1 DEF Recipients, Deliveries
    <2>3. CountedRow(t)'
        BY <1>0, <2>1, <2>2, SeenTypes DEF CountInv, CountedRow, Inserted
    <2>4. changes = 0 => Deliveries(t) = audience \X Channels
        <3> SUFFICES ASSUME changes = 0 PROVE Deliveries(t) = audience \X Channels
            OBVIOUS
        <3>1. users[t] = audience /\ recipients \subseteq audience
            BY <2>1 DEF CountInv, Exact, ExactRow, Inserted
        <3>2. /\ Wanted(t) \subseteq Deliveries(t) /\ ownDeliveries[t] \subseteq Wanted(t)
              /\ deliveries = recipients \X Channels
            BY <2>1 DEF RowsInv, OwnRow, RecipientsFullyServed
        <3> QED BY <3>1, <3>2 DEF Wanted, Deliveries
    <2>5. changes = 0 => ExactRow(t)' /\ ownRecipients'[t] \subseteq audience
        BY <2>1, <2>4 DEF CountInv, Exact, ExactRow, Inserted, Alone
    <2> QED BY <1>0, <2>1, <2>3, <2>5, CountInner
<1>8. ASSUME NEW t \in Fanouts, Commit(t) PROVE CountInv'
    BY <1>0, <1>8, CommitCounts
<1>9. ASSUME NEW t \in Fanouts, RejectOverLimit(t) \/ RejectStatement(t) \/ Abort(t)
      PROVE  CountInv'
    <2>1. Close(t) /\ UNCHANGED <<audience, changes, rowVars>>
        BY <1>9 DEF RejectOverLimit, RejectStatement, Abort
    <2>2. counts'.r \in Nat /\ counts'.d \in Nat
        BY <1>0, <2>1, SeenTypes
    <2>3. Alone(t) /\ Closed(t)
        BY <1>0, <2>1, CloseAlone
    <2>4. CountedRow(t)' /\ ExactRow(t)' /\ ownRecipients'[t] \subseteq audience
        BY <1>0, <2>2, <2>3, CountClosed
    <2> QED BY <1>0, <2>1, <2>3, <2>4, CountInner
<1>10. CASE ChangeAudience
    <2>1. changes' # 0 /\ UNCHANGED <<rowVars, txnVars>>
        BY <1>0, <1>10 DEF ChangeAudience
    <2> QED BY <2>1 DEF CountInv, CountedRow, Recipients, Deliveries
<1>11. CASE UNCHANGED vars
    BY <1>11 DEF vars, CountInv, CountedRow, Exact, ExactRow, Recipients, Deliveries
<1> QED
    BY <1>1, <1>2, <1>3, <1>4, <1>5, <1>6, <1>7, <1>8, <1>9, <1>10, <1>11
    DEF Next, FanoutStep

\* The stored counts never exceed the rows, and are exact while the audience has
\* not changed, however many fanouts overlap.
THEOREM CountsAreBounded == Spec => []CountsBounded
<1>1. CountInv => CountsBounded
    BY DEF CountInv, CountsBounded, Exact
<1>2. Spec => []CountInv
    BY CountInit, CountNext, RowsAlways, PTL DEF Spec
<1> QED BY <1>1, <1>2, PTL

-----------------------------------------------------------------------------
(* Refinement of FanoutLedger *)

Resolved == [t \in Fanouts |->
    IF pc[t] \in {"idle", "resolving"} THEN {} ELSE {users[t]}]
LedgerVars == <<audience, Resolved, recipients, deliveries>>

\* A step that moves one transaction on, writes no rows that others see, and
\* keeps what the transaction resolved.
LEMMA InvisibleStep ==
    ASSUME RowsInv, NEW t \in Fanouts, NEW from, NEW to,
           pc[t] = from, pc' = [pc EXCEPT ![t] = to],
           (from \in {"idle", "resolving"}) <=> (to \in {"idle", "resolving"}),
           UNCHANGED <<audience, users, recipients, deliveries>>
    PROVE  UNCHANGED LedgerVars
<1>1. \A s \in Fanouts : Resolved'[s] = Resolved[s]
    BY DEF Resolved, RowsInv, TypeOK
<1>2. Resolved' = Resolved
    BY <1>1 DEF Resolved
<1> QED BY <1>2 DEF LedgerVars

\* A transaction that ends without a commit gives up what it resolved.
LEMMA CloseGivesUp ==
    ASSUME RowsInv, NEW t \in Fanouts, Close(t),
           UNCHANGED <<audience, recipients, deliveries>>
    PROVE  Ledger!GiveUp(t)
<1>1. \A s \in Fanouts : Resolved'[s] = [Resolved EXCEPT ![t] = {}][s]
    BY DEF Close, Resolved, RowsInv, TypeOK
<1>2. Resolved' = [Resolved EXCEPT ![t] = {}]
    BY <1>1 DEF Resolved
<1> QED BY <1>2 DEF Ledger!GiveUp, Resolved

\* A transaction that commits has a recipient and every delivery for each user
\* it resolved, and for nobody else: its own rows and those it waited for.
LEMMA CommitCompletes ==
    ASSUME RowsInv, NEW t \in Fanouts, Commit(t) PROVE Ledger!Complete(t)
<1>1. pc[t] = "committing" /\ Close(t) /\ UNCHANGED audience
    BY DEF Commit
<1>2. OwnRow(t)
    BY DEF RowsInv
<1>3. recipients' = recipients \cup users[t]
    BY <1>1, <1>2 DEF Commit, OwnRow, Inserted, Recipients
<1>4. deliveries' = deliveries \cup (users[t] \X Channels)
    BY <1>1, <1>2 DEF Commit, OwnRow, Deliveries, Wanted
<1>5. Resolved[t] = {users[t]}
    BY <1>1 DEF Resolved
<1>6. \A s \in Fanouts : Resolved'[s] = [Resolved EXCEPT ![t] = {}][s]
    BY <1>1 DEF Close, Resolved, RowsInv, TypeOK
<1>7. Resolved' = [Resolved EXCEPT ![t] = {}]
    BY <1>6 DEF Resolved
<1> QED BY <1>1, <1>3, <1>4, <1>5, <1>7 DEF Ledger!Complete, Resolved

LEMMA ResolveResolves ==
    ASSUME RowsInv, NEW t \in Fanouts, Resolve(t) PROVE Ledger!Resolve(t)
<1>1. /\ pc[t] = "resolving" /\ pc' = [pc EXCEPT ![t] = "listing"]
      /\ users' = [users EXCEPT ![t] = audience]
      /\ UNCHANGED <<audience, recipients, deliveries>>
    BY DEF Resolve, Goto, rowVars
<1>2. Resolved[t] = {}
    BY <1>1 DEF Resolved
<1>3. \A s \in Fanouts : Resolved'[s] = [Resolved EXCEPT ![t] = {audience}][s]
    BY <1>1 DEF Resolved, RowsInv, TypeOK
<1>4. Resolved' = [Resolved EXCEPT ![t] = {audience}]
    BY <1>3 DEF Resolved
<1> QED BY <1>1, <1>2, <1>4 DEF Ledger!Resolve, Resolved

LEMMA NextRefinesLedger ==
    ASSUME RowsInv, [Next]_vars PROVE Ledger!Next \/ UNCHANGED LedgerVars
<1>1. ASSUME NEW t \in Fanouts,
             Load(t) \/ ListMissing(t) \/ ListRecipients(t) \/ InsertDeliveries(t)
                     \/ CountDeliveries(t)
      PROVE  UNCHANGED LedgerVars
    <2>1. UNCHANGED <<audience, users, recipients, deliveries>>
        BY <1>1 DEF Load, ListMissing, ListRecipients, InsertDeliveries, CountDeliveries,
                    rowVars
    <2>2. \/ Goto(t, "idle", "resolving") \/ Goto(t, "listing", "inserting")
          \/ Goto(t, "inserting", "delivering") \/ Goto(t, "delivering", "counting")
          \/ Goto(t, "counting", "committing")
        BY <1>1 DEF Load, ListMissing, ListRecipients, InsertDeliveries, CountDeliveries
    <2> QED BY <2>1, <2>2, InvisibleStep DEF Goto
<1>2. ASSUME NEW t \in Fanouts, NEW u \in Users, InsertRecipient(t, u)
      PROVE  UNCHANGED LedgerVars
    BY <1>2 DEF InsertRecipient, LedgerVars, Resolved, rowVars
<1>3. ASSUME NEW t \in Fanouts, RejectOverLimit(t) \/ RejectStatement(t) \/ Abort(t)
      PROVE  Ledger!GiveUp(t)
    BY <1>3, CloseGivesUp DEF RejectOverLimit, RejectStatement, Abort, rowVars
<1>4. CASE ChangeAudience
    <2>1. audience' \in SUBSET Users /\ UNCHANGED <<Resolved, recipients, deliveries>>
        BY <1>4 DEF ChangeAudience, Resolved, txnVars, rowVars
    <2>2. Ledger!ChangeAudience
        BY <2>1 DEF Ledger!ChangeAudience, Resolved
    <2> QED BY <2>2 DEF Ledger!Next
<1>5. CASE UNCHANGED vars
    BY <1>5 DEF vars, rowVars, txnVars, LedgerVars, Resolved
<1>6. ASSUME NEW t \in Fanouts,
             Ledger!Resolve(t) \/ Ledger!Complete(t) \/ Ledger!GiveUp(t)
      PROVE  Ledger!Next
    BY <1>6 DEF Ledger!Next
<1> QED
    BY <1>1, <1>2, <1>3, <1>4, <1>5, <1>6, ResolveResolves, CommitCompletes
    DEF Next, FanoutStep

\* Any number of overlapping fanouts leave the rows that fanouts leave which run
\* one at a time, each to the audience it resolved.
THEOREM FanoutsImplementLedger == Spec => LedgerSpec
<1>1. Init => Ledger!Init
    <2> SUFFICES ASSUME Init PROVE Ledger!Init
        OBVIOUS
    <2>1. Resolved = [t \in Fanouts |-> {}]
        BY DEF Init, Resolved
    <2> QED BY <2>1 DEF Init, Ledger!Init, Resolved
<1>2. RowsInv /\ [Next]_vars =>
        [Ledger!Next]_<<audience, Resolved, recipients, deliveries>>
    BY NextRefinesLedger DEF LedgerVars
<1> QED BY <1>1, <1>2, RowsAlways, PTL DEF Spec, LedgerSpec, Ledger!Spec, Resolved

-----------------------------------------------------------------------------
(* What delimits the finding *)

\* The deliveries of all users that t resolved fit into one statement.
AllFit(t) ==
    Cardinality(users[t]) * BlockSize * Cardinality(Channels) * DeliveryColumns =< BindLimit

\* A fanout whose deliveries fit into one statement commits, short of an aborted
\* statement: after the limits there is no other cause of a rejection, whatever
\* part of the rows other fanouts have inserted.
FittingFanoutsCommit ==
    [][\A t \in Fanouts :
        /\ AllFit(t)
        /\ pc[t] \in {"listing", "inserting", "delivering"} /\ pc'[t] = "idle"
        => aborts' # aborts]_vars

LEMMA TimesGrows ==
    \A a, b, c \in Nat : a =< b => a * c =< b * c
<1> SUFFICES ASSUME NEW a \in Nat, NEW b \in Nat, NEW c \in Nat, a =< b
             PROVE  a * c =< b * c
    OBVIOUS
<1>1. PICK d \in Nat : b = a + d
    <2>1. b - a \in Nat /\ b = a + (b - a)
        OBVIOUS
    <2> QED BY <2>1
<1>2. b * c = a * c + d * c /\ d * c >= 0
    BY <1>1
<1> QED BY <1>2

\* The rows a statement still has to insert are at most all rows of its fanout.
LEMMA AllFitFits ==
    ASSUME TypeOK, NEW t \in Fanouts, AllFit(t) PROVE Fits(t)
<1> DEFINE N == Cardinality(users[t])
           C == Cardinality(Channels)
           W == Cardinality(Wanted(t) \ Deliveries(t))
<1>1. users[t] \in SUBSET Users /\ IsFiniteSet(users[t]) /\ N \in Nat
    BY CountTypes, FS_CardinalityType DEF TypeOK
<1>2. C \in Nat
    BY FinitenessAssumption, FS_CardinalityType
<1>3. Cardinality(Wanted(t)) = N * C
    BY <1>1, FinitenessAssumption, FS_Product DEF Wanted
<1>4. W \in Nat /\ W =< Cardinality(Wanted(t))
    <2>1. Wanted(t) \ Deliveries(t) \in SUBSET (Users \X Channels)
          /\ Wanted(t) \in SUBSET (Users \X Channels)
        BY <1>1 DEF Wanted
    <2> QED BY <2>1, CountGrows, CountTypes, FS_CardinalityType
<1> HIDE DEF N, C, W
<1>5. N * C \in Nat /\ BlockSize \in Nat
    BY <1>1, <1>2, BoundAssumption
<1>6. W * BlockSize =< N * C * BlockSize
    BY <1>3, <1>4, <1>5, TimesGrows
<1>7. N * C * BlockSize = N * BlockSize * C
    BY <1>1, <1>2, <1>5
<1>8. W * BlockSize \in Nat /\ N * BlockSize * C \in Nat
    BY <1>1, <1>2, <1>4, <1>5
<1>9. W * BlockSize * DeliveryColumns =< N * BlockSize * C * DeliveryColumns
    BY <1>6, <1>7, <1>8 DEF DeliveryColumns
<1>10. N * BlockSize * C * DeliveryColumns =< BindLimit
    BY DEF AllFit, N, C
<1>11. W * BlockSize * DeliveryColumns \in Nat /\ N * BlockSize * C * DeliveryColumns \in Nat
    BY <1>8 DEF DeliveryColumns
<1>12. W * BlockSize * DeliveryColumns =< BindLimit
    BY <1>9, <1>10, <1>11, BoundAssumption
<1> QED BY <1>12 DEF Fits, W

\* After it was admitted, a fanout ends early by an abort or by a delivery
\* statement that does not fit.
LEMMA EarlyEnd ==
    ASSUME TypeOK, [Next]_vars, NEW t \in Fanouts,
           pc[t] \in {"listing", "inserting", "delivering"}, pc'[t] = "idle"
    PROVE  aborts' # aborts \/ ~Fits(t)
<1>1. pc \in [Fanouts -> {"idle", "resolving", "listing", "inserting", "delivering",
                          "counting", "committing"}]
      /\ aborts \in Nat
    BY BoundAssumption DEF TypeOK
<1>2. ASSUME NEW s \in Fanouts, FanoutStep(s) PROVE ~Fits(t)
    BY <1>1, <1>2
    DEF FanoutStep, Load, Resolve, ListMissing, InsertRecipient, ListRecipients,
        InsertDeliveries, CountDeliveries, Commit, RejectOverLimit, RejectStatement,
        Goto, Close
<1>3. ASSUME NEW s \in Fanouts, Abort(s) PROVE aborts' # aborts
    BY <1>1, <1>3 DEF Abort
<1>4. CASE ChangeAudience \/ UNCHANGED vars
    BY <1>4 DEF ChangeAudience, vars, txnVars
<1> QED BY <1>2, <1>3, <1>4 DEF Next

THEOREM FittingFanoutsAreCommitted == Spec => FittingFanoutsCommit
<1>1. TypeOK /\ [Next]_vars =>
        (\A t \in Fanouts :
            /\ AllFit(t)
            /\ pc[t] \in {"listing", "inserting", "delivering"} /\ pc'[t] = "idle"
            => aborts' # aborts)
    BY AllFitFits, EarlyEnd
<1> QED BY <1>1, FanoutTypeCorrect, PTL DEF Spec, FittingFanoutsCommit

\* The design's promise for 5,000 demo users holds for notifications on so few
\* channels that 5,000 times the columns fit: one channel, with the limit of
\* PostgreSQL.
THEOREM DemoUsersFit ==
    ASSUME DemoUsers * Cardinality(Channels) * DeliveryColumns =< BindLimit
    PROVE  Spec => AdmittedFits
<1>1. ASSUME TypeOK, NEW t \in Fanouts, Cardinality(users[t]) * BlockSize =< DemoUsers
      PROVE  AllFit(t)
    <2> DEFINE M == Cardinality(users[t]) * BlockSize
               C == Cardinality(Channels)
    <2>1. Cardinality(users[t]) \in Nat /\ BlockSize \in Nat
        BY <1>1, CountTypes, FS_CardinalityType, BoundAssumption DEF TypeOK
    <2>2. M \in Nat /\ C \in Nat /\ M =< DemoUsers
        BY <1>1, <2>1, FinitenessAssumption, FS_CardinalityType
    <2>3. DemoUsers * C * DeliveryColumns =< BindLimit
        OBVIOUS
    <2> HIDE DEF M, C
    <2>4. M * C =< DemoUsers * C /\ M * C \in Nat
        BY <2>2, TimesGrows DEF DemoUsers
    <2>5. M * C * DeliveryColumns =< DemoUsers * C * DeliveryColumns
        BY <2>2, <2>4 DEF DeliveryColumns, DemoUsers
    <2>6. M * C * DeliveryColumns =< BindLimit
        BY <2>2, <2>3, <2>4, <2>5, BoundAssumption DEF DeliveryColumns, DemoUsers
    <2> QED BY <2>6 DEF M, C, AllFit
<1>2. TypeOK /\ [Next]_vars =>
        (\A t \in Fanouts :
            /\ Cardinality(users[t]) * BlockSize =< DemoUsers
            /\ pc[t] \in {"listing", "inserting", "delivering"} /\ pc'[t] = "idle"
            => aborts' # aborts)
    BY <1>1, AllFitFits, EarlyEnd
<1> QED BY <1>2, FanoutTypeCorrect, PTL DEF Spec, AdmittedFits
=============================================================================
