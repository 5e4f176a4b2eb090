--------------------------- MODULE ConsumerLedger ---------------------------
(***************************************************************************)
(* What the consumer group promises of the records on its topic, without   *)
(* consumers, partitions, positions or rebalances.  An event is fanned out *)
(* once, and once more at most for each disruption; it is marked as        *)
(* processed after a fanout; a record that is no event is dead-lettered.   *)
(* The group passes over a record, for good, only when one of the two was  *)
(* done or an exception dropped the record.                                *)
(***************************************************************************)
EXTENDS Naturals, FiniteSets

CONSTANTS
    Records,
    ContentOf,   \* record -> its event or Invalid
    Events,
    Invalid,
    TypeOf,      \* event -> "requested" or "replay_requested"
    Users,
    MaxRecipients

VARIABLES
    audience,     \* users the notification's audience selects now
    recipients,   \* users with recipient and delivery rows
    handled,      \* event -> completed fanouts
    processed,    \* events marked as processed
    deadLetters,  \* records on the dead-letter topic
    dropped,      \* records in hand when an exception was raised
    passed,       \* records that will not be read again
    disruptions   \* crashes, exceptions and rebalances

topicVars == <<deadLetters, dropped, passed>>

Init ==
    /\ audience \in SUBSET Users
    /\ recipients = {}
    /\ handled = [e \in Events |-> 0]
    /\ processed = {}
    /\ deadLetters = {}
    /\ dropped = {}
    /\ passed = {}
    /\ disruptions = 0

\* A replay follows a fanout, and a repeated fanout a disruption.
Fanout(e) ==
    /\ handled[e] =< disruptions
    /\ TypeOf[e] = "replay_requested" => recipients # {}
    /\ Cardinality(audience) =< MaxRecipients
    /\ recipients' = recipients \cup audience
    /\ handled' = [handled EXCEPT ![e] = @ + 1]
    /\ UNCHANGED <<audience, processed, topicVars, disruptions>>

Mark(e) ==
    /\ handled[e] >= 1
    /\ processed' = processed \cup {e}
    /\ UNCHANGED <<audience, recipients, handled, topicVars, disruptions>>

DeadLetter(r) ==
    /\ ContentOf[r] = Invalid
    /\ deadLetters' = deadLetters \cup {r}
    /\ UNCHANGED <<audience, recipients, handled, processed, dropped, passed, disruptions>>

\* The audience is over the limit: the record is dropped.
GiveUp(r) ==
    /\ ContentOf[r] # Invalid
    /\ Cardinality(audience) > MaxRecipients
    /\ dropped' = dropped \cup {r}
    /\ UNCHANGED <<audience, recipients, handled, processed, deadLetters, passed, disruptions>>

\* An exception; a record that is no event may have been dead-lettered.
Raise(r) ==
    /\ disruptions' = disruptions + 1
    /\ dropped' = dropped \cup {r}
    /\ \/ UNCHANGED deadLetters
       \/ ContentOf[r] = Invalid /\ deadLetters' = deadLetters \cup {r}
    /\ UNCHANGED <<audience, recipients, handled, processed, passed>>

\* A crash or a rebalance.
Disturb ==
    /\ disruptions' = disruptions + 1
    /\ UNCHANGED <<audience, recipients, handled, processed, topicVars>>

AccountedFor(r) == ContentOf[r] \in processed \/ r \in deadLetters \/ r \in dropped

PassOver(R) ==
    /\ \A r \in R : AccountedFor(r)
    /\ passed' = passed \cup R
    /\ UNCHANGED <<audience, recipients, handled, processed, deadLetters, dropped, disruptions>>

ChangeAudience ==
    /\ audience' \in SUBSET Users
    /\ UNCHANGED <<recipients, handled, processed, topicVars, disruptions>>

Next ==
    \/ \E e \in Events : Fanout(e) \/ Mark(e)
    \/ \E r \in Records : DeadLetter(r) \/ GiveUp(r) \/ Raise(r)
    \/ \E R \in SUBSET Records : PassOver(R)
    \/ Disturb
    \/ ChangeAudience

Spec == Init /\ [][Next]_<<audience, recipients, handled, processed, topicVars, disruptions>>
=============================================================================
