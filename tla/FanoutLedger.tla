---------------------------- MODULE FanoutLedger ----------------------------
(***************************************************************************)
(* What a fanout promises, without statements, locks and isolation levels: *)
(* it resolves the audience once and, later, in one step adds a recipient  *)
(* for every user it resolved and a delivery for each of them on every     *)
(* channel, or adds nothing.  Fanouts that overlap leave the rows they     *)
(* leave when they run one after another in the order of their commits.    *)
(***************************************************************************)
CONSTANTS Users, Channels, Fanouts

VARIABLES
    audience,    \* users the audience selects now
    resolved,    \* fanout -> the audience it resolved, in a set of at most one
    recipients,  \* users with a recipient row
    deliveries   \* rows (user, channel)

Init ==
    /\ audience \in SUBSET Users
    /\ resolved = [t \in Fanouts |-> {}]
    /\ recipients = {}
    /\ deliveries = {}

Resolve(t) ==
    /\ resolved[t] = {}
    /\ resolved' = [resolved EXCEPT ![t] = {audience}]
    /\ UNCHANGED <<audience, recipients, deliveries>>

Complete(t) ==
    /\ \E selected \in resolved[t] :
        /\ recipients' = recipients \cup selected
        /\ deliveries' = deliveries \cup (selected \X Channels)
    /\ resolved' = [resolved EXCEPT ![t] = {}]
    /\ UNCHANGED audience

GiveUp(t) ==
    /\ resolved' = [resolved EXCEPT ![t] = {}]
    /\ UNCHANGED <<audience, recipients, deliveries>>

ChangeAudience ==
    /\ audience' \in SUBSET Users
    /\ UNCHANGED <<resolved, recipients, deliveries>>

Next ==
    \/ \E t \in Fanouts : Resolve(t) \/ Complete(t) \/ GiveUp(t)
    \/ ChangeAudience

Spec == Init /\ [][Next]_<<audience, resolved, recipients, deliveries>>
=============================================================================
