---------------------------- MODULE OutboxLedger ----------------------------
(***************************************************************************)
(* What the outbox promises of an event, without publishers, clocks,       *)
(* leases or tokens: an event that a transaction added stays open or       *)
(* claimed until it settles, at most MaxAttempts failures are recorded     *)
(* for it, and it is recorded as published only if the topic has it.  A    *)
(* publisher may store the event on the topic at any time after the first  *)
(* claim, also when its claim is over and even after the event settled.    *)
(***************************************************************************)
EXTENDS Naturals

CONSTANTS Events, MaxAttempts

VARIABLES
    phase,   \* "absent", "open", "claimed", "published" or "failed_terminal"
    fails,   \* failures recorded
    stored   \* events of which the topic has a copy

Init ==
    /\ phase = [e \in Events |-> "absent"]
    /\ fails = [e \in Events |-> 0]
    /\ stored = {}

Add(e) ==
    /\ phase[e] = "absent"
    /\ phase' = [phase EXCEPT ![e] = "open"]
    /\ UNCHANGED <<fails, stored>>

Take(S) ==
    /\ \A e \in S : phase[e] \in {"open", "claimed"}
    /\ phase' = [e \in Events |-> IF e \in S THEN "claimed" ELSE phase[e]]
    /\ UNCHANGED <<fails, stored>>

WasClaimed(e) == phase[e] # "absent" /\ (phase[e] = "open" => fails[e] > 0)

Store(e) ==
    /\ WasClaimed(e)
    /\ stored' = stored \cup {e}
    /\ UNCHANGED <<phase, fails>>

ReportPublished(e) ==
    /\ phase[e] = "claimed"
    /\ e \in stored
    /\ phase' = [phase EXCEPT ![e] = "published"]
    /\ UNCHANGED <<fails, stored>>

ReportFailed(e) ==
    /\ phase[e] = "claimed"
    /\ fails[e] < MaxAttempts
    /\ fails' = [fails EXCEPT ![e] = @ + 1]
    /\ phase' = [phase EXCEPT ![e] = IF fails[e] + 1 < MaxAttempts
                                     THEN "open" ELSE "failed_terminal"]
    /\ UNCHANGED stored

Next ==
    \/ \E S \in SUBSET Events : Take(S)
    \/ \E e \in Events : Add(e) \/ Store(e) \/ ReportPublished(e) \/ ReportFailed(e)

Spec == Init /\ [][Next]_<<phase, fails, stored>>
=============================================================================
