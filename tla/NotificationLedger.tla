------------------------- MODULE NotificationLedger -------------------------
(***************************************************************************)
(* What the broker promises of one notification, without events, a topic,  *)
(* consumers, transactions or retries: after it was accepted, and never    *)
(* before, the users its audience means at some moment are addressed, all  *)
(* of them in one step.  This may happen again, for an audience that has   *)
(* changed, but a user is addressed once, is tried at most MaxAttempts     *)
(* times, and is never tried again when served or given up.                *)
(***************************************************************************)
EXTENDS Naturals

CONSTANTS Users, MaxAttempts

VARIABLES
    audience,   \* users the notification is meant for now
    accepted,
    status,     \* user -> "none" before the user is addressed, "open",
                \*   "claimed", "delivered" or "failed_terminal"
    tries       \* user -> attempts recorded

Init ==
    /\ audience \in SUBSET Users
    /\ accepted = FALSE
    /\ status = [u \in Users |-> "none"]
    /\ tries = [u \in Users |-> 0]

ChangeAudience ==
    /\ audience' \in SUBSET Users
    /\ UNCHANGED <<accepted, status, tries>>

Accept ==
    /\ ~accepted
    /\ accepted' = TRUE
    /\ UNCHANGED <<audience, status, tries>>

\* All users of the audience who are not addressed yet are addressed together.
Address ==
    /\ accepted
    /\ status' = [u \in Users |->
            IF u \in audience /\ status[u] = "none" THEN "open" ELSE status[u]]
    /\ UNCHANGED <<audience, accepted, tries>>

Try(u) ==
    /\ status[u] \in {"open", "claimed"}
    /\ status' = [status EXCEPT ![u] = "claimed"]
    /\ UNCHANGED <<audience, accepted, tries>>

Report(u, result) ==
    /\ status[u] = "claimed"
    /\ tries[u] < MaxAttempts
    /\ result = "open" => tries[u] + 1 < MaxAttempts
    /\ status' = [status EXCEPT ![u] = result]
    /\ tries' = [tries EXCEPT ![u] = @ + 1]
    /\ UNCHANGED <<audience, accepted>>

Next ==
    \/ ChangeAudience \/ Accept \/ Address
    \/ \E u \in Users :
        \/ Try(u)
        \/ \E result \in {"open", "delivered", "failed_terminal"} : Report(u, result)

Spec == Init /\ [][Next]_<<audience, accepted, status, tries>>
=============================================================================
