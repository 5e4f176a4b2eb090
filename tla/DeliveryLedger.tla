--------------------------- MODULE DeliveryLedger ---------------------------
(***************************************************************************)
(* What the delivery workers promise of a row, without workers, clocks,    *)
(* leases or tokens: a row is open or claimed until it settles, it is      *)
(* tried at most MaxAttempts times, a try that fails for the last time     *)
(* settles it, and a settled row is never touched again.  A retry request  *)
(* is invisible here: it may hasten the next try but grants none.          *)
(***************************************************************************)
EXTENDS Naturals

CONSTANTS Deliveries, MaxAttempts

VARIABLES
    phase,   \* "open", "claimed", "delivered" or "failed_terminal"
    tries    \* attempts recorded

Init ==
    /\ phase = [d \in Deliveries |-> "open"]
    /\ tries = [d \in Deliveries |-> 0]

Take(S) ==
    /\ \A d \in S : phase[d] \in {"open", "claimed"}
    /\ phase' = [d \in Deliveries |-> IF d \in S THEN "claimed" ELSE phase[d]]
    /\ UNCHANGED tries

Report(d, result) ==
    /\ phase[d] = "claimed"
    /\ tries[d] < MaxAttempts
    /\ result = "open" => tries[d] + 1 < MaxAttempts
    /\ phase' = [phase EXCEPT ![d] = result]
    /\ tries' = [tries EXCEPT ![d] = @ + 1]

Next ==
    \/ \E S \in SUBSET Deliveries : Take(S)
    \/ \E d \in Deliveries, result \in {"open", "delivered", "failed_terminal"} :
            Report(d, result)

Spec == Init /\ [][Next]_<<phase, tries>>
=============================================================================
