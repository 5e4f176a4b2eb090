----------------------- MODULE MCNotificationConsumer -----------------------
(* Small instances of NotificationConsumer: a requested event with a copy on  *)
(* one partition, and a poison record and a replay event on another.          *)
EXTENDS NotificationConsumer

CONSTANTS p1, p2, c1, u1, u2, requested, replay

MCLog == [p \in Partitions |->
            IF p = p1 THEN <<requested, requested>> ELSE <<Invalid, replay>>]
MCTypeOf == [e \in Events |->
                IF e = replay THEN "replay_requested" ELSE "requested"]
\* Members of a group are interchangeable, and so are users: p1 is first owned by
\* c1, and an audience of one user is u1.
MCInit == Init /\ owner[p1] = c1 /\ audience # {u2}
MCFairSpec == MCInit /\ [][Next]_vars /\ Fairness
=============================================================================
