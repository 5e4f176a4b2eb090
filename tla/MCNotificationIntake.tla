------------------------ MODULE MCNotificationIntake ------------------------
(* Five requests of one service: a key, its resend with the same payload, the *)
(* key with another payload, and two equal requests without a key.            *)
EXTENDS NotificationIntake, TLC

CONSTANTS key, resend, keyOther, plain1, plain2

MCServiceOf == [r \in Requests |-> "s1"]
MCKeyOf == [r \in Requests |-> IF r \in {plain1, plain2} THEN NoKey ELSE "k"]
MCPayloadOf == [r \in Requests |-> IF r = keyOther THEN "y" ELSE "x"]

\* A request and its resend are alike, and so are the two without a key.
MCSymmetry == Permutations({key, resend}) \cup Permutations({plain1, plain2})
=============================================================================
