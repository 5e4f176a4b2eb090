------------------------- MODULE MCDeliveryWorkers -------------------------
(* Small instances of DeliveryWorkers: the web and e-mail rows of one         *)
(* recipient and the e-mail row of a second one, two e-mail workers and a web *)
(* worker.  Each configuration picks the rows and workers it needs.           *)
EXTENDS DeliveryWorkers, TLC

CONSTANTS web, mail, mail2, w1, w2, w3

MCChannelOf ==
    [d \in Deliveries |-> IF d = web THEN "web" ELSE "email"]
MCRecipientOf ==
    [d \in Deliveries |-> IF d = mail2 THEN 2 ELSE 1]
MCWorkerChannel ==
    [w \in Workers |-> IF w = w3 THEN "web" ELSE "email"]
=============================================================================
