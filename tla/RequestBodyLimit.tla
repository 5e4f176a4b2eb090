-------------------------- MODULE RequestBodyLimit --------------------------
(***************************************************************************)
(* The middleware that reads a request's whole body before the application *)
(* sees it, refuses what is too large, and then plays the body back to the *)
(* application.  A client sends its body in messages of any size, with or  *)
(* without a Content-Length, and may disconnect before the end.            *)
(***************************************************************************)
EXTENDS Integers

CONSTANTS
    Requests,
    BodySizes,  \* bytes a client may mean to send
    MaxBody     \* max_body_bytes

ASSUME BodyAssumption ==
    /\ BodySizes \subseteq Nat
    /\ MaxBody \in Nat \ {0}

VARIABLES
    bodyOf,     \* request -> bytes its client means to send
    stage,      \* request -> "new", "reading", "app", "rejected" or "over"
    received,   \* bytes of the body read so far
    gone,       \* disconnected
    given       \* what receive() last gave the application

bodyVars == <<bodyOf, stage, received, gone, given>>

TooLarge(n) == n > MaxBody

BodyInit ==
    /\ bodyOf = [r \in Requests |-> 0]
    /\ stage = [r \in Requests |-> "new"]
    /\ received = [r \in Requests |-> 0]
    /\ gone = [r \in Requests |-> FALSE]
    /\ given = [r \in Requests |-> "nothing"]

\* A request of n bytes comes in, with or without a Content-Length.
Start(r, n, declared) ==
    /\ stage[r] = "new"
    /\ n = 0 => ~declared
    /\ bodyOf' = [bodyOf EXCEPT ![r] = n]
    /\ stage' = [stage EXCEPT ![r] =
                    IF declared /\ TooLarge(n) THEN "rejected" ELSE "reading"]
    /\ UNCHANGED <<received, gone, given>>

\* One http.request message: n more bytes, and the body ends unless more.
Receive(r, n, more) ==
    /\ stage[r] = "reading"
    /\ ~more => received[r] + n = bodyOf[r]
    /\ received' = [received EXCEPT ![r] = @ + n]
    /\ stage' = [stage EXCEPT ![r] = IF TooLarge(received[r] + n) THEN "rejected"
                                     ELSE IF more THEN "reading" ELSE "app"]
    /\ UNCHANGED <<bodyOf, gone, given>>

ReceiveSome(r) ==
    \E n \in 0 .. bodyOf[r] - received[r], more \in BOOLEAN :
        /\ n = 0 => ~more   \* an empty message that is not the last changes nothing
        /\ Receive(r, n, more)

ReceiveDisconnect(r) ==
    /\ stage[r] = "reading"
    /\ gone' = [gone EXCEPT ![r] = TRUE]
    /\ stage' = [stage EXCEPT ![r] = "app"]
    /\ UNCHANGED <<bodyOf, received, given>>

\* Mutation of Played: the body read so far is played back after a disconnect.
PlayedPartial(r) == "body"

\* The first message replay_receive gives the application.
Played(r) == IF gone[r] THEN "disconnect" ELSE "body"

Replay(r) ==
    /\ stage[r] = "app"
    /\ given[r] = "nothing"
    /\ given' = [given EXCEPT ![r] = Played(r)]
    /\ UNCHANGED <<bodyOf, stage, received, gone>>

\* The request is over, its buffer and its flags are gone.
Forget(r) ==
    /\ bodyOf' = [bodyOf EXCEPT ![r] = 0]
    /\ stage' = [stage EXCEPT ![r] = "over"]
    /\ received' = [received EXCEPT ![r] = 0]
    /\ gone' = [gone EXCEPT ![r] = FALSE]
    /\ given' = [given EXCEPT ![r] = "nothing"]

BodyNext ==
    \E r \in Requests :
        \/ \E n \in BodySizes, declared \in BOOLEAN : Start(r, n, declared)
        \/ ReceiveSome(r) \/ ReceiveDisconnect(r) \/ Replay(r) \/ Forget(r)

BodySpec == BodyInit /\ [][BodyNext]_bodyVars

-----------------------------------------------------------------------------
(* Properties *)

\* The application is given the body of a request only if it is whole and
\* within the limit, however it was cut into messages, and a request is
\* refused only if its body is really over the limit.
BodyWholeOrRefused ==
    \A r \in Requests :
        /\ given[r] = "body" => received[r] = bodyOf[r] /\ bodyOf[r] =< MaxBody
        /\ stage[r] = "rejected" => bodyOf[r] > MaxBody
=============================================================================
