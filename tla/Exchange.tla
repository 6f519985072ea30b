------------------------------ MODULE Exchange ------------------------------
(***************************************************************************)
(* What a client of a persistent HTTP connection relies on.  The server    *)
(* answers a request once or hangs up; it goes on to the next request only *)
(* after an answer that said keep-alive, and hangs up after an answer only *)
(* if the answer said so.  When the server is stopped, or its process      *)
(* ends, the connection is lost at any point.                              *)
(***************************************************************************)
VARIABLES
    phase,      \* "idle" | "pending" | "answering" | "closed" | "lost"
    told        \* the Connection field of the answer to the current request

EInit == phase = "idle" /\ told = "none"

Request ==
    /\ phase = "idle"
    /\ phase' = "pending"
    /\ told' = "none"

Answer ==
    /\ phase = "pending"
    /\ \/ phase' = "answering" /\ told' \in {"keep-alive", "close"}
       \/ phase' = "idle" /\ told' = "keep-alive"

Continue ==
    /\ phase = "answering" /\ told = "keep-alive"
    /\ phase' = "idle"
    /\ UNCHANGED told

HangUp ==
    /\ phase = "pending" \/ (phase = "answering" /\ told = "close")
    /\ phase' = "closed"
    /\ UNCHANGED told

Lose ==
    /\ phase # "closed"
    /\ phase' = "lost"
    /\ UNCHANGED told

ENext == Request \/ Answer \/ Continue \/ HangUp \/ Lose

ESpec == EInit /\ [][ENext]_<<phase, told>>
=============================================================================
