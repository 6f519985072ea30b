--------------------------- MODULE ServerSession ----------------------------
(***************************************************************************)
(* What IsRunning() of the server promises the dialog: while it is false   *)
(* no client is being served, so that the configuration may be changed, a  *)
(* new run begun, "Server stopped" logged or the process ended.  A client  *)
(* is served only between its acceptance by a running server and its end,  *)
(* and the server goes down only when every client is gone.                *)
(***************************************************************************)
CONSTANT Clients

VARIABLES
    up,         \* IsRunning()
    served      \* the clients being served

SInit == up = FALSE /\ served = {}

Up ==
    /\ ~up
    /\ up' = TRUE
    /\ UNCHANGED served

Open(c) ==
    /\ up /\ c \notin served
    /\ served' = served \cup {c}
    /\ UNCHANGED up

Close(c) ==
    /\ c \in served
    /\ served' = served \ {c}
    /\ UNCHANGED up

Down ==
    /\ up /\ served = {}
    /\ up' = FALSE
    /\ UNCHANGED served

SNext == Up \/ Down \/ \E c \in Clients : Open(c) \/ Close(c)

SSpec == SInit /\ [][SNext]_<<up, served>>
=============================================================================
