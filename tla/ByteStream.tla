----------------------------- MODULE ByteStream -----------------------------
(***************************************************************************)
(* What a response looks like from the client's side of a connection, in   *)
(* bytes that are named by their place in it: they come in order, none     *)
(* twice, and all of them, unless a write failed.  ResponseWriter          *)
(* implements it.                                                          *)
(***************************************************************************)
EXTENDS Integers, Sequences

VARIABLES
    size,       \* of the response
    got,        \* the bytes that have come, in the order in which they came
    broken,     \* a write has failed
    ended       \* the response is written, as far as the server knows

BInit == size \in Nat /\ got = <<>> /\ broken = FALSE /\ ended = FALSE

\* n bytes, the first of which has the place p.
Run(p, n) == [k \in 1..n |-> p + k - 1]

Deliver ==
    /\ ~ended
    /\ \E n \in 1..size, p \in 1..size :
        /\ got' = got \o Run(p, n)
        /\ p + n - 1 <= size
        /\ \A k \in 1..Len(got) : got[k] < p
        /\ p = Len(got) + 1 \/ broken'
    /\ broken' \in {broken, TRUE}
    /\ UNCHANGED size

Break == ~ended /\ broken' = TRUE /\ UNCHANGED <<size, got>>

\* With or without the last bytes.
Finish ==
    /\ ended' = TRUE
    /\ Len(got') = size \/ broken'

BNext ==
    \/ (Deliver \/ Break) /\ UNCHANGED ended
    \/ (Deliver \/ Break \/ (~ended /\ UNCHANGED <<size, got, broken>>)) /\ Finish

BSpec == BInit /\ [][BNext]_<<size, got, broken, ended>>
=============================================================================
