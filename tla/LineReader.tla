----------------------------- MODULE LineReader -----------------------------
(***************************************************************************)
(* BaseSock::ReadLine (common/base_sock.cpp), called again and again on    *)
(* one connection, as ReadRequest and SaveUpload do.  It looks at the      *)
(* bytes that have arrived (MSG_PEEK, SSL_peek) and then takes those that  *)
(* belong to the line, so that the bytes after it stay in the socket.      *)
(*                                                                         *)
(* What has been taken since the call began is what buf holds: tot_bytes   *)
(* is taken - from.  Time is counted in the seconds that poll waits.  An   *)
(* incomplete TLS record wakes poll and SSL_peek wants more: the wait      *)
(* starts again, and the clock of ReadLine is not looked at.               *)
(*                                                                         *)
(* ClientAccept (common/srv_sock.cpp) makes a socket non-blocking in a     *)
(* build without SSL and after a TLS handshake.  On a plain connection of  *)
(* a build with SSL that is left to accept: where it does not hand on the  *)
(* mode of the listener, as on Linux, recv blocks and nobody polls.        *)
(***************************************************************************)
EXTENDS Integers, SequencesExt

CONSTANTS
    MaxStream,  \* bound: the bytes that the client sends
    BufLen,     \* sizeof(buf), 1500 in the code
    TimeOut,    \* _TimeOut, in seconds
    MaxParts    \* bound: incomplete records; 0 on a plain connection

ASSUME LineReaderAssumption ==
    /\ MaxStream \in Nat /\ BufLen \in Nat \ {0}
    /\ TimeOut \in Nat \ {0} /\ MaxParts \in Nat

VARIABLES
    nonblocking,
    stream,     \* what the client sends
    arrived,    \* how much of it has reached the socket
    closed,     \* the client has closed the connection
    taken,      \* how much of it the server has taken
    pc,         \* "idle", "read" (recv is next) or "wait" (in poll)
    from,       \* taken, when the call began
    waited,     \* seconds that poll has waited in this ReadData
    parts,      \* incomplete records that have woken poll in this call
    clock,      \* seconds since the call began: time(0) - start
    result      \* of the latest call

peer == <<nonblocking, stream, arrived, closed>>
vars == <<peer, taken, pc, from, waited, parts, clock, result>>

\* "x" is any byte but CR and LF.
Bytes == {"x", "cr", "lf"}
Streams == SeqOf(Bytes, MaxStream)

Init ==
    /\ nonblocking \in BOOLEAN /\ stream \in Streams
    /\ arrived = 0 /\ closed = FALSE /\ taken = 0
    /\ pc = "idle" /\ from = 0
    /\ waited = 0 /\ parts = 0 /\ clock = 0
    /\ result = [ok |-> TRUE, line |-> <<>>]

\* The first n bytes of buf.
Buf(n) == SubSeq(stream, from + 1, from + n)

\* The length of the line that ends at the e-th of n bytes, and what to take.
LineTo(e, crlf) == [len |-> IF crlf THEN e - 2 ELSE e - 1, size |-> e]
NoLine == [len |-> -1, size |-> -1]
First(ends) == CHOOSE i \in ends : \A j \in ends : i <= j

\* Fault: FindEOL looks at the bytes of this round only.
FindEOLNew(n) ==
    LET new == taken - from + 1
        ends == {i \in new..n : Buf(n)[i] = "lf"}
        e == First(ends)
    IN  IF ends = {} THEN NoLine
        ELSE LineTo(e, e > new /\ Buf(n)[e - 1] = "cr")

\* The first line in the first n bytes of buf.
FindEOL(n) ==
    LET ends == {i \in 1..n : Buf(n)[i] = "lf"}
        e == First(ends)
    IN  IF ends = {} THEN NoLine
        ELSE LineTo(e, e > 1 /\ Buf(n)[e - 1] = "cr")

Call ==
    /\ pc = "idle"
    /\ pc' = "read" /\ from' = taken
    /\ waited' = 0 /\ parts' = 0 /\ clock' = 0
    /\ UNCHANGED <<peer, taken, result>>

Return(ok, line) ==
    /\ pc' = "idle"
    /\ result' = [ok |-> ok, line |-> line]

\* n bytes have arrived, tot with those of earlier rounds.  A line is taken
\* with its end and given; without one all is taken and, unless time is up,
\* there is another round.
Look(tot, inTime) ==
    LET eol == FindEOL(tot)
    IN  IF eol.len # -1
           THEN taken' = from + eol.size /\ Return(TRUE, Buf(eol.len))
           ELSE /\ taken' = from + tot
                /\ IF inTime THEN pc' = "read" /\ UNCHANGED result
                             ELSE Return(FALSE, Buf(tot))

Found(n) ==
    /\ pc \in {"read", "wait"} /\ n \in 1..arrived - taken
    /\ waited' = 0
    /\ UNCHANGED <<peer, from, parts, clock>>

\* Fault: the clock is not looked at.
PeekUntimed ==
    /\ taken - from < BufLen
    /\ \E n \in 1..BufLen - (taken - from) :
        Found(n) /\ Look(taken - from + n, TRUE)

\* ReadData finds data: recv gives what there is, SSL_peek at most a record.
Peek ==
    /\ taken - from < BufLen
    /\ \E n \in 1..BufLen - (taken - from) :
        Found(n) /\ Look(taken - from + n, clock < TimeOut)

\* buf is full: ReadData is asked for no bytes and returns none.
BufferFull ==
    /\ pc = "read" /\ taken - from = BufLen
    /\ Return(FALSE, Buf(BufLen))
    /\ UNCHANGED <<peer, taken, from, waited, parts, clock>>

\* A blocking recv waits.  That the time is up is all that matters of it.
Blocked ==
    /\ ~nonblocking
    /\ pc = "read" /\ taken - from < BufLen
    /\ arrived = taken /\ ~closed /\ clock < TimeOut
    /\ clock' = clock + 1
    /\ UNCHANGED <<peer, taken, pc, from, waited, parts, result>>

\* recv would block, and poll waits a second at a time.
Block ==
    /\ nonblocking
    /\ pc = "read" /\ taken - from < BufLen
    /\ arrived = taken /\ ~closed
    /\ pc' = "wait"
    /\ UNCHANGED <<peer, taken, from, waited, parts, clock, result>>

Second ==
    /\ pc = "wait" /\ arrived = taken /\ ~closed
    /\ waited < TimeOut
    /\ waited' = waited + 1 /\ clock' = clock + 1
    /\ UNCHANGED <<peer, taken, pc, from, parts, result>>

\* Part of a TLS record arrives.
PollAgain ==
    /\ pc = "wait" /\ arrived = taken /\ ~closed
    /\ parts < MaxParts
    /\ parts' = parts + 1 /\ waited' = 0
    /\ UNCHANGED <<peer, taken, pc, from, clock, result>>

\* Fault: poll is called once.
PollOnce ==
    /\ pc = "wait" /\ arrived = taken /\ ~closed
    /\ waited = 1
    /\ Return(FALSE, Buf(taken - from))
    /\ UNCHANGED <<peer, taken, from, waited, parts, clock>>

PollTimeOut ==
    /\ pc = "wait" /\ arrived = taken /\ ~closed
    /\ waited = TimeOut
    /\ Return(FALSE, Buf(taken - from))
    /\ UNCHANGED <<peer, taken, from, waited, parts, clock>>

\* The client has closed: recv returns 0.
EndOfStream ==
    /\ pc \in {"read", "wait"} /\ arrived = taken /\ closed
    /\ taken - from < BufLen
    /\ Return(FALSE, Buf(taken - from))
    /\ UNCHANGED <<peer, taken, from, waited, parts, clock>>

\* The client and the network.
Arrive ==
    /\ ~closed
    /\ arrived' \in arrived + 1..Len(stream)
    /\ UNCHANGED <<nonblocking, stream, closed, taken, pc, from, waited, parts, clock, result>>

PeerCloses ==
    /\ ~closed
    /\ closed' = TRUE
    /\ UNCHANGED <<nonblocking, stream, arrived, taken, pc, from, waited, parts, clock, result>>

ReadLine ==
    Peek \/ BufferFull \/ Blocked \/ Block \/ Second \/ PollAgain \/ PollTimeOut \/ EndOfStream

Next == Call \/ ReadLine \/ Arrive \/ PeerCloses

Spec == Init /\ [][Next]_vars

-----------------------------------------------------------------------------
(* Properties. *)

\* What the server has taken has arrived, and buf is never overrun.
TypeOK ==
    /\ nonblocking \in BOOLEAN /\ stream \in Streams /\ closed \in BOOLEAN
    /\ arrived \in 0..Len(stream) /\ taken \in 0..arrived
    /\ pc \in {"idle", "read", "wait"}
    /\ from \in 0..taken /\ taken - from <= BufLen
    /\ waited \in 0..TimeOut /\ parts \in 0..MaxParts /\ clock \in Nat
    /\ result.ok \in BOOLEAN /\ result.line \in Seq(Bytes)

\* The ends of lines behind a position of the stream.
EndsAfter(p) == {i \in p + 1..Len(stream) : stream[i] = "lf"}

\* A line that ReadLine gives is the next line of the stream without its CR LF
\* or LF, and the stream goes on right behind it, however the bytes arrived:
\* CR and LF may come apart, and several lines together.
LineExact ==
    pc = "idle" /\ result.ok /\ taken > 0 =>
        LET e == First(EndsAfter(from))
        IN  /\ EndsAfter(from) # {} /\ taken = e
            /\ result.line =
                 IF e > from + 1 /\ stream[e - 1] = "cr"
                    THEN SubSeq(stream, from + 1, e - 2)
                    ELSE SubSeq(stream, from + 1, e - 1)

\* ReadLine fails only when the client has closed, the line is longer than the
\* buffer or time is up, and what it took has no end of line.
FailsForCause ==
    pc = "idle" /\ ~result.ok =>
        /\ \A i \in from + 1..taken : stream[i] # "lf"
        /\ closed \/ taken - from = BufLen \/ clock >= TimeOut

\* The time for a line and the time for the next byte add up, and no client
\* holds a call longer, however slowly it sends, but for the incomplete TLS
\* records: each of them gives it the whole time once more.  On a blocking
\* socket the client can hold it for ever.
InTime == nonblocking => clock < (2 + parts) * TimeOut
=============================================================================
