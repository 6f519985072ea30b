--------------------------- MODULE ResponseWriter ---------------------------
(***************************************************************************)
(* One response on its way into the socket: the lines of WriteHeader, and  *)
(* the body, as one string (WriteString) or in the chunks of WriteFile     *)
(* (common/http_srv.cpp), each given to BaseSock::WriteData, which writes  *)
(* it in pieces through ExchangeData (common/base_sock.cpp).  None of the  *)
(* callers looks at what WriteData returns: after a write that timed out   *)
(* the next one is tried, and waits again.                                 *)
(*                                                                         *)
(* Bytes are named by their place in the response.  Time is counted in the *)
(* seconds that poll waits.                                                *)
(*                                                                         *)
(* With TLS a piece becomes a record.  One that the socket takes only part *)
(* of is kept by OpenSSL: SSL_write must be called again with the same     *)
(* buffer, and a call with another one fails, without an error that        *)
(* ExchangeData polls for.  A call with the same buffer sends the record   *)
(* and counts it as that call's own bytes; WriteFile has one buffer for    *)
(* all chunks, and a line may get the memory of the line before.  When the *)
(* record was shorter than the new data, SSL_write goes on with the rest of*)
(* these.  Once a call was refused, its error stays in OpenSSL's queue, and*)
(* SSL_get_error may take it for that of a later call.                     *)
(***************************************************************************)
EXTENDS Integers, Sequences

CONSTANTS
    MaxLines,   \* bound: the lines of the header, each a call of one piece
    MaxBody,    \* bound: the length of the body
    ChunkLen,   \* sizeof(chunk), 4096 in the code
    MaxBytes,   \* max_bytes, 1460 in the code
    Buffer,     \* the room in the socket's send buffer
    TimeOut     \* _TimeOut, in seconds

ASSUME ResponseWriterAssumption ==
    /\ MaxLines \in Nat \ {0} /\ MaxBody \in Nat /\ TimeOut \in Nat \ {0}
    /\ ChunkLen \in Nat \ {0} /\ MaxBytes \in Nat \ {0} /\ Buffer \in Nat \ {0}

VARIABLES
    tls, nonblocking,   \* see LineReader
    size,       \* the length of the response
    file,       \* the body is written by WriteFile
    lines,      \* of the header, still to be written after this call
    to_read,    \* of the body, still to be written after this call
    start,      \* the bytes that the calls before this one were to write
    len,        \* the length of this call's data
    chunk,      \* this call's data are in WriteFile's buffer
    tot_bytes,  \* in WriteData
    pc,         \* "write" (send or SSL_write is next), "poll" or "done"
    loops,      \* the seconds that are left, in ExchangeData
    pending,    \* the record that OpenSSL keeps
    wire,       \* the bytes that the client can read
    room,       \* in the send buffer
    gone,       \* the connection is reset
    failed,     \* a write has failed
    clock,      \* the seconds that have been waited for this response
    calls,      \* the calls of WriteData that have returned
    freed       \* what the client has read, so that there was room again

kind == <<tls, nonblocking, size, file>>
call == <<lines, to_read, start, len, chunk>>
vars == <<kind, call, tot_bytes, pc, loops, pending, wire, room, gone, failed,
          clock, calls, freed>>

\* The bytes of a record, how many of them the socket has not taken, how many
\* bytes of the same SSL_write have gone out before, and where they were in
\* memory.
NoRecord ==
    [first |-> 0, count |-> 0, left |-> 0, before |-> 0, at |-> 0, chunk |-> FALSE]

Smaller(a, b) == IF a < b THEN a ELSE b

\* A header line of one byte stands for every line that fits into a piece.
Init ==
    /\ tls \in BOOLEAN /\ nonblocking \in BOOLEAN /\ (tls => nonblocking)
    /\ file \in BOOLEAN
    /\ \E n \in 1..MaxLines, b \in 0..MaxBody :
        lines = n - 1 /\ to_read = b /\ size = n + b
    /\ start = 0 /\ len = 1 /\ chunk = FALSE /\ tot_bytes = 0
    /\ pc = "write" /\ loops = 0 /\ pending = NoRecord
    /\ wire = <<>> /\ room = Buffer
    /\ gone = FALSE /\ failed = FALSE
    /\ clock = 0 /\ calls = 0 /\ freed = 0

\* n bytes of the response, the first of which has the place p.
Run(p, n) == [k \in 1..n |-> p + k - 1]

\* Fault: WriteFile takes a full chunk also at the end.
NextCallFull ==
    /\ start' = start + len /\ calls' = calls + 1 /\ tot_bytes' = 0 /\ loops' = 0
    /\ \/ /\ lines > 0
          /\ lines' = lines - 1 /\ len' = 1
          /\ pc' = "write" /\ UNCHANGED <<to_read, chunk>>
       \/ /\ lines = 0 /\ to_read > 0
          /\ len' = ChunkLen
          /\ to_read' = IF to_read > ChunkLen THEN to_read - ChunkLen ELSE 0
          /\ chunk' = file
          /\ pc' = "write" /\ UNCHANGED lines
       \/ /\ lines = 0 /\ to_read = 0
          /\ pc' = "done" /\ len' = 0 /\ UNCHANGED <<lines, to_read, chunk>>

\* WriteData returns, and whatever it returns the next line or chunk follows.
NextCall ==
    /\ start' = start + len /\ calls' = calls + 1 /\ tot_bytes' = 0 /\ loops' = 0
    /\ \/ /\ lines > 0
          /\ lines' = lines - 1 /\ len' = 1
          /\ pc' = "write" /\ UNCHANGED <<to_read, chunk>>
       \/ /\ lines = 0 /\ to_read > 0
          /\ len' = IF file THEN Smaller(ChunkLen, to_read) ELSE to_read
          /\ to_read' = to_read - len'
          /\ chunk' = file
          /\ pc' = "write" /\ UNCHANGED lines
       \/ /\ lines = 0 /\ to_read = 0
          /\ pc' = "done" /\ len' = 0 /\ UNCHANGED <<lines, to_read, chunk>>

\* ExchangeData returns n bytes, and WriteData goes on behind them.
Written(n) ==
    IF tot_bytes + n < len
       THEN /\ tot_bytes' = tot_bytes + n /\ pc' = "write" /\ loops' = 0
            /\ UNCHANGED <<call, calls>>
       ELSE NextCall

\* ExchangeData returns -1.
Fail == failed' = TRUE /\ NextCall

\* ExchangeData goes into poll, for the whole time.
Poll ==
    /\ pc' = "poll" /\ loops' = TimeOut
    /\ UNCHANGED <<call, tot_bytes, calls>>

\* The piece that is written: buf + tot_bytes and chunk_size.
First == start + tot_bytes + 1
Piece == Smaller(MaxBytes, len - tot_bytes)

\* poll returns at once when there is room, or the client has gone.
Ready == \/ pc = "write"
         \/ pc = "poll" /\ (room > 0 \/ gone)

\* send takes what there is room for, or part of it.  Without room a blocking
\* socket waits in send.
Send ==
    /\ ~tls /\ Ready /\ ~gone
    /\ \/ \E n \in 1..Smaller(Piece, room) :
            /\ wire' = wire \o Run(First, n)
            /\ room' = room - n
            /\ Written(n)
       \/ room = 0 /\ nonblocking /\ Poll /\ UNCHANGED <<wire, room>>
    /\ UNCHANGED <<kind, pending, gone, failed, clock, freed>>

\* What is left of a record goes out; the client can read nothing of it before
\* its end.  Then SSL_write goes on with the rest of the piece, or returns it.
Flush(record) ==
    LET done == record.before + record.count
    IN  IF record.left > room
           THEN /\ pending' = [record EXCEPT !.left = @ - room]
                /\ room' = 0 /\ UNCHANGED wire
                /\ Poll \/ (failed /\ NextCall)
           ELSE /\ wire' = wire \o Run(record.first, record.count)
                /\ room' = room - record.left
                /\ IF done < Piece
                      THEN /\ pending' = [record EXCEPT !.first = First + done,
                                 !.count = Piece - done, !.left = Piece - done,
                                 !.before = done]
                           /\ pc' = "write" /\ UNCHANGED <<call, tot_bytes, loops, calls>>
                      ELSE pending' = NoRecord /\ Written(Piece)

\* Nothing is pending: the piece becomes a record.
SslWrite ==
    /\ tls /\ Ready /\ ~gone /\ pending = NoRecord
    /\ Flush([first |-> First, count |-> Piece, left |-> Piece, before |-> 0,
              at |-> tot_bytes, chunk |-> chunk])
    /\ UNCHANGED <<kind, gone, failed, clock, freed>>

\* The record that is pending belongs to this piece.
Own == pending.first = First + pending.before

\* SSL_write finds the same buffer as before, or takes it for that.
SameBuffer ==
    /\ pending.before + pending.count <= Piece
    /\ chunk = pending.chunk
    /\ chunk => tot_bytes = pending.at

\* The rest of the record goes out: of this piece, when ExchangeData tries
\* again, or of one that was given up.
SslWriteAgain ==
    /\ tls /\ Ready /\ ~gone /\ pending # NoRecord
    /\ SameBuffer
    /\ Flush(pending)
    /\ UNCHANGED <<kind, gone, failed, clock, freed>>

\* A bad write retry: the buffer is another one.
SslWriteRefused ==
    /\ tls /\ Ready /\ ~gone
    /\ pending # NoRecord /\ ~Own
    /\ ~(SameBuffer /\ chunk)
    /\ Fail
    /\ UNCHANGED <<kind, pending, wire, room, gone, clock, freed>>

\* Fault: WriteData goes on after a write that failed.
WriteFailsRetried ==
    /\ Ready
    /\ gone \/ (tls /\ pending = NoRecord)
    /\ failed' = TRUE
    /\ UNCHANGED <<kind, call, tot_bytes, pc, loops, calls, pending, wire, room, gone,
                   clock, freed>>

\* The connection is reset, or SSL_write has to read first, which is not waited
\* for.
WriteFails ==
    /\ Ready
    /\ gone \/ (tls /\ pending = NoRecord)
    /\ Fail
    /\ UNCHANGED <<kind, pending, wire, room, gone, clock, freed>>

\* Fault: a poll that times out is polled again.
PollTimesOutNever ==
    /\ pc = "poll" /\ room = 0 /\ ~gone
    /\ loops = 1
    /\ clock' = clock + 1 /\ loops' = TimeOut
    /\ clock < 100
    /\ UNCHANGED <<kind, call, tot_bytes, pc, calls, pending, wire, room, gone, failed,
                   freed>>

\* A second passes in poll, not the last one.
Second ==
    /\ pc = "poll" /\ room = 0 /\ ~gone
    /\ loops > 1
    /\ clock' = clock + 1 /\ loops' = loops - 1
    /\ UNCHANGED <<kind, call, tot_bytes, pc, calls, pending, wire, room, gone,
                   failed, freed>>

PollTimesOut ==
    /\ pc = "poll" /\ room = 0 /\ ~gone
    /\ loops = 1
    /\ clock' = clock + 1
    /\ Fail
    /\ UNCHANGED <<kind, pending, wire, room, gone, freed>>

\* The client and the network.
ClientReads ==
    /\ ~gone /\ pc # "done"
    /\ \E n \in 1..Buffer - room : room' = room + n /\ freed' = freed + n
    /\ UNCHANGED <<kind, call, tot_bytes, pc, loops, pending, wire, gone, failed,
                   clock, calls>>

ClientLeaves ==
    /\ ~gone /\ pc # "done"
    /\ gone' = TRUE
    /\ UNCHANGED <<kind, call, tot_bytes, pc, loops, pending, wire, room, failed,
                   clock, calls, freed>>

WriteData ==
    \/ Send \/ SslWrite \/ SslWriteAgain \/ SslWriteRefused
    \/ WriteFails \/ Second \/ PollTimesOut

Next == WriteData \/ ClientReads \/ ClientLeaves

Spec == Init /\ [][Next]_vars

\* The thread runs and time passes.
FairSpec == Spec /\ WF_vars(WriteData)

-----------------------------------------------------------------------------
(* Properties. *)

Records ==
    [first : Nat, count : Nat, left : Nat, before : Nat, at : Nat, chunk : BOOLEAN]

TypeOK ==
    /\ tls \in BOOLEAN /\ nonblocking \in BOOLEAN /\ file \in BOOLEAN
    /\ size \in Nat /\ lines \in Nat /\ to_read \in Nat
    /\ start \in Nat /\ len \in Nat /\ chunk \in BOOLEAN /\ tot_bytes \in Nat
    /\ pc \in {"write", "poll", "done"} /\ loops \in 0..TimeOut
    /\ pending \in Records
    /\ wire \in Seq(Nat) /\ room \in 0..Buffer
    /\ gone \in BOOLEAN /\ failed \in BOOLEAN
    /\ clock \in Nat /\ calls \in Nat /\ freed \in Nat

\* However the response is cut into calls, pieces and records, and however
\* often a write is tried again, the client gets its bytes in order, none
\* twice, and all of them unless a write failed; after that some may be missing
\* in the middle, for the code goes on writing.
Stream == INSTANCE ByteStream WITH
    got <- wire, broken <- failed, ended <- pc = "done"

ImplementsByteStream == Stream!BSpec

\* A client that reads nothing holds the worker for the timeout once per call,
\* that is once for each line and each chunk of a file, and no longer; every
\* byte it reads can gain it another timeout.
InTime == clock <= TimeOut * (calls + freed + 1)

\* The response ends, unless the socket blocks and the client does not read.
ResponseEnds ==
    \/ <>(pc = "done")
    \/ <>[](~nonblocking /\ room = 0 /\ ~gone)
=============================================================================
