----------------------------- MODULE UploadData -----------------------------
(***************************************************************************)
(* The second half of HttpResponse::SaveUpload (common/http_srv.cpp): the  *)
(* bytes of the file, which end where a delimiter begins, CR LF and the    *)
(* boundary.  A round reads a buffer, peeks at the bytes that follow it in *)
(* case the delimiter lies across its end, and writes the buffer up to the *)
(* delimiter or whole.                                                     *)
(*                                                                         *)
(* Bytes are positions in the body, counted from the start of the file's   *)
(* data.  What has been read is tot_bytes, which counts the lines before   *)
(* the data too: they end with CR LF, as the code takes them to.           *)
(***************************************************************************)
EXTENDS Integers

CONSTANTS
    MaxPayload, \* bound: the length of the file
    Delim,      \* the length of CR LF and the boundary, that of the peek too
    Gap,        \* the length of a form field that follows the file
    Trailer,       \* what follows the last delimiter
    MaxExtra,   \* bound: what the client sends behind the body
    BufLen      \* sizeof(buffer), 4096 in the code

ASSUME UploadDataAssumption ==
    /\ MaxPayload \in Nat /\ Gap \in Nat /\ MaxExtra \in Nat
    /\ Delim \in Nat \ {0} /\ Trailer \in Nat \ {0} /\ BufLen \in Nat \ {0}

VARIABLES
    payload,        \* the length of the file
    delims,         \* where a delimiter begins: behind the file, and behind
                    \* a form field that follows it
    content_len,    \* the Content-Length that the client declares
    sent,           \* what it sends, the rest of the body missing or with
                    \* the next request behind it
    arrived,        \* how much of it has reached the socket
    closed,         \* the client has closed the connection
    nonblocking,    \* the socket is: see LineReader
    pos,            \* what the server has read: tot_bytes
    bytes,          \* the length of buffer
    pc,             \* see States
    saved,          \* bytes written to the temporary file
    hid,            \* a short peek ended inside a delimiter, and hid it
    quiet           \* a read timed out

peer == <<payload, delims, content_len, sent, nonblocking>>
vars == <<peer, arrived, closed, pos, bytes, pc, saved, hid, quiet>>

States ==
    {"read",        \* at ReadData, the file not yet complete
     "peek",        \* buffer holds the bytes from pos - bytes to pos
     "drain",       \* the delimiter was found; the rest of the body is read
     "accepted", "refused"}

\* The length of the body.
Length ==
    (CHOOSE e \in delims : \A d \in delims : d <= e) + Delim + Trailer

Init ==
    /\ payload \in 0..MaxPayload
    /\ delims \in {{payload}, {payload, payload + Delim + Gap}}
    /\ content_len \in Length - 1..Length + 1
    /\ sent \in 0..Length + MaxExtra
    /\ arrived = 0 /\ closed = FALSE /\ nonblocking \in BOOLEAN
    /\ pos = 0 /\ bytes = 0 /\ pc = "read" /\ saved = 0
    /\ hid = FALSE /\ quiet = FALSE

\* What a read of up to n bytes returns when something has arrived.
Available(n) == {k \in 1..n : pos + k <= arrived}

\* ReadData returns 0 or -1: the client has closed or four seconds have passed.
NothingComes ==
    /\ pos = arrived /\ (closed \/ nonblocking)
    /\ quiet' = (quiet \/ ~closed)

Read ==
    /\ pc = "read"
    /\ \E n \in Available(BufLen) : bytes' = n /\ pos' = pos + n
    /\ pc' = "peek"
    /\ UNCHANGED <<peer, arrived, closed, saved, hid, quiet>>

\* The file is not complete: SaveUpload returns false.
ReadFails ==
    /\ pc = "read"
    /\ NothingComes
    /\ pc' = "refused"
    /\ UNCHANGED <<peer, arrived, closed, pos, bytes, saved, hid>>

\* The delimiters that lie in buffer and k bytes behind it.
Found(k) == {d \in delims : pos - bytes <= d /\ d + Delim <= pos + k}

\* Fault: the buffer is written whole when the delimiter is found.
WriteWhole(k) ==
    IF Found(k) # {}
       THEN saved' = saved + bytes /\ pc' = "drain"
       ELSE saved' = saved + bytes /\ pc' = "read"

\* The buffer up to the first delimiter, or the whole buffer, is written.
Write(k) ==
    IF Found(k) # {}
       THEN /\ \E d \in Found(k) :
                /\ \A e \in Found(k) : d <= e
                /\ saved' = saved + (d - (pos - bytes))
            /\ pc' = "drain"
       ELSE saved' = saved + bytes /\ pc' = "read"

\* Fault: no look ahead.
PeekNever ==
    /\ pc = "peek"
    /\ Write(0)
    /\ UNCHANGED <<peer, arrived, closed, pos, bytes, hid, quiet>>

\* A delimiter begins in buffer and ends behind the k bytes that follow it.
Cut(k) == \E d \in delims : pos - bytes <= d /\ d < pos /\ pos + k < d + Delim

\* recv gives what there is, SSL_peek at most a record.
Peek ==
    /\ pc = "peek"
    /\ IF pos < content_len
          THEN \/ \E k \in Available(Delim) :
                    Write(k) /\ hid' = (hid \/ Cut(k)) /\ UNCHANGED quiet
               \/ NothingComes /\ Write(0) /\ hid' = (hid \/ Cut(0))
          ELSE Write(0) /\ UNCHANGED <<hid, quiet>>
    /\ UNCHANGED <<peer, arrived, closed, pos, bytes>>

\* Fault: the rest of the body stays in the socket.
DrainNothing ==
    /\ pc = "drain"
    /\ pc' = "accepted"
    /\ UNCHANGED <<peer, arrived, closed, pos, bytes, saved, hid, quiet>>

\* The rest of the body is read and dropped, and no more than that.
Drain ==
    /\ pc = "drain"
    /\ IF pos < content_len
          THEN \/ \E n \in Available(BufLen) :
                    /\ pos + n <= content_len
                    /\ pos' = pos + n /\ UNCHANGED <<pc, quiet>>
               \/ NothingComes /\ pc' = "accepted" /\ UNCHANGED pos
          ELSE pc' = "accepted" /\ UNCHANGED <<pos, quiet>>
    /\ UNCHANGED <<peer, arrived, closed, bytes, saved, hid>>

\* The client and the network.
Arrive ==
    /\ ~closed
    /\ arrived' \in arrived + 1..sent
    /\ UNCHANGED <<peer, closed, pos, bytes, pc, saved, hid, quiet>>

PeerCloses ==
    /\ ~closed /\ arrived = sent
    /\ closed' = TRUE
    /\ UNCHANGED <<peer, arrived, pos, bytes, pc, saved, hid, quiet>>

SaveUpload == Read \/ ReadFails \/ Peek \/ Drain

Next == SaveUpload \/ Arrive \/ PeerCloses

Spec == Init /\ [][Next]_vars

-----------------------------------------------------------------------------
(* Properties. *)

TypeOK ==
    /\ payload \in 0..MaxPayload /\ payload \in delims
    /\ content_len \in Nat /\ sent \in Nat
    /\ arrived \in 0..sent /\ pos \in 0..arrived
    /\ bytes \in 0..BufLen /\ pc \in States /\ saved \in 0..pos
    /\ closed \in BOOLEAN /\ nonblocking \in BOOLEAN
    /\ hid \in BOOLEAN /\ quiet \in BOOLEAN

\* The Content-Length is not below the length of the body.
Honest == content_len >= Length

\* An accepted upload is saved as it was sent, however the body was cut into
\* segments.  The exception is a delimiter that a short peek hid: then the
\* file goes on up to the next delimiter.
SavedIsPayload ==
    pc \in {"drain", "accepted"} =>
        /\ saved \in delims
        /\ saved # payload => hid \/ ~Honest

\* An upload whose delimiter has arrived is refused only if a short peek hid
\* the delimiter, or a wrong Content-Length kept the code from peeking.
RefusedForCause ==
    pc = "refused" /\ pos >= payload + Delim => hid \/ ~Honest

\* After an accepted upload the whole body has been read, and nothing of it is
\* taken for the next request, unless the client stopped sending; and no more
\* than the body, but for what came with the buffer in which the delimiter
\* begins: SaveUpload fills that one without regard to the Content-Length, and
\* what it has of the next request is lost.
BodyTaken ==
    pc = "accepted" =>
        /\ pos >= content_len \/ quiet \/ closed
        /\ pos <= content_len \/ pos <= saved + BufLen
=============================================================================
