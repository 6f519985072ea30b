----------------------------- MODULE Connection -----------------------------
(***************************************************************************)
(* The requests of one connection: HttpResponse::Run, ReadRequest and      *)
(* ProcessRequest (common/http_srv.cpp), with Server's RequestReceived and *)
(* page handlers (server.cpp).  A step ends where the peer, the file       *)
(* system or a cancellation can intervene.                                 *)
(*                                                                         *)
(* Lengths are counted in the chunks of WriteFile's loop.  Each page that  *)
(* is a string is one chunk long.  The request targets are those a browser *)
(* sends; the library's page types that Server does not use are left out.  *)
(***************************************************************************)
EXTENDS Integers

CONSTANTS
    MaxLen,     \* bound: the longest file
    Offsets,    \* the offsets a Range header names
    Chunked,    \* Server's _chunked, FALSE in the program
    KeepAlive   \* Server's _keepalive, TRUE in the program

ASSUME ConnectionAssumption ==
    /\ MaxLen \in Nat
    /\ Offsets \in SUBSET Int /\ 0 \in Offsets
    /\ Chunked \in BOOLEAN /\ KeepAlive \in BOOLEAN

VARIABLES
    pc,         \* where Run is: see States
    auth,       \* a user name is configured
    method,     \* _request_method
    req,        \* the request, as the client sent it
    header,     \* _response_header
    tmp,        \* the file that _request_header has as the temporary one:
                \* "none", "named" by the request itself, or SaveUpload's,
                \* "partial" or "accepted"
    saved,      \* what UploadPage renamed into uploads/ in this request
    wire,       \* the response to this request, as far as it is written
    left,       \* to_read, in WriteFile
    disk,       \* what the file system has at the path of the page
    peer        \* "there" | "gone"

vars == <<pc, auth, method, req, header, tmp, saved, wire, left, disk, peer>>

States ==
    {"line",        \* ReadRequest, reading the request line
     "unknown",     \* ReadRequest, the method is not known
     "options",     \* ReadRequest, the headers of an OPTIONS are read
     "body",        \* ReadRequest, a POST has a body that is no form
     "upload",      \* ReadRequest, in SaveUpload
     "received",    \* ReadRequest, before RequestReceived
     "process",     \* ProcessRequest
     "stat",        \* WriteFile
     "open",        \* WriteFile, after stat
     "send",        \* WriteFile, in the loop
     "end",         \* Run, after the loop
     "closed",      \* the connection is closed, Run has returned
     "cancelled",   \* the thread has acted upon a cancellation instead
     "aborted"}     \* an exception has left Run and ended the process

Over == {"closed", "cancelled", "aborted"}

Methods == {"GET", "HEAD", "POST", "OPTIONS"}

Pages ==
    {"path",        \* served by the handler of "/"
     "text",        \* /about, /user, /send
     "browse", "upload",
     "favicon",
     "alien"}       \* does not begin with "/"

Requests ==
    [method : Methods \cup {"other"}, page : Pages,
     cred : BOOLEAN,            \* the user name and the password are right
     range : Offsets,
     fresh : BOOLEAN,           \* If-Modified-Since is the file's date
     names : BOOLEAN]           \* it has an x-httpsrv-tmpfile field itself

Fields == {"Location", "WWW-Authenticate", "Last-Modified", "Content-Range",
           "Allow"}

Headers ==
    [conn : {"none", "keep-alive", "close"}, length : Int, chunked : BOOLEAN,
     fields : SUBSET Fields]

\* A file, a directory or nothing.
Files == [kind : {"file"}, len : 0..MaxLen]
Nothing == [kind |-> "none", len |-> 0]
Directory == [kind |-> "dir", len |-> 0]

NoRequest == [method |-> "GET", page |-> "path", cred |-> FALSE, range |-> 0,
              fresh |-> FALSE, names |-> FALSE]
NoHeader == [conn |-> "none", length |-> 0, chunked |-> FALSE, fields |-> {}]
NoResponse == [count |-> 0, status |-> 0, head |-> NoHeader, sent |-> 0,
               ended |-> FALSE, cut |-> FALSE]

Init ==
    /\ pc = "line"
    /\ auth \in BOOLEAN
    /\ method = "none" /\ req = NoRequest
    /\ header = NoHeader
    /\ tmp = "none" /\ saved = "none"
    /\ wire = NoResponse /\ left = 0
    /\ disk = Nothing
    /\ peer = "there"

-----------------------------------------------------------------------------
(* Writing.  The result of every write is ignored: when the peer is gone,   *)
(* or does not read for _connection_timeout seconds, bytes are missing.     *)

Cuts == IF peer = "gone" THEN {TRUE} ELSE BOOLEAN

\* WriteHeader, and n chunks of a body that is a string.
Respond(status, h, n) ==
    /\ header' = h
    /\ \E cut \in Cuts :
          wire' = [count |-> wire.count + 1, status |-> status, head |-> h,
                   sent |-> n, ended |-> FALSE, cut |-> cut]

\* Fault: clear() is missing.
CreateHeaderOver == [header EXCEPT !.conn = "keep-alive", !.length = 0,
                                   !.chunked = FALSE]

CreateHeader == [conn |-> "keep-alive", length |-> 0, chunked |-> FALSE,
                 fields |-> {}]

\* UpdateHeader, for the one field that RequestReceived adds.
WithField(h, field) == [h EXCEPT !.fields = @ \cup {field}]

\* Fault: the answer does not say that the connection will be closed.
StringHeaderSilent(h, n, keepalive) == [h EXCEPT !.length = n]

StringHeader(h, n, keepalive) ==
    [h EXCEPT !.length = n, !.conn = IF keepalive THEN @ ELSE "close"]

\* Fault: the body is sent whatever the method.
WriteStringAlways(status, h, n, keepalive) ==
    Respond(status, StringHeader(h, n, keepalive), n)

WriteString(status, h, n, keepalive) ==
    Respond(status, StringHeader(h, n, keepalive),
            IF method = "HEAD" THEN 0 ELSE n)

\* The error page, on top of whatever the header holds already.
WriteError(status, h) == WriteString(status, h, 1, FALSE)

\* The only error page that leaves the connection open.
Redirect == WriteString(302, WithField(CreateHeader, "Location"), 1, TRUE)

\* Where the loop of Run goes after an answer.
After(keepalive) == IF keepalive THEN "line" ELSE "end"

-----------------------------------------------------------------------------
(* ReadRequest *)

\* What clearing _request_header and reading a request line begin.
NewRequest ==
    /\ pc = "line"
    /\ saved' = "none"
    /\ wire' = NoResponse
    /\ UNCHANGED <<auth, header, left, peer>>

\* No line, a short one, an empty page, a bad or incomplete header line, or
\* too many of them.
ReadFails ==
    /\ NewRequest
    /\ tmp' = "none"
    /\ pc' = "end"
    /\ UNCHANGED <<method, req, disk>>

\* A method that is not known leaves _request_method alone.
ReadUnknown ==
    /\ NewRequest
    /\ tmp' = "none"
    /\ req' = [NoRequest EXCEPT !.method = "other"]
    /\ pc' = "unknown"
    /\ UNCHANGED <<method, disk>>

\* The request line and the headers.  That the empty line is missing, because
\* the peer has closed or the read timed out after a complete line, is not
\* noticed.
ReadHead(r, d) ==
    /\ NewRequest
    /\ req' = r /\ disk' = d
    /\ method' = r.method
    /\ tmp' = IF r.names THEN "named" ELSE "none"
    /\ \/ r.method = "OPTIONS" /\ pc' = "options"
       \/ r.method = "POST" /\ pc' \in {"body", "upload"}
       \/ r.method \in {"GET", "HEAD"} /\ pc' = "received"

NotImplemented ==
    /\ pc = "unknown"
    /\ WriteError(501, header)
    /\ pc' = "end"
    /\ UNCHANGED <<auth, method, req, tmp, saved, left, disk, peer>>

Options ==
    /\ pc = "options"
    /\ Respond(200,
               [WithField(CreateHeader, "Allow") EXCEPT !.conn = "close"], 0)
    /\ pc' = "end"
    /\ UNCHANGED <<auth, method, req, tmp, saved, left, disk, peer>>

\* ReadDataExact; without a Content-Length the number of bytes to read is
\* whatever the stack holds, and the allocation may throw.
ReadBody ==
    /\ pc = "body"
    /\ pc' \in {"received", "end", "aborted"}
    /\ UNCHANGED <<auth, method, req, header, tmp, saved, wire, left, disk,
                   peer>>

\* SaveUpload returns true: module UploadData says when.
UploadAccepted ==
    /\ pc = "upload"
    /\ tmp' = "accepted"
    /\ pc' = "received"
    /\ UNCHANGED <<auth, method, req, header, saved, wire, left, disk, peer>>

\* SaveUpload returns false, before or after it has made the file.
UploadRefused ==
    /\ pc = "upload"
    /\ tmp' \in {tmp, "partial"}
    /\ WriteError(400, header)
    /\ pc' = "end"
    /\ UNCHANGED <<auth, method, req, saved, left, disk, peer>>

Refused == auth /\ ~req.cred

\* Fault: the credentials are looked at after the directory.
RequestReceivedLate ==
    /\ pc = "received"
    /\ \/ /\ req.page = "favicon"
          /\ WriteError(404, CreateHeader)
          /\ pc' = "end"
       \/ /\ req.page \notin {"favicon", "browse"} /\ disk = Directory
          /\ Redirect
          /\ pc' = "line"
       \/ /\ req.page # "favicon" /\ Refused
          /\ req.page = "browse" \/ disk # Directory
          /\ WriteError(401, WithField(CreateHeader, "WWW-Authenticate"))
          /\ pc' = "end"
       \/ /\ req.page # "favicon" /\ ~Refused
          /\ req.page = "browse" \/ disk # Directory
          /\ pc' = "process"
          /\ UNCHANGED <<header, wire>>
    /\ UNCHANGED <<auth, method, req, tmp, saved, left, disk, peer>>

\* RequestReceived, and the answer when it has set a status.
RequestReceived ==
    /\ pc = "received"
    /\ \/ /\ req.page = "favicon"
          /\ WriteError(404, CreateHeader)
          /\ pc' = "end"
       \/ /\ req.page # "favicon" /\ Refused
          /\ WriteError(401, WithField(CreateHeader, "WWW-Authenticate"))
          /\ pc' = "end"
       \/ /\ req.page \notin {"favicon", "browse"} /\ ~Refused
          /\ disk = Directory
          /\ Redirect
          /\ pc' = "line"
       \/ /\ req.page # "favicon" /\ ~Refused
          /\ req.page = "browse" \/ disk # Directory
          /\ pc' = "process"
          /\ UNCHANGED <<header, wire>>
    /\ UNCHANGED <<auth, method, req, tmp, saved, left, disk, peer>>

-----------------------------------------------------------------------------
(* ProcessRequest *)

\* AboutPage, UserPage, FormPage, and BrowsePage of a directory it can read.
TextPage ==
    /\ pc = "process" /\ req.page \in {"text", "browse"}
    /\ WriteString(200, CreateHeader, 1, KeepAlive)
    /\ pc' = After(KeepAlive)
    /\ UNCHANGED <<auth, method, req, tmp, saved, left, disk, peer>>

\* No handler has the page, or BrowsePage refuses the directory.
NoPage ==
    /\ pc = "process"
    /\ \/ req.page = "alien" /\ WriteError(404, CreateHeader)
       \/ req.page = "browse" /\ WriteError(403, CreateHeader)
    /\ pc' = "end"
    /\ UNCHANGED <<auth, method, req, tmp, saved, left, disk, peer>>

UploadMissing ==
    /\ pc = "process" /\ req.page = "upload" /\ tmp = "none"
    /\ WriteError(400, CreateHeader)
    /\ pc' = "end"
    /\ UNCHANGED <<auth, method, req, tmp, saved, left, disk, peer>>

UploadRenamed ==
    /\ pc = "process" /\ req.page = "upload" /\ tmp # "none"
    /\ tmp' = "none" /\ saved' = tmp
    /\ WriteString(200, CreateHeader, 1, KeepAlive)
    /\ pc' = After(KeepAlive)
    /\ UNCHANGED <<auth, method, req, left, disk, peer>>

\* The name is empty, or rename fails, perhaps because the file is not there;
\* nor does anybody look whether unlink succeeds.
UploadFails ==
    /\ pc = "process" /\ req.page = "upload" /\ tmp # "none"
    /\ tmp' \in {tmp, "none"}
    /\ \E status \in {400, 500} : WriteError(status, CreateHeader)
    /\ pc' = "end"
    /\ UNCHANGED <<auth, method, req, saved, left, disk, peer>>

FilePage ==
    /\ pc = "process" /\ req.page = "path"
    /\ header' = CreateHeader
    /\ pc' = "stat"
    /\ UNCHANGED <<auth, method, req, tmp, saved, wire, left, disk, peer>>

\* stat or open fails.
FileMissing ==
    /\ pc \in {"stat", "open"} /\ disk = Nothing
    /\ WriteError(404, header)
    /\ pc' = "end"
    /\ UNCHANGED <<auth, method, req, tmp, saved, left, disk, peer>>

\* stat succeeds.
FileFound ==
    /\ pc = "stat" /\ disk # Nothing
    /\ IF req.fresh
          THEN /\ WriteString(304, header, 0, KeepAlive)
               /\ pc' = After(KeepAlive)
          ELSE /\ pc' = "open"
               /\ UNCHANGED <<header, wire>>
    /\ UNCHANGED <<auth, method, req, tmp, saved, left, disk, peer>>

\* The header of a file, once its length is known.
FileHeader ==
    [WithField(header, "Last-Modified") EXCEPT
        !.conn = IF KeepAlive THEN @ ELSE "close"]

\* WriteBinaryHeader.
WriteBinaryHeader(h, total, chunked, offset) ==
    LET ranged == IF offset > 0 THEN WithField(h, "Content-Range") ELSE h
    IN  Respond(IF offset > 0 THEN 206 ELSE 200,
                IF chunked THEN [ranged EXCEPT !.length = 0, !.chunked = TRUE]
                           ELSE [ranged EXCEPT !.length = total - offset],
                0)

\* The header says how long the file is now.
FileOpened ==
    /\ pc = "open" /\ disk # Nothing
    /\ IF method = "HEAD"
          THEN /\ WriteBinaryHeader(FileHeader, disk.len, FALSE, 0)
               /\ pc' = After(KeepAlive)
               /\ UNCHANGED left
          ELSE /\ WriteBinaryHeader(FileHeader, disk.len, Chunked, req.range)
               /\ left' = disk.len - req.range
               /\ pc' = "send"
    /\ UNCHANGED <<auth, method, req, tmp, saved, disk, peer>>

\* Fault: the loop counts the bytes that ifs.read has got.
SendChunkRead ==
    /\ pc = "send" /\ left > 0
    /\ \E cut \in Cuts :
          wire' = [wire EXCEPT !.sent = IF disk = Nothing THEN @ ELSE @ + 1,
                               !.cut = @ \/ cut]
    /\ left' = IF disk = Nothing THEN left ELSE left - 1
    /\ UNCHANGED <<pc, auth, method, req, header, tmp, saved, disk, peer>>

\* One round of the loop, whatever ifs.read has got.
SendChunk ==
    /\ pc = "send" /\ left > 0
    /\ \E cut \in Cuts :
          wire' = [wire EXCEPT !.sent = @ + 1, !.cut = @ \/ cut]
    /\ left' = left - 1
    /\ UNCHANGED <<pc, auth, method, req, header, tmp, saved, disk, peer>>

\* The end of WriteFile, with the last chunk of a chunked body.
SendDone ==
    /\ pc = "send" /\ left <= 0
    /\ \E cut \in IF Chunked THEN Cuts ELSE {FALSE} :
          wire' = [wire EXCEPT !.ended = Chunked, !.cut = @ \/ cut]
    /\ left' = 0
    /\ pc' = After(KeepAlive)
    /\ UNCHANGED <<auth, method, req, header, tmp, saved, disk, peer>>

-----------------------------------------------------------------------------
(* The end of Run, and what happens around it. *)

Close ==
    /\ pc = "end"
    /\ pc' = "closed"
    /\ UNCHANGED <<auth, method, req, header, tmp, saved, wire, left, disk,
                   peer>>

\* A socket call, or the log, acts upon a cancellation; OnExit closes.
Cancelled ==
    /\ pc \notin Over
    /\ pc' = "cancelled"
    /\ UNCHANGED <<auth, method, req, header, tmp, saved, wire, left, disk,
                   peer>>

PeerLeaves ==
    /\ pc \notin Over /\ peer = "there"
    /\ peer' = "gone"
    /\ UNCHANGED <<pc, auth, method, req, header, tmp, saved, wire, left, disk>>

\* Somebody changes the file while it is served.
FileChanges ==
    /\ pc \in {"stat", "open", "send"}
    /\ disk' \in Files \cup {Nothing}
    /\ UNCHANGED <<pc, auth, method, req, header, tmp, saved, wire, left, peer>>

\* What the model lets a request and its path be.
Sent ==
    {r \in Requests :
        /\ r.method # "other"
        /\ r.page # "path" => r.range = 0 /\ ~r.fresh
        /\ r.page # "upload" => ~r.names}

OnDisk(r) ==
    {Nothing, Directory} \cup IF r.page = "path" THEN Files ELSE {}

Read ==
    \/ ReadFails \/ ReadUnknown
    \/ \E r \in Sent : \E d \in OnDisk(r) : ReadHead(r, d)

Work ==
    \/ NotImplemented \/ Options \/ ReadBody
    \/ UploadAccepted \/ UploadRefused \/ RequestReceived
    \/ TextPage \/ NoPage \/ UploadMissing \/ UploadRenamed \/ UploadFails
    \/ FilePage \/ FileMissing \/ FileFound \/ FileOpened
    \/ SendChunk \/ SendDone \/ Close

Next == Read \/ Work \/ Cancelled \/ PeerLeaves \/ FileChanges

Spec == Init /\ [][Next]_vars

\* A request that was read goes on to its end: a call on a non-blocking socket
\* returns within the timeout of the connection.  A plain connection on Linux,
\* in a build with SSL, is blocking (LineReader): there the peer is assumed not
\* to stay silent, or deaf, for ever.
FairSpec == Spec /\ WF_vars(Work)

-----------------------------------------------------------------------------
(* Properties. *)

Responses ==
    [count : 0..1, status : {0, 200, 206, 302, 304, 400, 401, 403, 404, 500, 501},
     head : Headers, sent : Nat, ended : BOOLEAN, cut : BOOLEAN]

Uploads == {"none", "named", "partial", "accepted"}

\* In particular no request is answered twice (count).
TypeOK ==
    /\ pc \in States /\ auth \in BOOLEAN
    /\ method \in Methods \cup {"none"} /\ req \in Requests
    /\ header \in Headers
    /\ tmp \in Uploads /\ saved \in Uploads
    /\ wire \in Responses /\ left \in Int
    /\ disk \in Files \cup {Nothing, Directory}
    /\ peer \in {"there", "gone"}

\* When the loop comes back for the next request, the body of the previous
\* response has the length that its header gave, whatever happened to the
\* file meanwhile: the next response begins where the client looks for it.
\* A write that was cut short, and an offset behind the end of the file, are
\* not noticed by the code and excepted.
Framed ==
    pc = "line" /\ wire.count = 1 /\ ~wire.cut =>
        IF req.method = "HEAD" \/ wire.status = 304 THEN wire.sent = 0
        ELSE IF wire.head.chunked THEN wire.ended
        ELSE wire.head.length = wire.sent \/ wire.head.length < 0

\* The fields of a response, by its status and what was asked for.
FieldsDue ==
    CASE wire.status = 302 -> {"Location"}
      [] wire.status = 401 -> {"WWW-Authenticate"}
      [] wire.status = 206 -> {"Last-Modified", "Content-Range"}
      [] wire.status = 200 /\ req.method = "OPTIONS" -> {"Allow"}
      [] wire.status = 200 /\ req.method # "OPTIONS" /\ req.page = "path" ->
             {"Last-Modified"}
      [] OTHER -> {}

\* Those of the responses after which the connection is kept.
KeptFields == {{}, {"Location"}, {"Last-Modified"}, {"Last-Modified", "Content-Range"}}

\* A response has the fields of its own status and none of an earlier response
\* on the same connection, though all of them are written from one object.  The
\* exceptions are two answers that are given before CreateHeader has cleared
\* that object: 501, and 400 for an upload that SaveUpload refuses
\* (http_srv.cpp 1008, 1067).  They have the fields of the response before,
\* too, and the connection is closed after them.
FieldsFit ==
    wire.count = 1 =>
        \/ wire.head.fields = FieldsDue
        \/ /\ wire.status = 501 \/ (wire.status = 400 /\ req.method = "POST")
           /\ wire.head.conn = "close"
           /\ wire.head.fields \in KeptFields

\* A request without the right credentials puts nothing into uploads/ and gets
\* one error page and nothing else: 401, unless it is for the icon, or has an
\* upload that SaveUpload refuses before anybody looks at the credentials.  The
\* temporary file of its upload stays behind (FileStore).  OPTIONS, and methods
\* that are not known, are answered without credentials.
RefusedFirst ==
    Refused =>
        /\ saved = "none"
        /\ wire.count = 1 /\ req.method \in {"GET", "HEAD", "POST"} =>
              /\ wire.head.conn = "close" /\ wire.sent <= 1
              /\ \/ wire.status = 401
                 \/ wire.status = 404 /\ req.page = "favicon"
                 \/ wire.status = 400 /\ req.method = "POST"

\* What is renamed into uploads/ is the file that SaveUpload has accepted in
\* this request, or the one that the request's own header fields name, which
\* UploadPage cannot tell apart (server.cpp 275); never one that SaveUpload has
\* given up, or of an earlier request, and only with the right credentials.
SavedIsAccepted ==
    saved # "none" =>
        /\ ~Refused /\ req.page = "upload"
        /\ \/ saved = "accepted" /\ req.method = "POST"
           \/ saved = "named" /\ req.names

\* A request that was read comes to an end, even if the file shrinks while it
\* is sent or the peer has gone.
RequestEnds == pc \notin Over \cup {"line"} ~> pc \in Over \cup {"line"}

Phase ==
    CASE pc = "line" -> "idle"
      [] pc = "closed" -> "closed"
      [] pc \in {"cancelled", "aborted"} -> "lost"
      [] OTHER -> IF wire.count = 0 THEN "pending" ELSE "answering"

KeepAliveExchange ==
    INSTANCE Exchange WITH phase <- Phase, told <- wire.head.conn

\* The Connection field of every response says what Run does next.
ImplementsExchange == KeepAliveExchange!ESpec
=============================================================================
