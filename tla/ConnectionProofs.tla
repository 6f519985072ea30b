-------------------------- MODULE ConnectionProofs --------------------------
(***************************************************************************)
(* Proofs about Connection, for every bound on the lengths and offsets and *)
(* for every setting of the chunked and keep-alive flags.                  *)
(***************************************************************************)
EXTENDS Connection, TLAPS

\* A request is unanswered until the step that writes its response.
Unanswered ==
    /\ wire.count = 0 => wire = NoResponse
    /\ pc \in {"unknown", "options", "body", "upload", "received", "process",
               "stat", "open"} => wire.count = 0
    /\ pc = "send" => wire.count = 1

\* What each state knows of the request.
Known ==
    /\ pc = "unknown" => req.method = "other"
    /\ pc = "options" => req.method = "OPTIONS"
    /\ pc \in {"body", "upload", "received", "process", "stat", "open", "send"}
          => method = req.method /\ method \in {"GET", "HEAD", "POST"}
    /\ pc \in {"body", "upload"} => req.method = "POST"
    /\ pc \in {"stat", "open"} => header = CreateHeader
    /\ pc \in {"stat", "open", "send"} => req.page = "path"
    /\ pc \in {"process", "stat", "open", "send"} => ~Refused

\* In the loop of WriteFile what is sent and what is left add up to what the
\* header announced.
Sending ==
    pc = "send" =>
        /\ method # "HEAD" /\ wire.status \in {200, 206}
        /\ Chunked => wire.head.chunked = TRUE
        /\ ~Chunked => /\ wire.head.chunked = FALSE
                        /\ wire.head.length = wire.sent + left
        /\ left < 0 => wire.sent = 0
        /\ wire.head.fields = IF wire.status = 206
                                 THEN {"Last-Modified", "Content-Range"}
                                 ELSE {"Last-Modified"}

\* The Connection field of a response fits what Run will do.
Told ==
    wire.count = 1 =>
        /\ wire.head.conn \in {"keep-alive", "close"}
        /\ pc = "line" => wire.head.conn = "keep-alive"
        /\ pc = "end" => wire.head.conn = "close"
        /\ pc = "send" =>
              wire.head.conn = IF KeepAlive THEN "keep-alive" ELSE "close"

\* A file that SaveUpload has given up is left with the connection.
Partial == tmp = "partial" => pc \in {"end"} \cup Over

\* What a request takes along: a file that it names itself, or has sent; and
\* from one request to the next, until CreateHeader, the fields of a response.
Carried ==
    /\ tmp = "named" => req.names
    /\ tmp = "accepted" => req.method = "POST"
    /\ pc \in {"line", "unknown", "options", "body", "upload", "received", "send"}
          => header.fields \in KeptFields

IInv ==
    /\ TypeOK /\ Unanswered /\ Known /\ Sending /\ Told /\ Partial
    /\ Framed /\ FieldsFit /\ RefusedFirst /\ SavedIsAccepted /\ Carried

-----------------------------------------------------------------------------
Statuses == {200, 206, 302, 304, 400, 401, 403, 404, 500, 501}

\* Respond writes the first response to a request, as it is told to.
LEMMA RespondWrites ==
    ASSUME wire \in Responses, wire.count = 0,
           NEW status \in Statuses, NEW h \in Headers, NEW n \in Nat,
           Respond(status, h, n)
    PROVE  /\ header' \in Headers /\ wire' \in Responses
           /\ wire'.count = 1 /\ wire'.status = status /\ wire'.head = h
           /\ wire'.sent = n /\ header' = h
<1>1. PICK cut \in BOOLEAN :
          wire' = [count |-> wire.count + 1, status |-> status, head |-> h,
                   sent |-> n, ended |-> FALSE, cut |-> cut]
  BY DEF Respond, Cuts
<1>2. header' = h
  BY DEF Respond
<1>3. wire' = [count |-> 1, status |-> status, head |-> h, sent |-> n,
               ended |-> FALSE, cut |-> cut]
  BY <1>1
<1> QED
  BY <1>2, <1>3 DEF Responses, Statuses

\* What a header is after an edit of one of its entries.
LEMMA FieldEdit ==
    ASSUME NEW h \in Headers, NEW f \in Fields
    PROVE  /\ WithField(h, f) \in Headers
           /\ WithField(h, f).conn = h.conn
           /\ WithField(h, f).chunked = h.chunked
           /\ WithField(h, f).fields = h.fields \cup {f}
BY DEF Headers, WithField

LEMMA ConnEdit ==
    ASSUME NEW h \in Headers, NEW c \in {"keep-alive", "close"}
    PROVE  /\ [h EXCEPT !.conn = c] \in Headers
           /\ [h EXCEPT !.conn = c].conn = c
           /\ [h EXCEPT !.conn = c].chunked = h.chunked
           /\ [h EXCEPT !.conn = c].fields = h.fields
BY DEF Headers

LEMMA LengthEdit ==
    ASSUME NEW h \in Headers, NEW n \in Int, NEW b \in BOOLEAN
    PROVE  /\ [h EXCEPT !.length = n] \in Headers
           /\ [h EXCEPT !.length = n].length = n
           /\ [h EXCEPT !.length = n].conn = h.conn
           /\ [h EXCEPT !.length = n].chunked = h.chunked
           /\ [h EXCEPT !.length = n].fields = h.fields
           /\ [h EXCEPT !.length = n, !.chunked = b] \in Headers
           /\ [h EXCEPT !.length = n, !.chunked = b].chunked = b
           /\ [h EXCEPT !.length = n, !.chunked = b].conn = h.conn
           /\ [h EXCEPT !.length = n, !.chunked = b].fields = h.fields
BY DEF Headers

LEMMA StringEdit ==
    ASSUME NEW h \in Headers, NEW n \in Int, NEW c \in {"keep-alive", "close"}
    PROVE  /\ [h EXCEPT !.length = n, !.conn = c] \in Headers
           /\ [h EXCEPT !.length = n, !.conn = c].length = n
           /\ [h EXCEPT !.length = n, !.conn = c].conn = c
           /\ [h EXCEPT !.length = n, !.conn = c].chunked = h.chunked
           /\ [h EXCEPT !.length = n, !.conn = c].fields = h.fields
BY DEF Headers

LEMMA CloseEdit ==
    ASSUME NEW h \in Headers
    PROVE  /\ [h EXCEPT !.length = 1, !.conn = "close"] \in Headers
           /\ [h EXCEPT !.length = 1, !.conn = "close"].conn = "close"
           /\ [h EXCEPT !.length = 1, !.conn = "close"].fields = h.fields
<1>1. 1 \in Int /\ "close" \in {"keep-alive", "close"}
  OBVIOUS
<1> QED
  BY <1>1, StringEdit, Zenon

LEMMA OneEdit ==
    ASSUME NEW h \in Headers
    PROVE  /\ [h EXCEPT !.length = 1] \in Headers
           /\ [h EXCEPT !.length = 1].length = 1
           /\ [h EXCEPT !.length = 1].conn = h.conn
           /\ [h EXCEPT !.length = 1].chunked = h.chunked
           /\ [h EXCEPT !.length = 1].fields = h.fields
BY DEF Headers

\* A page announces what it sends, except to a HEAD, and keeps the connection
\* if the server is set to.
LEMMA SettingWrites ==
    ASSUME wire \in Responses, wire.count = 0,
           NEW status \in Statuses, NEW h \in Headers, NEW n \in {0, 1},
           h.conn = "keep-alive",
           WriteString(status, h, n, KeepAlive)
    PROVE  /\ header' \in Headers /\ wire' \in Responses
           /\ wire'.count = 1 /\ wire'.status = status
           /\ wire'.head.fields = h.fields /\ header'.fields = h.fields
           /\ wire'.head.chunked = h.chunked
           /\ wire'.head.length = n
           /\ wire'.head.conn = IF KeepAlive THEN "keep-alive" ELSE "close"
           /\ wire'.sent = IF method = "HEAD" THEN 0 ELSE n
<1> DEFINE s == StringHeader(h, n, KeepAlive)
           m == IF method = "HEAD" THEN 0 ELSE n
<1>1. /\ s \in Headers /\ s.fields = h.fields /\ s.chunked = h.chunked
      /\ s.length = n /\ s.conn = IF KeepAlive THEN "keep-alive" ELSE "close"
  <2>1. CASE KeepAlive
    <3>1. s = [h EXCEPT !.length = n, !.conn = "keep-alive"] /\ n \in Int
      BY <2>1 DEF StringHeader
    <3> HIDE DEF s
    <3> QED
      BY <2>1, <3>1, StringEdit
  <2>2. CASE ~KeepAlive
    <3>1. s = [h EXCEPT !.length = n, !.conn = "close"] /\ n \in Int
      BY <2>2 DEF StringHeader
    <3> HIDE DEF s
    <3>2. s \in Headers /\ s.fields = h.fields /\ s.chunked = h.chunked
          /\ s.length = n /\ s.conn = "close"
      BY <3>1, StringEdit
    <3> QED
      BY <2>2, <3>2
  <2> QED
    BY <2>1, <2>2
<1>2. m \in Nat
  OBVIOUS
<1>3. Respond(status, s, m)
  BY DEF WriteString
<1> HIDE DEF s, m
<1>4. header' \in Headers /\ wire' \in Responses /\ wire'.count = 1
      /\ wire'.status = status /\ wire'.head = s /\ wire'.sent = m
      /\ header' = s
  BY <1>1, <1>2, <1>3, RespondWrites
<1> QED
  BY <1>1, <1>4 DEF m

\* The header objects that the code starts from.
LEMMA HeaderTypes ==
    /\ NoHeader \in Headers /\ CreateHeader \in Headers
    /\ CreateHeader.conn = "keep-alive" /\ CreateHeader.fields = {}
    /\ CreateHeader.chunked = FALSE
    /\ NoResponse \in Responses /\ NoResponse.count = 0
<1>1. NoHeader \in Headers
  BY DEF NoHeader, Headers
<1> QED
  BY <1>1 DEF CreateHeader, Headers, NoResponse, Responses

\* The invariant holds when Run begins.
LEMMA InitIInv == Init => IInv
<1> USE ConnectionAssumption
<1> SUFFICES ASSUME Init PROVE IInv
  OBVIOUS
<1>1. TypeOK
  BY HeaderTypes DEF Init, TypeOK, States, Requests, Methods, Pages, NoRequest,
                     Nothing, Files, Uploads
<1>2. Unanswered /\ Known /\ Sending /\ Told /\ Partial
  BY DEF Init, Unanswered, Known, Sending, Told, Partial, NoResponse
<1>3. Framed /\ FieldsFit /\ RefusedFirst /\ SavedIsAccepted /\ Carried
  BY DEF Init, Framed, FieldsFit, RefusedFirst, SavedIsAccepted,
         Carried, NoResponse, NoHeader, KeptFields
<1> QED
  BY <1>1, <1>2, <1>3 DEF IInv

\* Reading a request line forgets the previous request and its response.
LEMMA ReadIInv == IInv /\ Read => IInv'
<1> USE ConnectionAssumption DEF NewRequest
<1> SUFFICES ASSUME IInv, Read PROVE IInv'
  OBVIOUS
<1>1. NoRequest \in Requests /\ [NoRequest EXCEPT !.method = "other"] \in Requests
  BY DEF NoRequest, Requests, Methods, Pages
<1>2. /\ NewRequest
      /\ req' \in Requests /\ method' \in Methods \cup {"none"}
      /\ disk' \in Files \cup {Nothing, Directory}
      /\ \/ pc' = "end"
         \/ pc' = "unknown" /\ req'.method = "other"
         \/ pc' = "options" /\ req'.method = "OPTIONS"
         \/ /\ pc' \in {"body", "upload", "received"}
            /\ method' = req'.method /\ method' \in {"GET", "HEAD", "POST"}
            /\ pc' \in {"body", "upload"} => req'.method = "POST"
      /\ tmp' = "none" \/ (tmp' = "named" /\ req'.names)
  <2>1. CASE ReadFails
    BY <2>1 DEF ReadFails, IInv, TypeOK
  <2>2. CASE ReadUnknown
    BY <1>1, <2>2 DEF ReadUnknown, IInv, TypeOK, NoRequest
  <2>3. ASSUME NEW r \in Sent, NEW d \in OnDisk(r), ReadHead(r, d)
        PROVE <1>2!2 /\ <1>2!3 /\ <1>2!4 /\ <1>2!5 /\ <1>2!1
    BY <2>3 DEF ReadHead, Sent, OnDisk, Requests
  <2> QED
    BY <2>1, <2>2, <2>3 DEF Read
<1>3. TypeOK'
  BY <1>2, HeaderTypes DEF IInv, TypeOK, States, Uploads
<1>4. /\ wire' = NoResponse /\ wire'.count = 0 /\ saved' = "none"
      /\ pc' \notin {"line", "process", "stat", "open", "send"}
  BY <1>2, HeaderTypes
<1>5. Unanswered' /\ Known'
  BY <1>2, <1>4 DEF Unanswered, Known
<1>6. Sending' /\ Told' /\ Partial'
  BY <1>2, <1>4 DEF Sending, Told, Partial
<1>7. Framed' /\ FieldsFit'
  BY <1>4 DEF Framed, FieldsFit
<1>8. RefusedFirst' /\ SavedIsAccepted'
  BY <1>4 DEF RefusedFirst, SavedIsAccepted
<1>9. Carried'
  BY <1>2 DEF IInv, Carried
<1> QED
  BY <1>3, <1>5, <1>6, <1>7, <1>8, <1>9 DEF IInv

-----------------------------------------------------------------------------
\* What a step that writes the only response to a request must see to, so that
\* the invariant holds after it.
LEMMA AnswerIInv ==
    ASSUME IInv,
           UNCHANGED <<auth, method, req, left, disk, peer>>,
           wire' \in Responses, header' \in Headers, wire'.count = 1,
           pc' \in {"line", "end"},
           tmp' \in Uploads, saved' \in Uploads,
           wire'.head.conn = (IF pc' = "line" THEN "keep-alive" ELSE "close"),
           tmp' = "partial" => pc' = "end",
           Framed', FieldsFit', RefusedFirst', SavedIsAccepted', Carried'
    PROVE  IInv'
<1>1. TypeOK'
  BY DEF IInv, TypeOK, States
<1>2. Unanswered' /\ Known' /\ Sending' /\ Told' /\ Partial'
  BY DEF Unanswered, Known, Sending, Told, Partial
<1> QED
  BY <1>1, <1>2 DEF IInv

\* The fields of an error page: its own, or an earlier response's where the
\* header has not been made for this one.
ErrorFields(status, h) ==
    \/ status \in {400, 403, 404, 500} /\ h.fields = {}
    \/ status = 401 /\ h.fields = {"WWW-Authenticate"}
    \/ /\ status = 501 \/ (status = 400 /\ req.method = "POST")
       /\ h.fields \in KeptFields

\* The error pages that a request gets that is refused.
ErrorRefused(status) ==
    Refused /\ req.method \in {"GET", "HEAD", "POST"} =>
        \/ status = 401
        \/ status = 404 /\ req.page = "favicon"
        \/ status = 400 /\ req.method = "POST"

\* An error page after which the connection is closed.
LEMMA ErrorIInv ==
    ASSUME IInv, wire.count = 0,
           UNCHANGED <<auth, method, req, saved, left, disk, peer>>,
           NEW status \in Statuses, NEW h \in Headers,
           WriteError(status, h),
           pc' = "end", tmp' \in Uploads,
           tmp' = "named" => req.names, tmp' = "accepted" => req.method = "POST",
           ErrorFields(status, h), ErrorRefused(status)
    PROVE  IInv'
<1> DEFINE s == [h EXCEPT !.length = 1, !.conn = "close"]
           m == IF method = "HEAD" THEN 0 ELSE 1
<1>a. Respond(status, s, m)
  BY DEF WriteError, WriteString, StringHeader
<1>b. s \in Headers /\ s.conn = "close" /\ s.fields = h.fields
  BY CloseEdit
<1>c. m \in Nat /\ m <= 1 /\ wire \in Responses
  BY DEF IInv, TypeOK
<1> HIDE DEF s, m
<1>1. /\ header' \in Headers /\ wire' \in Responses /\ wire'.count = 1
      /\ wire'.status = status /\ wire'.head.conn = "close"
      /\ wire'.head.fields = h.fields /\ wire'.sent <= 1
  BY <1>a, <1>b, <1>c, RespondWrites
<1>2. Framed' /\ FieldsFit'
  <2>1. CASE status \in {400, 403, 404, 500} /\ h.fields = {}
    BY <1>1, <2>1 DEF Framed, FieldsFit, FieldsDue
  <2>2. CASE status = 401 /\ h.fields = {"WWW-Authenticate"}
    BY <1>1, <2>2 DEF Framed, FieldsFit, FieldsDue
  <2>3. CASE /\ status = 501 \/ (status = 400 /\ req.method = "POST")
             /\ h.fields \in KeptFields
    BY <1>1, <2>3 DEF Framed, FieldsFit
  <2> QED
    BY <2>1, <2>2, <2>3 DEF ErrorFields
<1>3. RefusedFirst'
  BY <1>1 DEF IInv, RefusedFirst, Refused, ErrorRefused
<1>4. SavedIsAccepted' /\ saved' \in Uploads
  BY DEF SavedIsAccepted, Refused, IInv, TypeOK
<1>5. Carried'
  BY DEF Carried
<1> QED
  BY <1>1, <1>2, <1>3, <1>4, <1>5, AnswerIInv

\* A page, or the answer that the file has not changed, after which the
\* connection is used again or closed as the server is set.
LEMMA PageIInv ==
    ASSUME IInv, wire.count = 0, ~Refused, method = req.method,
           UNCHANGED <<auth, method, req, left, disk, peer>>,
           NEW status \in {200, 304}, NEW n \in {0, 1},
           status = 304 <=> n = 0, status = 200 => req.page # "path",
           req.method # "OPTIONS",
           WriteString(status, CreateHeader, n, KeepAlive),
           pc' = After(KeepAlive),
           tmp' \in {tmp, "none"},
           \/ saved' = saved
           \/ saved' = tmp /\ tmp \in {"named", "accepted"} /\ req.page = "upload",
           tmp # "partial"
    PROVE  IInv'
<1> USE ConnectionAssumption
<1>1. /\ wire \in Responses /\ status \in Statuses
      /\ CreateHeader \in Headers /\ CreateHeader.conn = "keep-alive"
      /\ CreateHeader.fields = {} /\ CreateHeader.chunked = FALSE
  BY HeaderTypes DEF IInv, TypeOK, Statuses
<1>2. /\ header' \in Headers /\ wire' \in Responses /\ wire'.count = 1
      /\ wire'.status = status /\ wire'.head.fields = {} /\ header'.fields = {}
      /\ wire'.head.chunked = FALSE /\ wire'.head.length = n
      /\ wire'.head.conn = IF KeepAlive THEN "keep-alive" ELSE "close"
      /\ wire'.sent = IF method = "HEAD" THEN 0 ELSE n
  BY <1>1, SettingWrites
<1>3. Framed'
  BY <1>2 DEF Framed
<1>4. FieldsFit'
  BY <1>2 DEF FieldsFit, FieldsDue
<1>5. RefusedFirst' /\ SavedIsAccepted'
  BY DEF IInv, RefusedFirst, SavedIsAccepted, Refused, Carried
<1>6. Carried'
  BY <1>2 DEF IInv, Carried, KeptFields
<1>7. tmp' \in Uploads /\ saved' \in Uploads /\ tmp' # "partial"
  BY DEF IInv, TypeOK, Uploads
<1>8. /\ pc' \in {"line", "end"}
      /\ wire'.head.conn = (IF pc' = "line" THEN "keep-alive" ELSE "close")
  BY <1>2 DEF After
<1> QED
  BY <1>2, <1>3, <1>4, <1>5, <1>6, <1>7, <1>8, AnswerIInv

\* A step that writes nothing.
LEMMA QuietIInv ==
    ASSUME IInv, UNCHANGED <<auth, method, req, saved, wire>>,
           pc' \in States, pc' = pc \/ pc' # "line",
           header' \in Headers, left' \in Int,
           disk' \in Files \cup {Nothing, Directory},
           peer' \in {"there", "gone"},
           tmp' \in Uploads,
           Unanswered', Known', Sending', Told', Partial', Carried'
    PROVE  IInv'
<1>1. TypeOK'
  BY DEF IInv, TypeOK
<1>2. Framed' /\ FieldsFit'
  BY DEF IInv, Framed, FieldsFit, FieldsDue
<1>3. RefusedFirst' /\ SavedIsAccepted'
  BY DEF IInv, RefusedFirst, SavedIsAccepted, Refused
<1> QED
  BY <1>1, <1>2, <1>3 DEF IInv

-----------------------------------------------------------------------------
\* What a state of a request says of it, before the response is written.
LEMMA Pending ==
    ASSUME IInv,
           pc \in {"unknown", "options", "body", "upload", "received",
                   "process", "stat", "open"}
    PROVE  /\ wire.count = 0 /\ tmp \in Uploads /\ tmp # "partial"
           /\ tmp = "named" => req.names
           /\ tmp = "accepted" => req.method = "POST"
           /\ saved \in Uploads /\ header \in Headers
           /\ pc = "unknown" => req.method = "other"
           /\ pc = "options" => req.method = "OPTIONS"
           /\ pc \in {"body", "upload"} => req.method = "POST"
           /\ pc \notin {"process", "stat", "open"} => header.fields \in KeptFields
           /\ pc \in {"process", "stat", "open"} => ~Refused
           /\ pc \notin {"unknown", "options"} =>
                 method = req.method /\ req.method \in {"GET", "HEAD", "POST"}
           /\ pc \in {"stat", "open"} =>
                 header = CreateHeader /\ req.page = "path"
BY DEF IInv, TypeOK, Unanswered, Known, Partial, Carried, Over

LEMMA NotImplementedIInv == IInv /\ NotImplemented => IInv'
<1> SUFFICES ASSUME IInv, NotImplemented PROVE IInv'
  OBVIOUS
<1>1. /\ wire.count = 0 /\ tmp \in Uploads /\ header \in Headers
      /\ tmp = "named" => req.names
      /\ tmp = "accepted" => req.method = "POST"
      /\ req.method = "other" /\ header.fields \in KeptFields
  BY Pending DEF NotImplemented
<1>2. /\ WriteError(501, header) /\ 501 \in Statuses /\ pc' = "end"
      /\ ErrorFields(501, header) /\ ErrorRefused(501)
  BY <1>1 DEF NotImplemented, Statuses, ErrorFields, ErrorRefused
<1> QED
  BY <1>1, <1>2, ErrorIInv DEF NotImplemented

LEMMA OptionsIInv == IInv /\ Options => IInv'
<1> SUFFICES ASSUME IInv, Options PROVE IInv'
  OBVIOUS
<1> DEFINE s == [WithField(CreateHeader, "Allow") EXCEPT !.conn = "close"]
<1>1. /\ wire.count = 0 /\ wire \in Responses /\ tmp \in Uploads
      /\ tmp # "partial" /\ saved \in Uploads /\ req.method = "OPTIONS"
  BY Pending DEF Options, IInv, TypeOK
<1>2. s \in Headers /\ s.conn = "close" /\ s.fields = {"Allow"}
  <2> DEFINE h == WithField(CreateHeader, "Allow")
  <2>1. "Allow" \in Fields
    BY DEF Fields
  <2>2. h \in Headers /\ h.fields = {"Allow"}
    BY <2>1, HeaderTypes, FieldEdit
  <2>3. s = [h EXCEPT !.conn = "close"] /\ "close" \in {"keep-alive", "close"}
    OBVIOUS
  <2> HIDE DEF h, s
  <2> QED
    BY <2>2, <2>3, ConnEdit
<1>3. Respond(200, s, 0) /\ 200 \in Statuses /\ 0 \in Nat
  BY DEF Options, Statuses
<1> HIDE DEF s
<1>4. /\ header' \in Headers /\ wire' \in Responses /\ wire'.count = 1
      /\ wire'.status = 200 /\ wire'.head.conn = "close"
      /\ wire'.head.fields = {"Allow"}
  BY <1>1, <1>2, <1>3, RespondWrites
<1>5. /\ UNCHANGED <<auth, method, req, tmp, saved, left, disk, peer>>
      /\ pc' = "end"
  BY DEF Options
<1>6. Framed' /\ FieldsFit' /\ RefusedFirst'
  BY <1>1, <1>4, <1>5 DEF IInv, Framed, FieldsFit, FieldsDue, RefusedFirst, Refused
<1>7. SavedIsAccepted' /\ Carried'
  BY <1>1, <1>5 DEF IInv, SavedIsAccepted, Carried, Refused
<1> QED
  BY <1>1, <1>4, <1>5, <1>6, <1>7, AnswerIInv

LEMMA ReadBodyIInv == IInv /\ ReadBody => IInv'
<1> SUFFICES ASSUME IInv, ReadBody PROVE IInv'
  OBVIOUS
<1>1. wire.count = 0 /\ pc = "body" /\ tmp \in Uploads /\ tmp # "partial"
  BY Pending DEF ReadBody
<1>2. Unanswered' /\ Known' /\ Sending' /\ Told' /\ Partial' /\ Carried'
  BY <1>1 DEF ReadBody, IInv, Unanswered, Known, Sending, Told, Partial,
              Carried, Refused
<1> QED
  BY <1>1, <1>2, QuietIInv DEF ReadBody, IInv, TypeOK, States

LEMMA UploadAcceptedIInv == IInv /\ UploadAccepted => IInv'
<1> SUFFICES ASSUME IInv, UploadAccepted PROVE IInv'
  OBVIOUS
<1>1. wire.count = 0 /\ pc = "upload"
  BY Pending DEF UploadAccepted
<1>2. Unanswered' /\ Known' /\ Sending' /\ Told' /\ Partial' /\ Carried'
  BY <1>1 DEF UploadAccepted, IInv, Unanswered, Known, Sending, Told, Partial,
              Carried, Refused
<1> QED
  BY <1>1, <1>2, QuietIInv DEF UploadAccepted, IInv, TypeOK, States, Uploads

LEMMA UploadRefusedIInv == IInv /\ UploadRefused => IInv'
<1> SUFFICES ASSUME IInv, UploadRefused PROVE IInv'
  OBVIOUS
<1>1. /\ wire.count = 0 /\ header \in Headers /\ tmp \in Uploads
      /\ tmp = "named" => req.names
      /\ req.method = "POST" /\ header.fields \in KeptFields
  BY Pending DEF UploadRefused
<1>2. /\ WriteError(400, header) /\ 400 \in Statuses /\ pc' = "end"
      /\ ErrorFields(400, header) /\ ErrorRefused(400)
  BY <1>1 DEF UploadRefused, Statuses, ErrorFields, ErrorRefused
<1>3. tmp' \in Uploads /\ (tmp' = "named" => req.names)
  BY <1>1 DEF UploadRefused, Uploads
<1> QED
  BY <1>1, <1>2, <1>3, ErrorIInv DEF UploadRefused

\* The redirection to a directory's page is the one error that keeps the
\* connection.
LEMMA RedirectIInv ==
    ASSUME IInv, pc = "received", ~Refused, Redirect, pc' = "line",
           UNCHANGED <<auth, method, req, tmp, saved, left, disk, peer>>
    PROVE  IInv'
<1> DEFINE s == [WithField(CreateHeader, "Location") EXCEPT !.length = 1]
           m == IF method = "HEAD" THEN 0 ELSE 1
<1>1. /\ wire.count = 0 /\ wire \in Responses /\ tmp \in Uploads
      /\ tmp # "partial" /\ saved \in Uploads /\ method = req.method
  BY Pending DEF IInv, TypeOK
<1>2. Respond(302, s, m)
  BY DEF Redirect, WriteString, StringHeader
<1>3. /\ s \in Headers /\ s.conn = "keep-alive" /\ s.length = 1
      /\ s.chunked = FALSE /\ s.fields = {"Location"}
  <2>1. "Location" \in Fields /\ 1 \in Int
    BY DEF Fields
  <2>2. /\ WithField(CreateHeader, "Location") \in Headers
        /\ WithField(CreateHeader, "Location").conn = "keep-alive"
        /\ WithField(CreateHeader, "Location").chunked = FALSE
        /\ WithField(CreateHeader, "Location").fields = {"Location"}
    BY <2>1, HeaderTypes, FieldEdit
  <2> QED
    BY <2>2, OneEdit
<1>4. m \in Nat /\ 302 \in Statuses
  BY DEF Statuses
<1> HIDE DEF s
<1>5. /\ header' \in Headers /\ wire' \in Responses /\ wire'.count = 1
      /\ wire'.status = 302 /\ wire'.head = s /\ wire'.sent = m
      /\ header' = s
  <2> HIDE DEF m
  <2> QED
    BY <1>1, <1>2, <1>3, <1>4, RespondWrites
<1>6. Framed' /\ FieldsFit'
  BY <1>1, <1>3, <1>5 DEF Framed, FieldsFit, FieldsDue
<1>7. RefusedFirst' /\ SavedIsAccepted' /\ Carried'
  BY <1>1, <1>3, <1>5 DEF IInv, RefusedFirst, SavedIsAccepted, Carried, Refused, KeptFields
<1> QED
  BY <1>1, <1>3, <1>5, <1>6, <1>7, AnswerIInv

LEMMA RequestReceivedIInv == IInv /\ RequestReceived => IInv'
<1> SUFFICES ASSUME IInv, RequestReceived PROVE IInv'
  OBVIOUS
<1>1. /\ UNCHANGED <<auth, method, req, tmp, saved, left, disk, peer>>
      /\ pc = "received"
  BY DEF RequestReceived
<1>2. /\ wire.count = 0 /\ tmp \in Uploads /\ tmp # "partial"
      /\ tmp = "named" => req.names
      /\ tmp = "accepted" => req.method = "POST"
  BY <1>1, Pending
<1>3. CASE /\ req.page = "favicon" /\ WriteError(404, CreateHeader)
           /\ pc' = "end"
  <2>1. /\ 404 \in Statuses /\ CreateHeader \in Headers
        /\ ErrorFields(404, CreateHeader) /\ ErrorRefused(404)
    BY <1>3, HeaderTypes DEF Statuses, ErrorFields, ErrorRefused
  <2> QED
    BY <1>1, <1>2, <1>3, <2>1, ErrorIInv
<1>4. CASE /\ Refused
           /\ WriteError(401, WithField(CreateHeader, "WWW-Authenticate"))
           /\ pc' = "end"
  <2> DEFINE h == WithField(CreateHeader, "WWW-Authenticate")
  <2>1. 401 \in Statuses /\ "WWW-Authenticate" \in Fields
    BY DEF Statuses, Fields
  <2>2. h \in Headers /\ WriteError(401, h) /\ h.fields = {"WWW-Authenticate"}
    BY <1>4, <2>1, HeaderTypes, FieldEdit
  <2>3. ErrorFields(401, h) /\ ErrorRefused(401)
    BY <2>2 DEF ErrorFields, ErrorRefused
  <2> HIDE DEF h
  <2> QED
    BY <1>1, <1>2, <1>4, <2>1, <2>2, <2>3, ErrorIInv
<1>5. CASE ~Refused /\ Redirect /\ pc' = "line"
  BY <1>1, <1>5, RedirectIInv
<1>6. CASE ~Refused /\ pc' = "process" /\ UNCHANGED <<header, wire>>
  <2>1. /\ Unanswered' /\ Known' /\ Sending' /\ Told' /\ Partial'
        /\ Carried'
    BY <1>1, <1>2, <1>6 DEF IInv, Unanswered, Known, Sending, Told, Partial,
                            Carried, Refused
  <2> QED
    BY <1>1, <1>6, <2>1, QuietIInv DEF IInv, TypeOK, States
<1> QED
  BY <1>3, <1>4, <1>5, <1>6 DEF RequestReceived

LEMMA TextPageIInv == IInv /\ TextPage => IInv'
<1> SUFFICES ASSUME IInv, TextPage PROVE IInv'
  OBVIOUS
<1>1. /\ wire.count = 0 /\ ~Refused /\ method = req.method
      /\ tmp # "partial" /\ req.method # "OPTIONS"
  BY Pending DEF TextPage
<1>2. /\ WriteString(200, CreateHeader, 1, KeepAlive)
      /\ pc' = After(KeepAlive) /\ req.page \in {"text", "browse"}
      /\ UNCHANGED <<auth, method, req, tmp, saved, left, disk, peer>>
  BY DEF TextPage
<1> QED
  BY <1>1, <1>2, PageIInv

LEMMA NoPageIInv == IInv /\ NoPage => IInv'
<1> SUFFICES ASSUME IInv, NoPage PROVE IInv'
  OBVIOUS
<1>1. /\ wire.count = 0 /\ ~Refused /\ tmp \in Uploads
      /\ tmp = "named" => req.names
      /\ tmp = "accepted" => req.method = "POST"
      /\ CreateHeader \in Headers /\ 404 \in Statuses /\ 403 \in Statuses
  BY Pending, HeaderTypes DEF NoPage, Statuses
<1>2. /\ UNCHANGED <<auth, method, req, tmp, saved, left, disk, peer>>
      /\ pc' = "end"
      /\ ErrorFields(403, CreateHeader) /\ ErrorRefused(403)
      /\ ErrorFields(404, CreateHeader) /\ ErrorRefused(404)
  BY <1>1, HeaderTypes DEF NoPage, ErrorFields, ErrorRefused
<1>3. CASE WriteError(404, CreateHeader)
  BY <1>1, <1>2, <1>3, ErrorIInv
<1>4. CASE WriteError(403, CreateHeader)
  BY <1>1, <1>2, <1>4, ErrorIInv
<1> QED
  BY <1>3, <1>4 DEF NoPage

LEMMA UploadPageIInv ==
    IInv /\ (UploadMissing \/ UploadRenamed \/ UploadFails) => IInv'
<1> SUFFICES ASSUME IInv, UploadMissing \/ UploadRenamed \/ UploadFails
             PROVE  IInv'
  OBVIOUS
<1>1. /\ wire.count = 0 /\ ~Refused /\ method = req.method
      /\ tmp \in Uploads /\ tmp # "partial" /\ req.method # "OPTIONS"
      /\ tmp = "named" => req.names
      /\ tmp = "accepted" => req.method = "POST"
      /\ CreateHeader \in Headers /\ req.page = "upload"
      /\ UNCHANGED <<auth, method, req, left, disk, peer>>
  BY Pending, HeaderTypes DEF UploadMissing, UploadRenamed, UploadFails
<1>2. CASE UploadMissing
  <2>1. WriteError(400, CreateHeader) /\ 400 \in Statuses /\ pc' = "end"
        /\ UNCHANGED saved /\ tmp' \in Uploads /\ tmp' = "none"
        /\ ErrorFields(400, CreateHeader) /\ ErrorRefused(400)
    BY <1>1, <1>2, HeaderTypes DEF UploadMissing, Statuses, ErrorFields, ErrorRefused
  <2> QED
    BY <1>1, <2>1, ErrorIInv
<1>3. CASE UploadRenamed
  <2>1. WriteString(200, CreateHeader, 1, KeepAlive) /\ pc' = After(KeepAlive)
        /\ tmp' = "none" /\ saved' = tmp /\ tmp \in {"named", "accepted"}
    BY <1>1, <1>3 DEF UploadRenamed, Uploads
  <2> QED
    BY <1>1, <2>1, PageIInv
<1>4. CASE UploadFails
  <2>1. PICK status \in {400, 500} : WriteError(status, CreateHeader)
    BY <1>4 DEF UploadFails
  <2>2. /\ status \in Statuses /\ pc' = "end" /\ UNCHANGED saved
        /\ tmp' \in Uploads /\ tmp' \in {tmp, "none"}
        /\ ErrorFields(status, CreateHeader) /\ ErrorRefused(status)
    BY <1>1, <1>4, HeaderTypes DEF UploadFails, Statuses, Uploads, ErrorFields, ErrorRefused
  <2> QED
    BY <1>1, <2>1, <2>2, ErrorIInv
<1> QED
  BY <1>2, <1>3, <1>4

LEMMA FilePageIInv == IInv /\ FilePage => IInv'
<1> SUFFICES ASSUME IInv, FilePage PROVE IInv'
  OBVIOUS
<1>1. wire.count = 0 /\ pc = "process"
  BY Pending DEF FilePage
<1>2. Unanswered' /\ Known' /\ Sending' /\ Told' /\ Partial' /\ Carried'
  BY <1>1 DEF FilePage, IInv, Unanswered, Known, Sending, Told, Partial,
              Carried, Refused, CreateHeader, Over
<1>3. header' \in Headers /\ UNCHANGED <<auth, method, req, saved, wire>>
      /\ UNCHANGED <<tmp, left, disk, peer>> /\ pc' = "stat"
  BY HeaderTypes DEF FilePage
<1> QED
  BY <1>2, <1>3, QuietIInv DEF IInv, TypeOK, States

LEMMA FileMissingIInv == IInv /\ FileMissing => IInv'
<1> SUFFICES ASSUME IInv, FileMissing PROVE IInv'
  OBVIOUS
<1>1. /\ wire.count = 0 /\ ~Refused /\ tmp \in Uploads
      /\ tmp = "named" => req.names
      /\ tmp = "accepted" => req.method = "POST"
      /\ header \in Headers /\ 404 \in Statuses /\ header = CreateHeader
  BY Pending DEF FileMissing, Statuses
<1>2. WriteError(404, header) /\ pc' = "end"
      /\ UNCHANGED <<auth, method, req, tmp, saved, left, disk, peer>>
      /\ ErrorFields(404, header) /\ ErrorRefused(404)
  BY <1>1, HeaderTypes DEF FileMissing, ErrorFields, ErrorRefused
<1> QED
  BY <1>1, <1>2, ErrorIInv

LEMMA FileFoundIInv == IInv /\ FileFound => IInv'
<1> SUFFICES ASSUME IInv, FileFound PROVE IInv'
  OBVIOUS
<1>1. /\ wire.count = 0 /\ ~Refused /\ method = req.method
      /\ tmp # "partial" /\ req.method # "OPTIONS"
      /\ header = CreateHeader /\ req.page = "path" /\ pc = "stat"
      /\ UNCHANGED <<auth, method, req, tmp, saved, left, disk, peer>>
  BY Pending DEF FileFound
<1>2. CASE req.fresh
  <2>1. WriteString(304, CreateHeader, 0, KeepAlive) /\ pc' = After(KeepAlive)
    BY <1>1, <1>2 DEF FileFound
  <2> QED
    BY <1>1, <2>1, PageIInv
<1>3. CASE ~req.fresh
  <2>1. pc' = "open" /\ UNCHANGED <<header, wire>>
    BY <1>3 DEF FileFound
  <2>2. /\ Unanswered' /\ Known' /\ Sending' /\ Told' /\ Partial'
        /\ Carried'
    BY <1>1, <2>1 DEF IInv, Unanswered, Known, Sending, Told, Partial,
                      Carried, Refused, CreateHeader
  <2> QED
    BY <1>1, <2>1, <2>2, QuietIInv DEF IInv, TypeOK, States
<1> QED
  BY <1>2, <1>3

\* The header of a file.
LEMMA FileHeaderIs ==
    ASSUME header = CreateHeader
    PROVE  /\ FileHeader \in Headers /\ FileHeader.chunked = FALSE
           /\ FileHeader.conn = IF KeepAlive THEN "keep-alive" ELSE "close"
           /\ FileHeader.fields = {"Last-Modified"}
<1> USE ConnectionAssumption
<1> DEFINE h == WithField(CreateHeader, "Last-Modified")
<1>1. /\ h \in Headers /\ h.conn = "keep-alive" /\ h.chunked = FALSE
      /\ h.fields = {"Last-Modified"}
  <2>1. "Last-Modified" \in Fields
    BY DEF Fields
  <2> QED
    BY <2>1, HeaderTypes, FieldEdit
<1>2. CASE KeepAlive
  <2>1. FileHeader = [h EXCEPT !.conn = h.conn]
    BY <1>2 DEF FileHeader
  <2> HIDE DEF h
  <2>2. FileHeader = h
    BY <1>1, <2>1 DEF Headers
  <2> QED
    BY <1>1, <1>2, <2>2
<1>3. CASE ~KeepAlive
  <2>1. FileHeader = [h EXCEPT !.conn = "close"]
    BY <1>3 DEF FileHeader
  <2> HIDE DEF h
  <2> QED
    BY <1>1, <1>3, <2>1, ConnEdit
<1> QED
  BY <1>2, <1>3

\* The four headers that WriteBinaryHeader can write.
LEMMA RangeEdit ==
    ASSUME NEW h \in Headers
    PROVE  /\ WithField(h, "Content-Range") \in Headers
           /\ WithField(h, "Content-Range").conn = h.conn
           /\ WithField(h, "Content-Range").chunked = h.chunked
           /\ WithField(h, "Content-Range").fields
                 = h.fields \cup {"Content-Range"}
<1> DEFINE f == "Content-Range"
<1>1. f \in Fields
  BY DEF Fields
<1> HIDE DEF f
<1>2. /\ WithField(h, f) \in Headers
      /\ WithField(h, f).conn = h.conn
      /\ WithField(h, f).chunked = h.chunked
      /\ WithField(h, f).fields = h.fields \cup {f}
  BY <1>1, FieldEdit
<1> QED
  BY <1>2 DEF f

LEMMA BodyEdit ==
    ASSUME NEW h \in Headers, NEW g, NEW n \in Int,
           g = [h EXCEPT !.length = n]
    PROVE  /\ g \in Headers /\ g.length = n /\ g.conn = h.conn
           /\ g.chunked = h.chunked /\ g.fields = h.fields
BY LengthEdit

LEMMA ChunkEdit ==
    ASSUME NEW h \in Headers, NEW g,
           g = [h EXCEPT !.length = 0, !.chunked = TRUE]
    PROVE  /\ g \in Headers /\ g.conn = h.conn
           /\ g.chunked = TRUE /\ g.fields = h.fields
<1>1. 0 \in Int /\ TRUE \in BOOLEAN
  OBVIOUS
<1> QED
  BY <1>1, LengthEdit, Zenon

\* The header of a file, before its length is known.
IsFileHeader(f) ==
    f \in Headers /\ f.fields = {"Last-Modified"} /\ f.chunked = FALSE

\* The response h with this status is that of a file.  In a chunked response
\* the length is not given.
Announces(h, status, f, total, offset) ==
    /\ Respond(status, h, 0)
    /\ h.conn = f.conn
    /\ h.fields = IF status = 206 THEN {"Last-Modified", "Content-Range"}
                                  ELSE {"Last-Modified"}
    /\ Chunked => h.chunked = TRUE
    /\ ~Chunked => h.chunked = FALSE /\ h.length = total - offset

LEMMA BinaryHeader ==
    ASSUME NEW f, IsFileHeader(f), NEW total \in Int, NEW offset \in Int,
           WriteBinaryHeader(f, total, Chunked, offset)
    PROVE  \E h \in Headers, status \in {200, 206} :
              Announces(h, status, f, total, offset)
<1> USE ConnectionAssumption
<1> DEFINE status == IF offset > 0 THEN 206 ELSE 200
           ranged == IF offset > 0 THEN WithField(f, "Content-Range") ELSE f
           h == IF Chunked THEN [ranged EXCEPT !.length = 0, !.chunked = TRUE]
                           ELSE [ranged EXCEPT !.length = total - offset]
<1>1. Respond(status, h, 0)
  BY DEF WriteBinaryHeader
<1>2. /\ ranged \in Headers /\ ranged.conn = f.conn /\ ranged.chunked = FALSE
      /\ ranged.fields = IF status = 206 THEN {"Last-Modified", "Content-Range"}
                                         ELSE {"Last-Modified"}
  <2> USE DEF IsFileHeader
  <2>1. CASE offset > 0
    <3>1. ranged = WithField(f, "Content-Range") /\ status = 206
      BY <2>1
    <3> HIDE DEF ranged, status
    <3>2. {"Last-Modified"} \cup {"Content-Range"}
             = {"Last-Modified", "Content-Range"}
      OBVIOUS
    <3> QED
      BY <3>1, <3>2, RangeEdit
  <2>2. CASE ~(offset > 0)
    BY <2>2
  <2> QED
    BY <2>1, <2>2
<1>3. status \in {200, 206}
  OBVIOUS
<1> HIDE DEF ranged, status
<1>4. CASE Chunked
  <2>1. h = [ranged EXCEPT !.length = 0, !.chunked = TRUE]
    BY <1>4
  <2> HIDE DEF h
  <2>2. /\ h \in Headers /\ h.conn = ranged.conn /\ h.chunked = TRUE
        /\ h.fields = ranged.fields
    BY <1>2, <2>1, ChunkEdit
  <2> QED
    BY <1>1, <1>2, <1>3, <1>4, <2>2 DEF Announces
<1>5. CASE ~Chunked
  <2>1. h = [ranged EXCEPT !.length = total - offset] /\ total - offset \in Int
    BY <1>5
  <2> HIDE DEF h
  <2>2. /\ h \in Headers /\ h.conn = ranged.conn /\ h.chunked = ranged.chunked
        /\ h.fields = ranged.fields /\ h.length = total - offset
    BY <1>2, <2>1, BodyEdit
  <2> QED
    BY <1>1, <1>2, <1>3, <1>5, <2>2 DEF Announces
<1> QED
  BY <1>4, <1>5

LEMMA FileOpenedIInv == IInv /\ FileOpened => IInv'
<1> USE ConnectionAssumption
<1> SUFFICES ASSUME IInv, FileOpened PROVE IInv'
  OBVIOUS
<1>1. /\ wire.count = 0 /\ wire \in Responses /\ ~Refused
      /\ method = req.method /\ header = CreateHeader /\ req.page = "path"
      /\ tmp \in Uploads /\ tmp # "partial" /\ saved \in Uploads
      /\ req.method # "OPTIONS"
      /\ pc = "open" /\ disk.len \in Int /\ req.range \in Int
      /\ UNCHANGED <<auth, method, req, tmp, saved, disk, peer>>
  <2>1. /\ pc = "open"
        /\ UNCHANGED <<auth, method, req, tmp, saved, disk, peer>>
    BY DEF FileOpened
  <2>2. disk.len \in Int
    BY DEF IInv, TypeOK, Files, Nothing, Directory
  <2>3. req.range \in Int /\ wire \in Responses
    BY DEF IInv, TypeOK, Requests
  <2> QED
    BY <2>1, <2>2, <2>3, Pending
<1> DEFINE f == FileHeader
<1>2. /\ f \in Headers /\ f.chunked = FALSE /\ f.fields = {"Last-Modified"}
      /\ f.conn = IF KeepAlive THEN "keep-alive" ELSE "close"
  BY <1>1, FileHeaderIs
<1>3. CASE method = "HEAD"
  <2> DEFINE h == [f EXCEPT !.length = disk.len - 0]
  <2>1. Respond(200, h, 0)
    BY <1>3 DEF FileOpened, WriteBinaryHeader
  <2>2. /\ h \in Headers /\ h.conn = f.conn /\ h.fields = f.fields
    <3>1. h = [f EXCEPT !.length = disk.len] /\ disk.len \in Int
      BY <1>1
    <3> HIDE DEF h, f
    <3> QED
      BY <1>2, <3>1, BodyEdit
  <2> HIDE DEF h, f
  <2>3. 200 \in Statuses /\ 0 \in Nat
    BY DEF Statuses
  <2>4. /\ header' \in Headers /\ wire' \in Responses /\ wire'.count = 1
        /\ wire'.status = 200 /\ wire'.head = h /\ wire'.sent = 0
        /\ header' = h
    BY <1>1, <2>1, <2>2, <2>3, RespondWrites
  <2>5. pc' = After(KeepAlive) /\ UNCHANGED left
    BY <1>3 DEF FileOpened
  <2>6. Framed' /\ FieldsFit'
    BY <1>1, <1>2, <1>3, <2>2, <2>4 DEF Framed, FieldsFit, FieldsDue
  <2>7. RefusedFirst' /\ SavedIsAccepted' /\ Carried'
    BY <1>1, <1>2, <2>2, <2>4
    DEF IInv, RefusedFirst, SavedIsAccepted, Carried, Refused, KeptFields
  <2>8. pc' \in {"line", "end"}
        /\ wire'.head.conn = (IF pc' = "line" THEN "keep-alive" ELSE "close")
    BY <1>2, <2>2, <2>4, <2>5 DEF After
  <2> QED
    BY <1>1, <2>4, <2>5, <2>6, <2>7, <2>8, AnswerIInv
<1>4. CASE method # "HEAD"
  <2>1. /\ WriteBinaryHeader(f, disk.len, Chunked, req.range)
        /\ left' = disk.len - req.range /\ pc' = "send"
    BY <1>4 DEF FileOpened
  <2> HIDE DEF f
  <2>2. PICK h \in Headers, status \in {200, 206} :
              Announces(h, status, f, disk.len, req.range)
    <3>1. /\ IsFileHeader(f) /\ disk.len \in Int /\ req.range \in Int
          /\ WriteBinaryHeader(f, disk.len, Chunked, req.range)
      BY <1>1, <1>2, <2>1 DEF IsFileHeader
    <3> QED
      BY ONLY <3>1, BinaryHeader
  <2>3. status \in Statuses /\ 0 \in Nat
    BY DEF Statuses
  <2>4. /\ header' \in Headers /\ wire' \in Responses /\ wire'.count = 1
        /\ wire'.status = status /\ wire'.head = h /\ wire'.sent = 0
        /\ header' = h
    BY <1>1, <2>2, <2>3, RespondWrites DEF Announces
  <2>5. TypeOK'
    BY <1>1, <2>1, <2>4 DEF IInv, TypeOK, States
  <2>6. Unanswered' /\ Known' /\ Partial'
    BY <1>1, <2>1, <2>4 DEF IInv, Unanswered, Known, Partial, Refused
  <2>7. Sending'
    BY <1>1, <1>4, <2>1, <2>2, <2>4 DEF Sending, Announces
  <2>8. Told'
    <3>1. wire'.head.conn = IF KeepAlive THEN "keep-alive" ELSE "close"
      BY <1>2, <2>2, <2>4 DEF Announces
    <3> QED
      BY <2>1, <3>1 DEF Told
  <2>9. /\ Framed' /\ FieldsFit' /\ RefusedFirst'
        /\ SavedIsAccepted' /\ Carried'
    <3>1. Framed' /\ RefusedFirst' /\ SavedIsAccepted'
      BY <1>1, <2>1 DEF IInv, Framed, RefusedFirst, SavedIsAccepted, Refused
    <3>2. h.fields = IF status = 206 THEN {"Last-Modified", "Content-Range"}
                                     ELSE {"Last-Modified"}
      BY <1>2, <2>2 DEF Announces
    <3>3. FieldsFit'
      BY <1>1, <2>2, <2>4, <3>2 DEF FieldsFit, FieldsDue
    <3>4. Carried'
      BY <1>1, <2>1, <2>4, <3>2 DEF IInv, Carried, KeptFields
    <3> QED
      BY <3>1, <3>3, <3>4
  <2> QED
    BY <2>5, <2>6, <2>7, <2>8, <2>9 DEF IInv
<1> QED
  BY <1>3, <1>4

LEMMA CutEdit ==
    ASSUME NEW w \in Responses, NEW c \in BOOLEAN
    PROVE  [w EXCEPT !.cut = c] \in Responses
BY DEF Responses

LEMMA SentEdit ==
    ASSUME NEW w \in Responses, NEW n \in Nat
    PROVE  [w EXCEPT !.sent = n] \in Responses
BY DEF Responses

LEMMA EndedEdit ==
    ASSUME NEW w \in Responses, NEW e \in BOOLEAN
    PROVE  [w EXCEPT !.ended = e] \in Responses
BY DEF Responses

\* One round of the loop of WriteFile, and its end, change only these parts of
\* the response.
LEMMA ChunkWrites ==
    ASSUME wire \in Responses, SendChunk
    PROVE  /\ wire' \in Responses /\ wire'.sent = wire.sent + 1
           /\ wire'.count = wire.count /\ wire'.status = wire.status
           /\ wire'.head = wire.head
<1>1. PICK cut \in BOOLEAN :
          wire' = [wire EXCEPT !.sent = @ + 1, !.cut = @ \/ cut]
  BY DEF SendChunk, Cuts
<1>2. (wire.cut \/ cut) \in BOOLEAN
  BY DEF Responses
<1> DEFINE c == wire.cut \/ cut
<1>3. wire' = [wire EXCEPT !.sent = wire.sent + 1, !.cut = c] /\ c \in BOOLEAN
  BY <1>1, <1>2
<1> HIDE DEF c
<1>4. wire.sent + 1 \in Nat
  BY DEF Responses
<1> DEFINE n == wire.sent + 1
<1>5. wire' = [wire EXCEPT !.sent = n, !.cut = c] /\ n \in Nat
  BY <1>3, <1>4
<1> HIDE DEF n
<1>6. /\ wire'.sent = n /\ wire'.count = wire.count
      /\ wire'.status = wire.status /\ wire'.head = wire.head
  BY <1>5 DEF Responses
<1>7. wire' \in Responses
  <2>1. [wire EXCEPT !.sent = n] \in Responses
    BY <1>5, SentEdit
  <2> QED
    BY <1>3, <1>5, <2>1, CutEdit, Zenon
<1> QED
  BY <1>6, <1>7 DEF n

LEMMA DoneWrites ==
    ASSUME wire \in Responses, SendDone
    PROVE  /\ wire' \in Responses /\ wire'.sent = wire.sent
           /\ wire'.count = wire.count /\ wire'.status = wire.status
           /\ wire'.head = wire.head /\ wire'.ended = Chunked
<1> USE ConnectionAssumption
<1>1. PICK cut \in BOOLEAN :
          wire' = [wire EXCEPT !.ended = Chunked, !.cut = @ \/ cut]
  BY DEF SendDone, Cuts
<1>2. (wire.cut \/ cut) \in BOOLEAN
  BY DEF Responses
<1> DEFINE c == wire.cut \/ cut
<1>3. wire' = [wire EXCEPT !.ended = Chunked, !.cut = c] /\ c \in BOOLEAN
  BY <1>1, <1>2
<1> HIDE DEF c
<1>4. /\ wire'.sent = wire.sent /\ wire'.count = wire.count
      /\ wire'.status = wire.status /\ wire'.head = wire.head
      /\ wire'.ended = Chunked
  BY <1>3, Zenon DEF Responses
<1>5. wire' \in Responses
  <2>1. [wire EXCEPT !.ended = Chunked] \in Responses
    BY EndedEdit
  <2> QED
    BY <1>3, <2>1, CutEdit, Zenon
<1> QED
  BY <1>4, <1>5

LEMMA SendChunkIInv == IInv /\ SendChunk => IInv'
<1> SUFFICES ASSUME IInv, SendChunk PROVE IInv'
  OBVIOUS
<1>1. /\ wire \in Responses /\ left \in Int /\ wire.count = 1 /\ pc = "send"
      /\ wire.sent \in Int /\ Sending /\ Told /\ Known
  BY DEF IInv, TypeOK, SendChunk, Unanswered, Responses
<1>2. /\ wire' \in Responses /\ wire'.sent = wire.sent + 1
      /\ wire'.count = wire.count /\ wire'.status = wire.status
      /\ wire'.head = wire.head
  BY <1>1, ChunkWrites
<1>3. /\ UNCHANGED <<pc, auth, method, req, header, tmp, saved, disk, peer>>
      /\ left > 0 /\ left' = left - 1
  BY DEF SendChunk
<1>4. TypeOK'
  BY <1>1, <1>2, <1>3 DEF IInv, TypeOK
<1>5. Unanswered' /\ Known' /\ Partial'
  BY <1>1, <1>2, <1>3 DEF IInv, Unanswered, Known, Partial, Refused,
                          CreateHeader
<1>6. Sending'
  <2>1. ~Chunked => wire'.head.chunked = FALSE
    BY <1>1, <1>2 DEF Sending
  <2>2. Chunked => wire'.head.chunked = TRUE
    BY <1>1, <1>2 DEF Sending
  <2>3. ~Chunked => wire.head.length = wire.sent + left
    BY <1>1 DEF Sending
  <2>4. ~Chunked => wire'.head.length = wire'.sent + left'
    BY <1>1, <1>2, <1>3, <2>3
  <2>5. left' >= 0
    BY <1>1, <1>3
  <2>6. ~(left' < 0)
    BY <1>1, <1>3, <2>5
  <2> QED
    BY <1>1, <1>2, <1>3, <2>1, <2>2, <2>4, <2>6 DEF Sending
<1>7. Told'
  BY <1>1, <1>2, <1>3 DEF Told
<1>8. /\ Framed' /\ FieldsFit' /\ RefusedFirst'
      /\ SavedIsAccepted' /\ Carried'
  BY <1>1, <1>2, <1>3 DEF IInv, Framed, FieldsFit, FieldsDue,
     RefusedFirst, SavedIsAccepted, Carried, Refused, Known
<1> QED
  BY <1>4, <1>5, <1>6, <1>7, <1>8 DEF IInv

LEMMA SendDoneIInv == IInv /\ SendDone => IInv'
<1> USE ConnectionAssumption
<1> SUFFICES ASSUME IInv, SendDone PROVE IInv'
  OBVIOUS
<1>1. /\ wire \in Responses /\ left \in Int /\ wire.count = 1 /\ pc = "send"
      /\ wire.sent \in Nat /\ Sending /\ Told /\ Known /\ SavedIsAccepted
  BY DEF IInv, TypeOK, SendDone, Unanswered, Responses
<1>2. /\ wire' \in Responses /\ wire'.sent = wire.sent
      /\ wire'.count = wire.count /\ wire'.status = wire.status
      /\ wire'.head = wire.head /\ wire'.ended = Chunked
  BY <1>1, DoneWrites
<1>3. /\ UNCHANGED <<auth, method, req, header, tmp, saved, disk, peer>>
      /\ left <= 0 /\ left' = 0 /\ pc' = After(KeepAlive)
  BY DEF SendDone
<1>4. pc' \in {"line", "end"} /\ (pc' = "line" <=> KeepAlive)
  BY <1>3 DEF After
<1>5. TypeOK'
  BY <1>1, <1>2, <1>3, <1>4 DEF IInv, TypeOK, States
<1>6. Unanswered' /\ Known' /\ Sending'
  BY <1>1, <1>2, <1>4 DEF Unanswered, Known, Sending
<1>7. Told' /\ Partial'
  <2>1. wire'.head.conn = IF KeepAlive THEN "keep-alive" ELSE "close"
    BY <1>1, <1>2 DEF Told
  <2>2. Told'
    BY <1>4, <2>1 DEF Told
  <2>3. Partial'
    BY <1>1, <1>3 DEF IInv, Partial, Over
  <2> QED
    BY <2>2, <2>3
<1>8. Framed'
  <2>1. CASE Chunked
    <3>1. wire.head.chunked = TRUE /\ method # "HEAD" /\ method = req.method
          /\ wire.status \in {200, 206}
      BY <1>1, <2>1 DEF Sending, Known
    <3>2. wire'.head.chunked /\ wire'.ended
      BY <1>2, <2>1, <3>1, Zenon
    <3> QED
      BY <1>2, <1>3, <3>1, <3>2 DEF Framed
  <2>2. CASE ~Chunked
    <3>1. left = 0 \/ left < 0
      BY <1>1, <1>3
    <3>2. /\ wire.head.length = wire.sent + left
          /\ left < 0 => wire.sent = 0
      BY <1>1, <2>2 DEF Sending
    <3>3. wire.head.length = wire.sent \/ wire.head.length < 0
      BY <1>1, <3>1, <3>2
    <3>4. /\ wire.head.chunked = FALSE /\ method # "HEAD"
          /\ method = req.method /\ wire.status \in {200, 206}
      BY <1>1, <2>2 DEF Sending, Known
    <3>5. ~wire'.head.chunked
      BY <1>2, <3>4, Zenon
    <3> QED
      BY <1>2, <1>3, <3>3, <3>4, <3>5 DEF Framed
  <2> QED
    BY <2>1, <2>2
<1>9. FieldsFit'
  BY <1>1, <1>2, <1>3 DEF IInv, FieldsFit, FieldsDue
<1>10. RefusedFirst' /\ SavedIsAccepted' /\ Carried'
  BY <1>1, <1>3, <1>4 DEF IInv, RefusedFirst, SavedIsAccepted, Carried, Refused,
                          Known
<1> QED
  BY <1>5, <1>6, <1>7, <1>8, <1>9, <1>10 DEF IInv

\* The end of Run, and what the peer, the file system and a cancellation do.
LEMMA CloseIInv == IInv /\ Close => IInv'
<1> SUFFICES ASSUME IInv, Close PROVE IInv'
  OBVIOUS
<1>1. Unanswered' /\ Known' /\ Sending' /\ Told' /\ Partial' /\ Carried'
  BY DEF Close, IInv, Unanswered, Known, Sending, Told, Partial, Over,
         Carried, Refused
<1> QED
  BY <1>1, QuietIInv DEF Close, IInv, TypeOK, States

LEMMA CancelledIInv == IInv /\ Cancelled => IInv'
<1> SUFFICES ASSUME IInv, Cancelled PROVE IInv'
  OBVIOUS
<1>1. Unanswered' /\ Known' /\ Sending' /\ Told' /\ Partial' /\ Carried'
  BY DEF Cancelled, IInv, Unanswered, Known, Sending, Told, Partial, Over,
         Carried
<1> QED
  BY <1>1, QuietIInv DEF Cancelled, IInv, TypeOK, States

LEMMA OutsideIInv == IInv /\ (PeerLeaves \/ FileChanges) => IInv'
<1> SUFFICES ASSUME IInv, PeerLeaves \/ FileChanges PROVE IInv'
  OBVIOUS
<1>1. /\ UNCHANGED <<pc, auth, method, req, header, tmp, saved, wire, left>>
      /\ disk' \in Files \cup {Nothing, Directory}
      /\ peer' \in {"there", "gone"}
  BY DEF PeerLeaves, FileChanges, IInv, TypeOK
<1>2. Unanswered' /\ Known' /\ Sending' /\ Told' /\ Partial' /\ Carried'
  BY <1>1 DEF IInv, Unanswered, Known, Sending, Told, Partial,
              Carried, Refused, CreateHeader
<1> QED
  BY <1>1, <1>2, QuietIInv DEF IInv, TypeOK

LEMMA StutterIInv == IInv /\ UNCHANGED vars => IInv'
<1> SUFFICES ASSUME IInv, UNCHANGED vars PROVE IInv'
  OBVIOUS
<1>1. Unanswered' /\ Known' /\ Sending' /\ Told' /\ Partial' /\ Carried'
  BY DEF vars, IInv, Unanswered, Known, Sending, Told, Partial,
         Carried, Refused, CreateHeader
<1> QED
  BY <1>1, QuietIInv DEF vars, IInv, TypeOK

\* IInv is inductive.
LEMMA NextIInv == IInv /\ [Next]_vars => IInv'
<1> SUFFICES ASSUME IInv, [Next]_vars PROVE IInv'
  OBVIOUS
<1>1. CASE Read
  BY <1>1, ReadIInv
<1>2. CASE Work
  BY <1>2, NotImplementedIInv, OptionsIInv, ReadBodyIInv, UploadAcceptedIInv,
     UploadRefusedIInv, RequestReceivedIInv, TextPageIInv, NoPageIInv,
     UploadPageIInv, FilePageIInv, FileMissingIInv, FileFoundIInv,
     FileOpenedIInv, SendChunkIInv, SendDoneIInv, CloseIInv DEF Work
<1>3. CASE Cancelled \/ PeerLeaves \/ FileChanges
  BY <1>3, CancelledIInv, OutsideIInv
<1>4. CASE UNCHANGED vars
  BY <1>4, StutterIInv
<1> QED
  BY <1>1, <1>2, <1>3, <1>4 DEF Next

\* Everything in IInv holds throughout a connection.
THEOREM Invariance == Spec => []IInv
BY InitIInv, NextIInv, PTL DEF Spec

\* The variables keep their types: in particular a request is answered once.
THEOREM TypeCorrect == Spec => []TypeOK
<1>1. IInv => TypeOK
  BY DEF IInv
<1> QED
  BY <1>1, Invariance, PTL

\* A response that is followed by another is as long as its header says, for
\* files of every length that change at any moment, and every offset.
THEOREM Framing == Spec => []Framed
<1>1. IInv => Framed
  BY DEF IInv
<1> QED
  BY <1>1, Invariance, PTL

\* A response has its own fields and none of an earlier one, but for the two
\* answers that are given before the header is cleared: these have an earlier
\* response's, too, and close the connection.
THEOREM OwnFields == Spec => []FieldsFit
<1>1. IInv => FieldsFit
  BY DEF IInv
<1> QED
  BY <1>1, Invariance, PTL

\* Whoever lacks the credentials puts nothing into uploads/ and, unless it sends
\* OPTIONS or an unknown method, is shown one error page and nothing else,
\* whatever the request is for.
THEOREM Authorised == Spec => []RefusedFirst
<1>1. IInv => RefusedFirst
  BY DEF IInv
<1> QED
  BY <1>1, Invariance, PTL

\* What a request renames into uploads/ is its own accepted upload, or the file
\* that its header fields name, and the client has the right credentials.
THEOREM Saved == Spec => []SavedIsAccepted
<1>1. IInv => SavedIsAccepted
  BY DEF IInv
<1> QED
  BY <1>1, Invariance, PTL

-----------------------------------------------------------------------------
(* The refinement of Exchange. *)

\* A step that writes the response answers.
LEMMA AnswerStep ==
    ASSUME IInv', pc \notin Over, pc # "line", wire.count = 0,
           wire'.count = 1, pc' \in {"line", "end", "send"}
    PROVE  KeepAliveExchange!Answer
<1>1. Phase = "pending"
  BY DEF Phase, Over
<1>2. wire'.head.conn \in {"keep-alive", "close"}
      /\ (pc' = "line" => wire'.head.conn = "keep-alive")
  BY DEF IInv, Told
<1>3. Phase' = IF pc' = "line" THEN "idle" ELSE "answering"
  BY DEF Phase
<1> QED
  BY <1>1, <1>2, <1>3 DEF KeepAliveExchange!Answer

\* A step that leaves the response alone and goes on with the same request.
LEMMA SamePhase ==
    ASSUME wire'.count = wire.count, wire'.head = wire.head,
           pc = pc' \/ (pc \notin Over \cup {"line"}
                        /\ pc' \notin Over \cup {"line"})
    PROVE  UNCHANGED <<Phase, wire.head.conn>>
BY DEF Phase, Over

LEMMA RespondCounts ==
    ASSUME NEW status, NEW h, NEW n, Respond(status, h, n)
    PROVE  wire'.count = wire.count + 1
BY DEF Respond

LEMMA WritesCount ==
    ASSUME NEW status, NEW h, NEW n, NEW k, WriteString(status, h, n, k)
    PROVE  wire'.count = wire.count + 1
BY RespondCounts DEF WriteString

LEMMA ErrorCounts ==
    ASSUME NEW status, NEW h, WriteError(status, h)
    PROVE  wire'.count = wire.count + 1
BY WritesCount DEF WriteError

LEMMA RedirectCounts == Redirect => wire'.count = wire.count + 1
BY WritesCount DEF Redirect

\* Every step of ReadRequest and ProcessRequest before the loop of WriteFile
\* writes the one response, or nothing.
LEMMA WritesOrNot ==
    ASSUME NotImplemented \/ Options \/ UploadRefused \/ RequestReceived
           \/ TextPage \/ NoPage \/ UploadMissing \/ UploadRenamed
           \/ UploadFails \/ FileMissing \/ FileFound \/ FileOpened
    PROVE  /\ pc \in {"unknown", "options", "upload", "received", "process",
                      "stat", "open"}
           /\ \/ /\ wire'.count = wire.count + 1
                 /\ pc' \in {"line", "end", "send"}
              \/ wire' = wire /\ pc' \in {"process", "open"}
<1>1. CASE NotImplemented \/ UploadRefused \/ NoPage \/ UploadMissing
           \/ UploadFails \/ FileMissing
  BY <1>1, ErrorCounts DEF NotImplemented, UploadRefused, NoPage,
     UploadMissing, UploadFails, FileMissing
<1>2. CASE Options
  <2>1. /\ Respond(200, [WithField(CreateHeader, "Allow")
                           EXCEPT !.conn = "close"], 0)
        /\ pc = "options" /\ pc' = "end"
    BY <1>2 DEF Options
  <2> QED
    BY <2>1, RespondCounts
<1>3. CASE RequestReceived
  BY <1>3, ErrorCounts, RedirectCounts DEF RequestReceived
<1>4. CASE TextPage \/ UploadRenamed
  BY <1>4, WritesCount DEF TextPage, UploadRenamed, After
<1>5. CASE FileFound
  BY <1>5, WritesCount DEF FileFound, After
<1>6. CASE FileOpened
  <2>1. pc = "open" /\ pc' \in {"line", "end", "send"}
    BY <1>6 DEF FileOpened, After
  <2>2. wire'.count = wire.count + 1
    BY <1>6, RespondCounts DEF FileOpened, WriteBinaryHeader
  <2> QED
    BY <2>1, <2>2
<1> QED
  BY <1>1, <1>2, <1>3, <1>4, <1>5, <1>6

\* Every step of a connection is a step of Exchange or none.
LEMMA StepMaps ==
    ASSUME IInv, IInv', [Next]_vars
    PROVE  \/ KeepAliveExchange!ENext
           \/ UNCHANGED <<Phase, wire.head.conn>>
<1>1. CASE Read
  <2>1. /\ NewRequest
        /\ pc' \in {"end", "unknown", "options", "body", "upload", "received"}
    BY <1>1 DEF Read, ReadFails, ReadUnknown, ReadHead
  <2>2. pc = "line" /\ wire'.count = 0 /\ wire'.head.conn = "none"
    BY <2>1 DEF NewRequest, NoResponse, NoHeader
  <2>3. Phase = "idle" /\ Phase' = "pending"
    BY <2>1, <2>2 DEF Phase
  <2> QED
    BY <2>2, <2>3 DEF KeepAliveExchange!ENext, KeepAliveExchange!Request
<1>2. CASE NotImplemented \/ Options \/ UploadRefused \/ RequestReceived
           \/ TextPage \/ NoPage \/ UploadMissing \/ UploadRenamed
           \/ UploadFails \/ FileMissing \/ FileFound \/ FileOpened
  <2>1. /\ pc \in {"unknown", "options", "upload", "received", "process",
                   "stat", "open"}
        /\ \/ /\ wire'.count = wire.count + 1
              /\ pc' \in {"line", "end", "send"}
           \/ wire' = wire /\ pc' \in {"process", "open"}
    BY <1>2, WritesOrNot
  <2>2. wire.count = 0
    BY <2>1, Pending
  <2>3. CASE wire'.count = wire.count + 1 /\ pc' \in {"line", "end", "send"}
    <3>1. pc \notin Over /\ pc # "line" /\ wire'.count = 1
      BY <2>1, <2>2, <2>3 DEF Over
    <3> QED
      BY <2>2, <2>3, <3>1, AnswerStep DEF KeepAliveExchange!ENext
  <2>4. CASE wire' = wire /\ pc' \in {"process", "open"}
    BY <2>1, <2>4, SamePhase DEF Over
  <2> QED
    BY <2>1, <2>3, <2>4
<1>3. CASE UploadAccepted \/ FilePage
  BY <1>3, SamePhase DEF UploadAccepted, FilePage, Over
<1>4. CASE ReadBody
  <2>1. pc = "body" /\ wire' = wire /\ wire.count = 0
    BY <1>4, Pending DEF ReadBody
  <2>2. CASE pc' = "aborted"
    <3>1. Phase = "pending" /\ Phase' = "lost"
      BY <2>1, <2>2 DEF Phase
    <3> QED
      BY <2>1, <3>1 DEF KeepAliveExchange!ENext, KeepAliveExchange!Lose
  <2>3. CASE pc' # "aborted"
    BY <1>4, <2>1, <2>3, SamePhase DEF ReadBody, Over
  <2> QED
    BY <2>2, <2>3
<1>5. CASE SendChunk
  <2>1. wire'.count = wire.count /\ wire'.head = wire.head
    BY <1>5, ChunkWrites DEF IInv, TypeOK
  <2>2. pc' = pc
    BY <1>5 DEF SendChunk
  <2> QED
    BY <2>1, <2>2, SamePhase
<1>6. CASE SendDone
  <2>1. wire'.count = wire.count /\ wire'.head = wire.head
    BY <1>6, DoneWrites DEF IInv, TypeOK
  <2>2. pc = "send" /\ pc' \in {"line", "end"} /\ wire.count = 1
    BY <1>6 DEF SendDone, After, IInv, Unanswered
  <2>3. CASE pc' = "line"
    <3>1. Phase = "answering" /\ Phase' = "idle"
      BY <2>2, <2>3 DEF Phase
    <3>2. wire.head.conn = "keep-alive"
      BY <2>1, <2>2, <2>3 DEF IInv, Told
    <3> QED
      BY <2>1, <3>1, <3>2
      DEF KeepAliveExchange!ENext, KeepAliveExchange!Continue
  <2>4. CASE pc' = "end"
    BY <2>1, <2>2, <2>4, SamePhase DEF Over
  <2> QED
    BY <2>2, <2>3, <2>4
<1>7. CASE Close
  <2>1. pc = "end" /\ pc' = "closed" /\ wire' = wire /\ wire.count \in 0..1
    BY <1>7 DEF Close, IInv, TypeOK, Responses
  <2>2. /\ Phase' = "closed"
        /\ Phase = IF wire.count = 0 THEN "pending" ELSE "answering"
    BY <2>1 DEF Phase
  <2>3. wire.count # 0 => wire.head.conn = "close"
    BY <2>1 DEF IInv, Told
  <2> QED
    BY <2>1, <2>2, <2>3
    DEF KeepAliveExchange!ENext, KeepAliveExchange!HangUp
<1>8. CASE Cancelled
  <2>1. pc \notin Over /\ pc' = "cancelled" /\ wire' = wire
    BY <1>8 DEF Cancelled
  <2>2. Phase # "closed" /\ Phase' = "lost"
    BY <2>1 DEF Phase, Over
  <2> QED
    BY <2>1, <2>2 DEF KeepAliveExchange!ENext, KeepAliveExchange!Lose
<1>9. CASE PeerLeaves \/ FileChanges \/ UNCHANGED vars
  <2>1. pc' = pc /\ wire' = wire
    BY <1>9 DEF PeerLeaves, FileChanges, vars
  <2> QED
    BY <2>1, SamePhase
<1> QED
  BY <1>1, <1>2, <1>3, <1>4, <1>5, <1>6, <1>7, <1>8, <1>9 DEF Next, Work

\* A connection is an exchange of requests and responses in which Run does
\* what the Connection field of the response has told the client.
THEOREM Refinement == Spec => ImplementsExchange
<1>1. Init => KeepAliveExchange!EInit
  BY DEF Init, KeepAliveExchange!EInit, Phase, NoResponse, NoHeader
<1> QED
  BY <1>1, StepMaps, Invariance, PTL
  DEF Spec, ImplementsExchange, KeepAliveExchange!ESpec

-----------------------------------------------------------------------------
(* What makes RequestEnds true is that no request can go on for ever.  The   *)
(* rest of it is fairness, and left to TLC.                                  *)

\* How far a request is from its end, apart from the loop of WriteFile.
Stage ==
    IF pc \in Over \cup {"line"} THEN 0
    ELSE IF pc = "end" THEN 1
    ELSE IF pc \in {"unknown", "options", "send"} THEN 2
    ELSE IF pc = "open" THEN 3
    ELSE IF pc = "stat" THEN 4
    ELSE IF pc = "process" THEN 5
    ELSE IF pc = "received" THEN 6
    ELSE 7

Nearer == Stage' < Stage \/ (Stage' = Stage /\ 0 <= left' /\ left' < left)

LEMMA WorkLeadsOn ==
    ASSUME TypeOK, Work
    PROVE  Nearer
<1> USE DEF Nearer, Stage, Over, States, After, TypeOK
<1>1. CASE NotImplemented \/ Options \/ ReadBody \/ UploadAccepted \/ UploadRefused
  <2>1. \/ pc \in {"unknown", "options"} /\ pc' = "end"
        \/ pc \in {"body", "upload"} /\ pc' \in {"received", "end", "aborted"}
    BY <1>1 DEF NotImplemented, Options, ReadBody, UploadAccepted, UploadRefused
  <2> QED
    BY <2>1
<1>2. CASE RequestReceived
  <2>1. pc = "received" /\ pc' \in {"end", "line", "process"}
    BY <1>2 DEF RequestReceived
  <2> QED
    BY <2>1
<1>3. CASE TextPage \/ NoPage \/ UploadMissing \/ UploadRenamed \/ UploadFails \/ FilePage
  <2>1. pc = "process" /\ pc' \in {"end", "line", "stat"}
    BY <1>3 DEF TextPage, NoPage, UploadMissing, UploadRenamed, UploadFails, FilePage
  <2> QED
    BY <2>1
<1>4. CASE FileMissing
  BY <1>4 DEF FileMissing
<1>5. CASE FileFound
  BY <1>5 DEF FileFound
<1>6. CASE FileOpened
  <2>1. pc = "open" /\ pc' \in {"end", "line", "send"}
    BY <1>6 DEF FileOpened
  <2> QED
    BY <2>1
<1>7. CASE SendChunk
  <2>1. pc = "send" /\ pc' = pc /\ left > 0 /\ left' = left - 1 /\ left \in Int
    BY <1>7 DEF SendChunk
  <2> QED
    BY <2>1
<1>8. CASE SendDone \/ Close
  <2>1. (pc = "send" /\ pc' \in {"end", "line"}) \/ (pc = "end" /\ pc' = "closed")
    BY <1>8 DEF SendDone, Close
  <2> QED
    BY <2>1
<1> QED
  BY <1>1, <1>2, <1>3, <1>4, <1>5, <1>6, <1>7, <1>8 DEF Work

\* From the moment its first line was read, every step of a request brings it
\* nearer to its end, for every length of file and every offset, also when the
\* file shrinks or is replaced and the peer has gone; what these two do does
\* not set it back (http_srv.cpp, Run and WriteFile).
THEOREM OnlyForward ==
    Spec => [][pc \notin Over \cup {"line"} =>
                  Nearer \/ (UNCHANGED <<pc, left, wire>> /\ (PeerLeaves \/ FileChanges))]_vars
<1>1. TypeOK /\ [Next]_vars =>
          [pc \notin Over \cup {"line"} =>
              Nearer \/ (UNCHANGED <<pc, left, wire>> /\ (PeerLeaves \/ FileChanges))]_vars
  <2> SUFFICES ASSUME TypeOK, Next, pc \notin Over \cup {"line"}
               PROVE  Nearer \/ (UNCHANGED <<pc, left, wire>> /\ (PeerLeaves \/ FileChanges))
    OBVIOUS
  <2>1. CASE Work
    BY <2>1, WorkLeadsOn
  <2>2. CASE Cancelled
    BY <2>2 DEF Cancelled, Nearer, Stage, Over, States, TypeOK
  <2>3. CASE PeerLeaves \/ FileChanges
    BY <2>3 DEF PeerLeaves, FileChanges
  <2>4. ~Read
    BY DEF Read, ReadFails, ReadUnknown, ReadHead, NewRequest
  <2> QED
    BY <2>1, <2>2, <2>3, <2>4 DEF Next
<1> QED
  BY <1>1, TypeCorrect, PTL DEF Spec
=============================================================================
