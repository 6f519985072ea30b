# A formal model of ghttpsrv

ghttpsrv is a small wxWidgets program around a C++ HTTP server: a dialog that
starts and stops the server, one thread that accepts connections, one thread
per connection, plain or TLS, and pages that browse a directory, show forms and
receive uploads.  This directory has TLA+ modules translated from its source,
TLC configurations that check them on small instances, and TLAPS proofs of all
the runs' invariants and refinements for every instance.

    tlc -workers 2 -config HttpServer.cfg HttpServer      a run
    tlapm HttpServerProofs.tla                            a proof module

Every `.cfg` belongs to the module of its name.  `PROJECT.json` has the list of
runs, the source lines behind each definition (`map`), the hazards with the
properties that watch them, the mutants, and the theorems.  Source paths below
are relative to `src/`, and `thread.cpp`, `http_srv.cpp`, `srv_sock.cpp`,
`base_sock.cpp` are in `src/common/`.

## 1. The system

    main thread (GHTTPServer dialog)   main.cpp
       | Start, End, IsRunning, configuration; exit(0)
       v
    accept thread (HttpSrv : PThread)  http_srv.cpp, server.cpp
       | list<HttpResponse*> _clients: new, Start, IsRunning, delete
       v
    workers (HttpResponse : PThread)   http_srv.cpp, server.cpp
       | ReadLine, ReadData, WriteData    | mkstemp, rename,     | Log (events to
       v                                  v stat, open           v the dialog)
    AcceptedSock : BaseSock            uploads/               main thread

The workers share three things besides: the table of pages, which they lock, the
files under uploads/, which they do not, and the working directory of the
process, which the dialog's file chooser changes.

| Component | State | Operations | Hard | Correct when |
|---|---|---|---|---|
| Thread object, `PThread` (thread.cpp) | `_tid`, `_running`, `_local_lock` | Start, Wait, End, destructor, run, exit_handler | cancellation anywhere in Run; restart without a join; deletion while the thread ends | no thread touches a freed object, executions never overlap, `_running` tells the truth, End returns |
| Lock registry, `PThread` (thread.cpp) | `_locks`: address -> rwlock and count; `_shared_locks`, `_locked` per object | PlugLockable, Lock, Unlock, find/add/remove_plock | lookup and use are separate critical sections; addresses come back; cancellation with a lock held | counts are right, no rwlock dies in use, exit releases |
| Server life cycle (main.cpp, http_srv.cpp, srv_sock.cpp) | buttons; `_srv` socket; `_clients`; `_page_handlers` | OnStart, OnStop, OnClose; StartServer, ClientAccept, reaping, StopServer; worker OnExit | the accept thread is cancelled anywhere, also while it joins a worker; mutexes of the workers' log and readdir | nothing runs once "stopped" is shown; pages change only with nobody reading; every socket has an owner who will close it, but for two named leaks; stop returns; finished workers go |
| Requests and responses (http_srv.cpp, server.cpp) | `_request_*`, `_response_header`, temporary file | ReadRequest, RequestReceived, ProcessRequest, WriteString, WriteFile, WriteError, UploadPage | header object reused across requests; files change while sent; peer leaves; authentication after the upload is on disk | responses are framed, have their own fields, and say truly whether the connection goes on; without credentials nothing gets under uploads/, though the temporary file of a refused upload stays |
| Files under uploads/ (http_srv.cpp, server.cpp, main.cpp) | the stored file and its date, temporary files, the working directory | mkstemp, write, rename, unlink; stat, open; the file chooser | several workers and one name; stat and open are two steps; dates without fractions; nobody looks at what write returns | an accepted upload is there, whole; nobody is told to use an older file; nothing is left behind but in named cases |
| Saving an upload (http_srv.cpp 861-983) | position in the body, buffer, the form's fields | SaveUpload, SkipLines, GetValue | values that look like fields; delimiter across buffers; short reads | fields and file are those that were sent, and the body is consumed whole, and no more but for the buffer in which the delimiter begins |
| Reading a socket (base_sock.cpp) | `_sock`, `_TimeOut` | ReadLine, FindEOL, ReadData, ExchangeData | peek and take over several rounds; timeouts that add up; TLS records in parts | lines are exact, failures have a cause, calls are bounded |
| Writing to a socket (base_sock.cpp, http_srv.cpp) | `tot_bytes`, `loops`; OpenSSL's pending record | WriteLine, WriteData, ExchangeData, WriteFile's loop | partial writes, SSL_write tried again, failures nobody looks at | bytes in order, none twice; a bounded time per call |
| Arguments (http_srv.cpp, tools.h) | `_request_args` | ParseArguments, Unescape, TokenIterator | order of splitting and unescaping | arguments arrive as they were sent |
| Table of pages (http_srv.cpp) | `_page_handlers`, an ordered map | AddText, AddBin, AddFile, AddDir, FindHandler | nested directories, order of the map | the page, or its innermost directory, is found |
| Page contents (server.cpp) | none | BrowsePage, AboutPage, UserPage, FormPage | text | not modelled: text |
| Authentication header (http_srv.cpp, tools.cpp, server.cpp) | `_auth_user`, `_auth_pwd` | GetAuthentication, Base64, the comparison | one text split in two, groups cut short | those and only those who have name and password are let in |
| Settings (main.cpp, http_srv.cpp, base_sock.cpp) | the dialog's widgets; `_sslsock`, `_ctx`, the certificate, the root directory | CheckEnable, the choosers, OnStart; SetSSL, UseCertificate, SetRootDir | starts that fail half-way and leave something behind; a working directory that moves | the server runs as the dialog showed when it was started |
| TLS handshake and accessors, OpenSSL callbacks (base_sock.cpp) | OpenSSL's | StartSSL, accessors | reads from the library | not modelled; the handshake is a step of `HttpServer` |
| Tools (tools.cpp) | none | IPv4, hex, wide characters, AES | pure | not modelled: the server calls only Base64 |
| Dialog layout (main.cpp, wxhlp.cpp), build files | sizers, colours, log window | events | user interface | not modelled |

## 2. The modules

| Module | Models | Abstract specification | Proofs |
|---|---|---|---|
| `PThread` | one thread object and its executions | `TaskLife` | `PThreadProofs` |
| `HttpServer` | dialog, accept thread, workers | `ServerSession` | `HttpServerProofs` |
| `Connection` | the requests of one connection | `Exchange` | `ConnectionProofs` |
| `LineReader` | ReadLine on a socket | - | `LineReaderProofs` |
| `ResponseWriter` | the calls of WriteData for one response | `ByteStream` | `ResponseWriterProofs` |
| `FileStore` | uploads to one name, and requests for it | - | `FileStoreProofs` |
| `UploadForm` | the form before the file in SaveUpload | the client's form | `RequestProofs` |
| `UploadData` | the data loop of SaveUpload | - | `RequestProofs` |
| `LockRegistry` | the shared locks | - | `LockRegistryProofs` |
| `Settings` | the dialog's settings and starts | the settings shown | `HttpServerProofs` |
| `Arguments` | decoding of form arguments | the client's encoding | `RequestProofs` |
| `Credentials` | name and password of a request; part of `Arguments` | the client's name and password | `RequestProofs` |
| `Pages` | the table of pages and its search | declarative "innermost" | `RequestProofs` |

The modules are layers of one system and are joined by what they take from each
other.  `HttpServer` takes a worker's thread as the steps that `PThread` details
(Start with its handshake, the tail after `_running` is lowered, join), and its
serving as one state that `Connection` details.  `Connection` takes the results
of ReadLine and SaveUpload as choices, which `LineReader`, `UploadForm` and
`UploadData` detail, and counts a response in its lines and rounds, whose way
into the socket `ResponseWriter` details; `Pages`, `Arguments` and `Credentials`
are the pure parts of the same request.  In `Connection` the file system is the
environment, free to change at any time; `FileStore` is the other view, of one
file and every connection that has to do with it.  `Settings` comes before
`HttpServer`: what a server is started with, not how it runs.
`LockRegistry` details the `Lock("handlers")` that a request does around
FindHandler, and `Pages` relies on `ChangesAlone` of `HttpServer` for a table
that does not change.

An operator whose comment begins with **Fault:** is not part of a
specification.  It is a plausible bug in the definition below it (a dropped
join, a flag lowered too early, a reset forgotten) and is there for the mutants
of `PROJECT.json`: with it in place of the definition the run must find its
property violated, which shows that the property depends on that code.

### PThread

The owner's calls are `Start` (`StartFail`, `StartCreate`, `StartPublish`:
pthread_create happens under `_local_lock`, and the thread waits for it in
`Handshake`), `Wait`, `End` (`EndCheck`, `EndCancel`, `Join`) and the destructor
(`DeleteUnstarted`, `Free`).  A thread goes prologue, run, exit handler, tail,
where the tail is the stretch in which SetRunning has lowered `_running` and
still uses the object.  Cancellation is deferred; how a thread leaves Run is in
`how`.  Two cases need the libraries' behaviour: `exitYields` says that OnExit
has a cancellation point, and a cancellation acted upon in an exit handler that
runs after a normal return loses that handler when pthread_cleanup_push is the
C macro (`LoseHandler`), while in C++ with glibc the same moment ends the
process.  A failed pthread_create may leave anything in `_tid` (`BadTid`).

### HttpServer

`gpc` follows OnStart, OnStop and OnClose of the dialog; `spc` follows
HttpSrv::Run (`begin`, `setup`, `accept`, `tls`, `reap`, `reapJoin`) and OnExit
(`stop`, `visit`, `stopJoin`); `wpc` each worker.  A worker in the model is a
connection, the HttpResponse that serves it and its thread; it is used again
when all three are gone.  `tasks` are the objects in memory, `clients` the list,
so that a dangling pointer in the list can be expressed.  `conn` has every socket
that is not closed, those that nobody will close among them: `unserved`, when
pthread_create fails after the accept, and `interrupted`, when the accept thread
is cancelled in SSL_accept.  A cancellation of the
accept thread in the join inside remove_if meets a destructor in C++, which
calls std::terminate: `aborted`.  `mutex` has the log mutex and the one around
readdir, and `yields`, chosen in `Init`, says under which of them there is a
cancellation point (queueing an event to the dialog, readdir), because that
depends on the libraries; a worker cancelled there abandons the mutex.

### Connection

`pc` follows Run and ReadRequest to the page handler and back.  `header` is the
member `_response_header` that outlives a request, `wire` what the client has
got of this response, `tmp` and `saved` the temporary file and what was renamed
into uploads/, `disk` what the file system has at the path now.  UploadPage takes
the name of the temporary file from the request's header fields, where SaveUpload
puts it, but which a client may have sent too (server.cpp 275): `tmp` is then
`named`.  The result of unlink is ignored, so after a failed UploadPage the file
may be gone or not.  Lengths are
counted in rounds of WriteFile's loop.  Failures of the peer, the disk and the
upload are choices; write results are ignored as in the code (`cut`).  A POST
without Content-Length reads an uninitialised variable: all three outcomes of it
are steps (`ReadBody`).

### LineReader and UploadData

Both read a stream that arrives in any segmentation, and whose sender may close
or be silent.  `LineReader` keeps the real bytes, of three kinds, because
FindEOL depends on them; `UploadData` keeps only positions, because all that
matters is where delimiters begin.  `nonblocking` is chosen in `Init`:
ClientAccept makes the socket non-blocking after a TLS handshake, and in a build
without SSL, but not on a plain connection of a build with SSL (srv_sock.cpp
178); there it depends on whether accept hands on the listener's mode, which
Linux does not.

### ResponseWriter and ByteStream

One response: `lines` of the header, each a call of WriteData, and a body that is
one call (WriteString) or one per chunk (WriteFile).  `pc` follows WriteData into
ExchangeData, where a write is tried (`write`) or waited for (`poll`, with the
`loops` that are left).  Bytes are named by their place in the response, `wire` is
what the client can read and `room` what the send buffer still takes.  None of the
callers looks at what WriteData returns, so a call that fails is followed by the
next one (`NextCall`), which waits again.  With TLS a piece is a record; one that
went out in part is `pending`, and SSL_write must be called with the same buffer
next.  After a timeout that is the next line or chunk instead, which OpenSSL
refuses (`SslWriteRefused`) or, when it lies in the same memory, takes for the
record that it keeps (`SameBuffer`): the old bytes go out and are counted as the
new ones.  `ByteStream` is what a client sees of all this.

### FileStore

One name under uploads/, with `Uploads` that are sent to it and `Gets` that ask
for it.  An upload's content is the upload itself and the number of pieces that
were `written`; what is `stored` is an upload, and `order` its place among those
that were renamed.  A write that fails (`short`) is not noticed, as in the code,
nor is an unlink that finds nothing.  A client keeps what it was last sent with
the date it was given, and may make its next request conditional on it; `Stat`
and `OpenAndSend` are two steps.  `cwd` is the working directory, in which
relative names of temporary files are looked up: `BrowseSelectFile` changes it,
and `Near` says from which directories rename reaches uploads/.  Clocks count
seconds.

### UploadForm

A form's lines are records: one that names a field, one that names the file, the
boundary, the empty line, or a text.  The client and SaveUpload take each step
together: the client makes up its next line (`Sends`, with `client` for where it
is in its form) and ReadLine reads it.  `place` says where SaveUpload calls
ReadLine next, and `tot_bytes` is counted as it does, two for each line's end,
whatever the client sent.  Values have several lines, any of which may look like
a field or the file; names may be empty; file names are made of an ordinary
character and both separators.  `ReadLineFails` covers a client that stops, and a
SaveUpload that looks for lines in the data of the file (`astray`).

### LockRegistry

One map from data to rwlocks with counts.  A call that takes `_glock` and gives
it back with cancellation disabled is one step, and what the call does with the
rwlock it found there is a later one (`it`).  Connections' addresses are used
again.  `Async` adds MinGW's asynchronous cancellation of the owner, which can
abandon `_glock` inside remove_plock.

### Settings

`widgets` has the dialog's values, `shown` what they were when the server that
runs was started.  CheckEnable limits what can be clicked and written: all names,
those of certificates too, are text that can be typed and cleared (`Write`), and
the choosers set some of them.  OnStart is three
actions, for the ways it can end: no CA file, files that do not load, or a
server that runs or cannot have its port.  SetSSL and UseCertificate are
operators on the socket's state, in the order in which OnStart calls them;
SetSSL leaves TLS on and the context in place also when it fails, and `contexts`
counts what was allocated.  SetRootDir goes to a relative root directory to find
out its absolute name, and back, which may fail unnoticed; that getcwd succeeds
is assumed.

### Arguments, Credentials and Pages

`Arguments` compares the arguments that the server decodes with those of the form
that the client has made, by both ways the server reads them.  The client composes
its form argument by argument (`Compose`), and `encoded` is what it sends.  A
character is its code; in what is sent 256 + c stands for the three characters
`%XX` that mean c.  A `%`, a `2` and a `2` in a text that was decoded once are three
characters, which Unescape takes for an escape when it decodes that text again.
`Tokens` gives what a loop over a TokenIterator gives as pairs of places, which
keep their order and need no recursion; the iterator is made from a C string, so a
NUL ends its text.  `Percent` is the loop over `%` in Unescape, said of all places
at once: which characters are kept, and what each becomes.

`Arguments` extends `Credentials`, which has the Authorization header of the same request:
Base64 on bytes, with its groups of three and four and the arithmetic in eight
bits, given byte by byte, and the split at the first colon.  `Pages` has the loop
of FindHandler over the ordered map, one entry a step, and compares what it finds
with a declarative definition.

## 3. What the runs check

| Run | States | Bounds |
|---|---|---|
| `pthread` | 48 069 | three kernel threads |
| `http_server` | 71 000 | two workers, reap above one client, two mutexes |
| `connection` | 103 208 | files of up to two chunks, offsets 0, 1 and 3 |
| `line_reader` | 260 910 | four bytes, buffer of three, timeout of two, one partial record |
| `upload_data` | 30 594 | two bytes of file, delimiter of two, buffer of three |
| `lock_registry` | 8 080 | two workers, two addresses, three rwlocks |
| `arguments` | 444 468 | up to seven characters sent, of six, names of one; user names and passwords of two of three bytes |
| `file_store` | 1 240 146 | two uploads, two connections, two directories of which one can rename, two seconds |
| `response_writer` | 36 990 | two lines, a body of seven, chunks of three, pieces of two, a send buffer of three, timeout of two |
| `settings` | 1 667 520 | one value besides the empty or built-in one of each text, two directories of which one has the folder |
| `upload_form` | 2 379 266 | two fields of three names, values of two lines, file names of three characters, of one in a value |
| `pages` | 2 214 387 | names of up to three of two letters, three pages |

**pthread.** Three threads are enough for an orphan (a second Start before the
first thread was joined), its successor, and one more.  `NoUseAfterFree`: after
the destructor only an orphan can still touch the object, and only in its last
read.  `RunningIsTrue`: the write lock in Start and the flag lowered last keep
the flag true, except in the `LoseHandler` case.  `JoinsOnce`: no handle is
joined twice.  `EndReturns`: a destructor does not hang.  `ImplementsTaskLife`:
begun once, ended once, freed when idle.

**http_server.** Two workers let one be finished, reaped or joined while the
other still serves or waits for a mutex; the threshold of one (20 in the code)
makes reaping happen with them.  `ChangesAlone` and `ButtonsTellTheTruth`
connect the dialog's knowledge with what the threads do.  `NoUseAfterFree` and
`SocketsOwned` are the ownership of objects and sockets over every failure and
cancellation: no worker touches its object after the deletion, the accept thread
visits none that was deleted, and the list has deleted ones only while OnExit goes
through it, until clear().  `SocketsOwned` states the two sockets that the code
leaks, until the process ends, as its exceptions: the one accepted for a thread
that pthread_create does not create (http_srv.cpp 253), and the one in whose
SSL_accept the accept thread is cancelled (srv_sock.cpp 155).  `StopReturns` and
`FinishedAreReaped` are the liveness.  `StopReturns` names its two exceptions,
which the model reaches: the process was ended in remove_if, or a mutex was
abandoned.

**connection.** Two chunks distinguish an empty file, one, and one in the middle
of which something happens; the offset 3 lies behind the end of every file.
`Framed`, `FieldsFit` and `ImplementsExchange` are about the response after this
one: length, fields and Connection must be right or the client gets out of step.
`FieldsFit` is about every response, and has two exceptions, the answers given
before the header object is cleared: 501, and 400 for an upload that SaveUpload
refuses (http_srv.cpp 1008, 1067).  They may have fields of the response before,
and close the connection.  `RefusedFirst`: without the right credentials nothing
is renamed into uploads/, and a GET, HEAD or POST gets one error page and is the
last of its connection; what it does leave is the temporary file of its upload,
which is received before anybody looks at the credentials.  `RequestEnds`
says that a request that was read comes to its end.

**line_reader.** A stream of four bytes over a buffer of three has lines that
are empty, split between CR and LF, followed by another, and too long.
`LineExact`, `FailsForCause`, `InTime` (less than twice the timeout, plus one for
each partial TLS record).

**upload_data.** With a delimiter of two and a buffer of three the delimiter
lies in every position across a buffer's end.  `SavedIsPayload` and
`RefusedForCause` hold but for one case, `hid`: recv gave the peek fewer bytes
than the delimiter needs.  Then a correct upload is refused or, if a form field
follows the file, stored with the bytes up to the next delimiter.  `BodyTaken`:
after an accepted upload the body has been read to its end, unless the client
stopped, so that nothing of it is taken for the next request; and no more was read
than the body, but for the buffer in which the delimiter begins, which is filled
without regard to Content-Length (http_srv.cpp 941, 965): a request that the client
sends without waiting for the answer may lose its beginning to it.

**lock_registry.** Two workers and two addresses: an address is used again while
the registry still has the dead connection's entry.  `RefsCounted`, `LockAlive`,
`ReleasedAtExit`, `DestroyReturns`.

**file_store.** Two uploads are enough for one that replaces another, in the same
second or not, and for one that is renamed between another connection's stat and
its open.  `AcceptedIsKept`: what was answered with 200 is in the file with all
that was read, or was replaced by a later one.  `TempsAccounted` lists every way
for a temporary file to stay behind: a refused upload, one for another page or
without credentials, a cancelled thread, and an upload that fails after the user
has chosen a file elsewhere, for then unlink misses it.  `FreshAnswer`: stat and
open apart, a client is never given, or told to keep, less than was stored when
it asked; the exception is a 304 after two uploads within one second.

**response_writer.** A body of seven is two full chunks and a short one, a chunk
is a full piece and a short one, and a buffer of three ends in the middle of a
second piece; so a record can be left over at every place of a call and meet a
call of the same, a smaller or a greater length.  `ImplementsByteStream`:
whatever is cut, kept and tried again, the client gets its bytes in order, none
twice, and all of them unless a write failed.  `InTime`: a client that reads
nothing holds a worker for one timeout per line and chunk, so the time grows
with the file. `ResponseEnds`, but on a blocking socket whose client does not
read.

**settings.** The user can click, choose, type into and clear what is enabled, in
any order, so a start can follow one
that failed at any point, with any other settings.  `ServesAsShown`: TLS,
certificate, CA, user and password are those shown, and one context is allocated
with TLS, none without.  `NotOpen`: with authentication enabled nobody is let in
without a certificate or a password, unless the user name is empty.
`RootAsShown`: the root directory, also a relative one after a chooser or another
start has changed directories; the exception is a start that could not change back,
from which on names are seen from where it left the process.

**upload_form.** `FormExact`: at the data, the count of bytes is the client's, if
its lines end with CR and LF; the file name has no directory; the arguments are
the fields, and the lines have been read to their end.  The exception is a value
one of whose later lines looks like a field or the file, since SaveUpload reads
one line of a value and looks at the next one: then it may take the wrong name,
or read on for lines in the data.  Two fields are enough for one that replaces
the other, and two lines for one that is looked at by mistake.

**arguments, pages.** `CredentialsExact`: the server lets in exactly those who
sent its user name and password; three bytes (a colon, a letter and 255) in
texts of up to two give Base64 groups of every length and colons in every place.
`ArgsExact` holds for every posted form, and for every query without an escaped
`&`, `=`, `?`, `%` or NUL: a query is unescaped before it is split and again
afterwards.  Seven characters are one argument with a value of up to five, which may
look like an escape, or two with values of two together, of which the second may
have the name of the first; and the six characters (NUL, space, `%`, `&`,
`+` and a digit) are those that are decoded in different ways: `+` stands for a
space in a posted form only, and `%` with two digits looks like an escape.  `InnermostFound` holds for every table; three pages are two nested
directories and a page, in every relation of prefixes.

Deadlock is checked in `line_reader`, where a call can always follow, in
`settings`, where the user can always do something, and in `pages`, where the
next request can always come.  In the others the system
may really stop, as the comment in each `.cfg` says.

No statement of the repository's documents, comments or tests was found to
disagree with the code, so there is no run that expects a violation.  What the
models show the code does not promise is stated as an exception in the property
concerned and listed among the hazards.

## 4. Fairness

* Threads that can take a step do (WF).  Nothing says that a client sends, that
  Run returns, or that a user clicks.
* A pending cancellation is acted upon (SF in `HttpServer` and `LockRegistry`, WF
  in `PThread`, where the thread is at a cancellation point all the time it is in
  Run): the accept thread polls for a second at a time, a worker comes back to a
  socket call or a 10 ms sleep.  Between two of these it may be in a stretch
  without one, hence SF.
* A TLS handshake ends (WF on the accept thread in `HttpServer`): it is a bounded
  number of reads, each with a receive timeout, if a long one (srv_sock.cpp 151).
  Until then nobody else is accepted and nothing is reaped.
* A mutex or rwlock that is free again and again is granted (SF).  The program
  takes the handlers' lock only to read; a reader-preferring rwlock under three
  or more workers, some of which wrote, would not justify it.
* A write goes on as long as it can (WF of `WriteData` in `ResponseWriter`), and
  time passes in poll.  Nothing says that the client reads.
* In `Connection` a read or write on a non-blocking socket returns within the
  timeout, which `InTime` of `LineReader` and of `ResponseWriter` bound; on a
  blocking one the peer is assumed not to stay silent, or deaf, for ever.
* `LineReader`, `UploadData`, `UploadForm`, `FileStore`, `Settings`, `Arguments`
  and `Pages` have safety properties only, and no fairness.

## 5. What is proved

Every invariant that a run checks is proved for all values of the constants that
the modules' `ASSUME`s allow, and so is the type correctness of every module but
`Arguments`, which states none, and the refinements `ImplementsTaskLife`,
`ImplementsServerSession`, `ImplementsExchange` and `ImplementsByteStream`.  The
number of threads, workers, connections and uploads, the lengths of buffers,
files, names and texts, the alphabets and `Async` are arbitrary in the proofs.

Some invariants are proved and not run, since they are steps of the arguments or
follow from stronger ones that are run: the type invariants, `OneExecution` of
`PThread`, `QuietWhenStopped` of `HttpServer`, and `SavedIsAccepted` of
`Connection`: a request renames into uploads/ its own accepted upload, or a file
that its header fields name, and only with the right credentials.  Others say more than the runs' properties do:

* `HeldByOne`: a mutex of `HttpServer` that is held has one holder, and only one
  with a cancellation point under it is ever left locked; `AbandonedForGood`, an
  action property: that one is never given to anybody again, which is why
  `StopReturns` has to name it.
* `OnlyForward` of `Connection`, an action property: from its first line every step
  of a request leads to a later stage or leaves less to be sent; the peer that
  leaves and files that change do not set it back.  This is the variant behind
  `RequestEnds`.
* `EndsWhatItJoins` of `PThread`: whoever the destructor joins was cancelled or has
  left Run.  `NoCircularWait` of `HttpServer`: so was every thread that a stop
  joins, and a mutex that somebody waits for is free, held by a worker that waits
  for nobody, or abandoned under a cancellation point.  `NoCircularLocks` of
  `LockRegistry`: the same of the table's lock.  Nobody waits in a circle, then;
  these are the safety halves of `EndReturns`, `StopReturns` and `DestroyReturns`,
  and hold for any number of threads.
* `ResponseInTime` of `ResponseWriter`: the time in poll is at most
  TimeOut * (2 * size + 1), whatever the client does.  `InTime` counts it by calls
  and by the bytes that the client makes room for, neither of which it bounds.
* `OneContext`: between two steps exactly the SSL_CTX in use is allocated.
* `DecodeEncode`: Base64 decodes what it has encoded, for every sequence of bytes;
  `CredentialsExact` is a consequence.

The assumptions say that null values are not members of the sets they are null
for and that bounds are naturals, positive where a length or a timeout is meant;
`LocksAssumption` says that there is memory for another rwlock.  Each proof is an
inductive invariant (`IInv`, or one named for its module), one lemma per action
that it is kept, and the properties as consequences.

| Proof module | Why the properties are not inductive, and what is added |
|---|---|
| `PThreadProofs` | That a Start meets nobody executing follows from the flag, which is right only because the handle names the one who executes (`OnlyTheHandle`, `UpWhileExecuting`); that the destructor frees with no thread left needs every tail to be named by the handle or orphaned (`TailsAccounted`). |
| `HttpServerProofs`: `HttpServer` | "Stopped means quiet" is what OnExit has done by its end; `Lists` says for each phase which objects are in memory, in the list and still to visit, `Threads` that an object outlives its thread, `Dialog` where the main thread is meanwhile. |
| `ConnectionProofs` | What a response is when it is complete depends on what was known when its header was made: `Known`, `Sending` (sent and left add up to what was announced), `Told` (Connection and the next step agree). |
| `LineReaderProofs` | What was taken in earlier rounds has no LF (`Busy`), and the clock without the current wait is less than one timeout per partial record (`Timing`). |
| `ResponseWriterProofs` | All that went out lies before the next byte that can go out, which is that of the pending record if there is one (`Sent`); a pending record is the current piece's, or belongs to a call that failed (`Kept`); the time in poll is that of calls that are over and of room the client made (`Spent`). The refinement follows because each step keeps this and sends a run of bytes behind the others. |
| `FileStoreProofs` | A client's date is that of an upload which was stored no later than the content it goes with (`Known`), the latest rename has the highest place (`Latest`), and a temporary file is where the thread looks for it until a chooser moved the process (`AtHand`). |
| `HttpServerProofs`: `Settings` | Each start begins by undoing what the one before it left, the dialog never shows a certificate asked for without TLS, and the process is where the user, or a start that could not change back, last took it; so what `shown` has is what the server was given (`SettingsIInv`). |
| `RequestProofs`: `UploadData` | What is saved is what was read, less the buffer, no delimiter was passed unless hidden, and what was read lies within the body or a buffer of what was saved (`Progress`). |
| `RequestProofs`: `Pages` | What the search has passed comes before what is left, and of the directories it has passed it remembers the innermost (`Looking`); two prefixes of one name are in the order of their lengths, and every set of names that is not empty has a first one, so the iterator always stands somewhere. |
| `RequestProofs`: `Credentials` | A group of three bytes survives the eight-bit arithmetic, whichever part of it was filled up; the groups of a text are independent, so what holds for one place holds for all.  The first colon of the text decoded is that of the text sent. |
| `RequestProofs`: `Arguments` | Each argument has a place in what is sent from which its name and value can be read (`Composed`); a text in which no `%` is left but the client's escapes is decoded one character at a time, so it keeps its separators' places, and its tokens are the arguments, one for one and in their order. |
| `RequestProofs`: `UploadForm` | While no later line of a value has looked like a field, client and SaveUpload are in step (`InStep`): where the one is says where the other is, and the arguments are the fields that were sent. |
| `LockRegistryProofs` | A worker that may use the handlers' lock has it plugged in until it was joined (`Plugged`, `Destroying`), so with `RefsCounted` the count is not zero. |

Only model-checked: the liveness properties `EndReturns`, `StopReturns`,
`FinishedAreReaped`, `RequestEnds`, `DestroyReturns` and `ResponseEnds`, since
fairness and ENABLED are out of the prover's reach.  What is proved about waiting,
above, is what they would need besides fairness, but for `FinishedAreReaped`.

## 6. What is left out

Of the threads and sockets: Detach, SetAutoDelete, LockPtr, LockGlobal and their
counterparts, datagrams, and connecting as a client, none of which the program
uses; the window between close and the second close of a descriptor; OnStop and
OnClose reading `_running` and cancelling as two steps; MinGW's asynchronous
cancellation, but in `LockRegistry`; SIGPIPE, which is blocked; TLS accessors and
OpenSSL's callbacks, which read from the library.

Of the requests: the page types AddFile and AddBin in `Connection` and the chunked
encoding of WriteBinary (no page of Server uses either); request targets that are
not in origin form; `x-httpsrv-*` header fields from clients, but for the name of a
temporary file, which `Connection` has and `FileStore` has not; a peer that sends for
ever; the text of the pages.  A POST without Content-Length reads an uninitialised
variable; all outcomes are steps of `Connection`, and there is nothing the code
promises about them, so no property is stated.  Client lines are taken to end with
CR LF in `UploadData`, as SaveUpload counts them; `UploadForm` has both endings.

Of the files: names that mkstemp has given before, clocks that go back, and files
put into uploads/ by somebody else, which `Connection` has.

Of the dialog: the address and the port, the log window and the layout.  Of
tools.cpp: conversions of addresses and text, and AES, pure functions that the
server does not call.

## 7. Plan

Done, in the order of what breaks most if it is wrong: the thread object, the
server's life, requests and responses, reading, locks, upload data, arguments and
pages; then the files that workers share, writing, the form before the file,
credentials, and the dialog's settings.  Next:

1. `UploadForm` and `UploadData` joined to one SaveUpload, with `tot_bytes` of the
   first as the start of the second.
2. `HttpServer`'s workers as instances of `TaskLife`.  A worker of the model is used
   again when its object is gone, so it is many tasks one after the other, and the
   mapping needs a history variable that numbers them.
3. Action properties: `_tid` changes only by Start and a join; a response's
   length, once announced, does not change.
