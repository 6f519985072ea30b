----------------------------- MODULE FileStore -----------------------------
(***************************************************************************)
(* One file under uploads/, as several workers replace it (SaveUpload,     *)
(* common/http_srv.cpp, and UploadPage, server.cpp) and send it (WriteFile,*)
(* common/http_srv.cpp), while the dialog lets the user choose files: the  *)
(* chooser changes the working directory of the process (wxFD_CHANGE_DIR,  *)
(* main.cpp), and the names of temporary files are relative to it.         *)
(*                                                                         *)
(* The content of a file is the upload that it comes from, and how many of *)
(* its pieces were written.  Time is in seconds, as dates in HTTP are: a   *)
(* file's date is the second of the last write to it, and rename keeps it. *)
(* mkstemp's names are taken to differ from each other.                    *)
(***************************************************************************)
EXTENDS Integers, FiniteSets

CONSTANTS
    Uploads,    \* uploads to the same name, each in a request of its own
    NoUpload,
    Gets,       \* connections on which a client asks for the file
    Dirs,       \* where the file chooser can leave the process
    Near,       \* those in the file system of the root directory: rename
                \* cannot move a file out of another one
    Pieces,     \* the buffers that an upload is written in
    MaxTime     \* bound: the clock

ASSUME FileStoreAssumption ==
    /\ NoUpload \notin Uploads
    /\ Near \subseteq Dirs
    /\ Pieces \in Nat /\ MaxTime \in Nat

VARIABLES
    clock,      \* in seconds
    cwd,        \* the working directory of the process
    pc,         \* of each upload: see UploadStates
    dir,        \* where its temporary file was created
    written,    \* the pieces that were read and given to write()
    mtime,      \* the date of its file
    temps,      \* the uploads whose temporary file exists
    short,      \* the uploads of which a write() failed: nobody looks
    moved,      \* the uploads during which the working directory changed
    stored,     \* the upload that uploads/ holds under the name
    order,      \* the place of an upload among those that were renamed, or 0
    copy,       \* what the client has kept of the file
    asks,       \* of each connection: see NoAsk
    answer      \* the answer to its latest request

filevars == <<pc, dir, written, mtime, temps, short, moved, stored, order>>
getvars == <<copy, asks, answer>>
vars == <<clock, cwd, filevars, getvars>>

UploadStates ==
    {"new", "receive",  \* SaveUpload
     "received",        \* ReadRequest, up to rename in UploadPage
     "unlink",          \* UploadPage, after a rename that failed
     "stored",          \* answered with 200
     "failed",          \* answered with 400 or 500
     "refused",         \* SaveUpload returned false
     "elsewhere",       \* for another page, or without credentials
     "cancelled"}       \* the thread was

\* In these states a worker has the upload in hand.
Active == {"receive", "received", "unlink"}

Order(u) == IF u = NoUpload THEN 0 ELSE order[u]

\* The content of a kept copy, and its Last-Modified.
NoCopy == [of |-> NoUpload, date |-> -1]
\* A request: with the copy that it is conditional upon (If-Modified-Since is
\* its date), and what had been stored when it was sent.
NoAsk == [at |-> "idle", cond |-> NoCopy, since |-> 0, seen |-> 0]
NoAnswer == [code |-> 0, of |-> NoUpload, since |-> 0]

Init ==
    /\ clock = 0 /\ cwd \in Dirs
    /\ pc = [u \in Uploads |-> "new"]
    /\ dir = [u \in Uploads |-> cwd]
    /\ written = [u \in Uploads |-> 0]
    /\ mtime = [u \in Uploads |-> 0]
    /\ temps = {} /\ short = {} /\ moved = {}
    /\ stored = NoUpload /\ order = [u \in Uploads |-> 0]
    /\ copy = NoCopy
    /\ asks = [g \in Gets |-> NoAsk]
    /\ answer = [g \in Gets |-> NoAnswer]

-----------------------------------------------------------------------------
(* Uploads. *)

Goto(u, from, to) == pc[u] = from /\ pc' = [pc EXCEPT ![u] = to]

\* mkstemp("upload.XXXXXX")
CreateTemp(u) ==
    /\ Goto(u, "new", "receive")
    /\ dir' = [dir EXCEPT ![u] = cwd]
    /\ mtime' = [mtime EXCEPT ![u] = clock]
    /\ temps' = temps \cup {u}
    /\ UNCHANGED <<clock, cwd, written, short, moved, stored, order, getvars>>

\* A buffer is written; if the disk is full it is not, and the loop goes on.
WritePiece(u) ==
    /\ pc[u] = "receive" /\ written[u] < Pieces
    /\ written' = [written EXCEPT ![u] = @ + 1]
    /\ \/ mtime' = [mtime EXCEPT ![u] = clock] /\ UNCHANGED short
       \/ short' = short \cup {u} /\ UNCHANGED mtime
    /\ UNCHANGED <<clock, cwd, pc, dir, temps, moved, stored, order, getvars>>

\* Fault: the result of the loop is not looked at.
UploadReceivedAnyway(u) ==
    /\ Goto(u, "receive", "received")
    /\ UNCHANGED <<clock, cwd, dir, written, mtime, temps, short, moved, stored,
                   order, getvars>>

\* The delimiter was found: rc is true.
UploadReceived(u) ==
    /\ Goto(u, "receive", "received")
    /\ written[u] = Pieces
    /\ UNCHANGED <<clock, cwd, dir, written, mtime, temps, short, moved, stored,
                   order, getvars>>

\* The client stops sending, or its body is not as it should be: SaveUpload
\* returns false, and the file stays.
UploadRefused(u) ==
    /\ Goto(u, "receive", "refused")
    /\ UNCHANGED <<clock, cwd, dir, written, mtime, temps, short, moved, stored,
                   order, getvars>>

\* RequestReceived or FindHandler leads elsewhere than to UploadPage.
NotForUploadPage(u) ==
    /\ Goto(u, "received", "elsewhere")
    /\ UNCHANGED <<clock, cwd, dir, written, mtime, temps, short, moved, stored,
                   order, getvars>>

\* rename finds the temporary file in the working directory.
Renamed(u) ==
    /\ Goto(u, "received", "stored")
    /\ cwd = dir[u] /\ cwd \in Near
    /\ stored' = u
    /\ order' = [order EXCEPT ![u] = Order(stored) + 1]
    /\ temps' = temps \ {u}
    /\ UNCHANGED <<clock, cwd, dir, written, mtime, short, moved, getvars>>

\* Fault: the function returns before unlink.
RenameFailsForGood(u) ==
    /\ Goto(u, "received", "failed")
    /\ UNCHANGED <<clock, cwd, dir, written, mtime, temps, short, moved, stored,
                   order, getvars>>

\* It does not, or the destination is not to be had, or the upload has a name
\* that ends in a backslash, of which nothing is left.
RenameFails(u) ==
    /\ Goto(u, "received", "unlink")
    /\ UNCHANGED <<clock, cwd, dir, written, mtime, temps, short, moved, stored,
                   order, getvars>>

\* unlink looks in the working directory, too.
Unlink(u) ==
    /\ Goto(u, "unlink", "failed")
    /\ temps' = IF cwd = dir[u] THEN temps \ {u} ELSE temps
    /\ UNCHANGED <<clock, cwd, dir, written, mtime, short, moved, stored, order,
                   getvars>>

\* The server is stopped.
Cancelled(u) ==
    /\ pc[u] \in Active
    /\ pc' = [pc EXCEPT ![u] = "cancelled"]
    /\ UNCHANGED <<clock, cwd, dir, written, mtime, temps, short, moved, stored,
                   order, getvars>>

-----------------------------------------------------------------------------
(* Downloads. *)

\* The client asks, conditionally or not.
Ask(g) ==
    /\ asks[g].at = "idle"
    /\ \E c \in {copy, NoCopy} :
          asks' = [asks EXCEPT ![g] =
                     [at |-> "stat", cond |-> c, since |-> Order(stored), seen |-> 0]]
    /\ answer' = [answer EXCEPT ![g] = NoAnswer]
    /\ UNCHANGED <<clock, cwd, filevars, copy>>

Answer(g, code, content) ==
    /\ asks' = [asks EXCEPT ![g].at = "idle"]
    /\ answer' = [answer EXCEPT ![g] =
                    [code |-> code, of |-> content, since |-> asks[g].since]]

\* Fault: a copy that is not older than the file is taken for the file.
StatNotNewer(g) ==
    /\ asks[g].at = "stat"
    /\ IF stored = NoUpload
          THEN Answer(g, 404, NoUpload)
       ELSE IF asks[g].cond # NoCopy /\ asks[g].cond.date >= mtime[stored]
          THEN Answer(g, 304, asks[g].cond.of)
       ELSE /\ asks' = [asks EXCEPT ![g] = [@ EXCEPT !.at = "open", !.seen = mtime[stored]]]
            /\ UNCHANGED answer
    /\ UNCHANGED <<clock, cwd, filevars, copy>>

\* stat, and the comparison with If-Modified-Since: the dates must be equal.
Stat(g) ==
    /\ asks[g].at = "stat"
    /\ IF stored = NoUpload
          THEN Answer(g, 404, NoUpload)
       ELSE IF asks[g].cond # NoCopy /\ asks[g].cond.date = mtime[stored]
          THEN Answer(g, 304, asks[g].cond.of)
       ELSE /\ asks' = [asks EXCEPT ![g] = [@ EXCEPT !.at = "open", !.seen = mtime[stored]]]
            /\ UNCHANGED answer
    /\ UNCHANGED <<clock, cwd, filevars, copy>>

\* The file is opened and sent, with the date that stat gave: what is opened
\* stays what it is when another upload is renamed over it.
OpenAndSend(g) ==
    /\ asks[g].at = "open"
    /\ Answer(g, 200, stored)
    /\ copy' = [of |-> stored, date |-> asks[g].seen]
    /\ UNCHANGED <<clock, cwd, filevars>>

-----------------------------------------------------------------------------

\* The user selects a file in another directory.
BrowseSelectFile ==
    /\ \E d \in Dirs \ {cwd} : cwd' = d
    /\ moved' = moved \cup {u \in Uploads : pc[u] \in Active}
    /\ UNCHANGED <<clock, pc, dir, written, mtime, temps, short, stored, order,
                   getvars>>

Tick ==
    /\ clock < MaxTime
    /\ clock' = clock + 1
    /\ UNCHANGED <<cwd, filevars, getvars>>

Upload(u) ==
    \/ CreateTemp(u) \/ WritePiece(u) \/ UploadReceived(u) \/ UploadRefused(u)
    \/ NotForUploadPage(u) \/ Renamed(u) \/ RenameFails(u) \/ Unlink(u)
    \/ Cancelled(u)

Get(g) == Ask(g) \/ Stat(g) \/ OpenAndSend(g)

Next ==
    \/ \E u \in Uploads : Upload(u)
    \/ \E g \in Gets : Get(g)
    \/ BrowseSelectFile \/ Tick

Spec == Init /\ [][Next]_vars

-----------------------------------------------------------------------------
(* Properties. *)

Times == 0..MaxTime
Copies == [of : Uploads, date : Times] \cup {NoCopy}

TypeOK ==
    /\ clock \in Times /\ cwd \in Dirs
    /\ pc \in [Uploads -> UploadStates] /\ dir \in [Uploads -> Dirs]
    /\ written \in [Uploads -> 0..Pieces] /\ mtime \in [Uploads -> Times]
    /\ temps \subseteq Uploads /\ short \subseteq Uploads /\ moved \subseteq Uploads
    /\ stored \in Uploads \cup {NoUpload} /\ order \in [Uploads -> Nat]
    /\ copy \in Copies
    /\ asks \in [Gets -> [at : {"idle", "stat", "open"}, cond : Copies,
                          since : Nat, seen : Times]]
    /\ answer \in [Gets -> [code : {0, 200, 304, 404},
                            of : Uploads \cup {NoUpload}, since : Nat]]

\* An upload that was answered with 200 has all its pieces in the file, unless
\* a write failed, and the file is there under its name, or one that was renamed
\* after it, whoever uploaded to the same name meanwhile.
AcceptedIsKept ==
    \A u \in Uploads : pc[u] = "stored" =>
        /\ written[u] = Pieces
        /\ order[u] \in 1..Order(stored)
        /\ u \notin temps

\* When its request is over, a temporary file is left behind only by an upload
\* that SaveUpload refused, that went to another page, whose thread was
\* cancelled, or during which the user chose a file in another directory.
TempsAccounted ==
    \A u \in temps :
        \/ pc[u] \in Active \cup {"refused", "elsewhere", "cancelled"}
        \/ pc[u] = "failed" /\ u \in moved

\* Two uploads of which the last write fell into one second.
SameSecond ==
    \E u, v \in Uploads :
        u # v /\ order[u] > 0 /\ order[v] > 0 /\ mtime[u] = mtime[v]

\* What a client is told to use, be it sent (200), its own copy (304) or none
\* (404), is not older than what was stored when it asked, although stat and
\* open are two steps and dates are not in the order of the renames.  Dates
\* have no fractions: a 304 can be wrong after two uploads in one second.
FreshAnswer ==
    \A g \in Gets :
        \/ Order(answer[g].of) >= answer[g].since
        \/ answer[g].code = 304 /\ SameSecond
=============================================================================
