-------------------------------- MODULE Pages --------------------------------
(***************************************************************************)
(* The table of pages (common/http_srv.cpp): AddText, AddBin, AddFile and  *)
(* AddDir fill it in Setup, and FindHandler searches it, entry after entry *)
(* in the order of a std::map, for every request.  AddText and its like    *)
(* lock the table through a label that HttpSrv::Run plugs in only after    *)
(* Setup, and so without effect: a search finds the table complete because *)
(* no worker exists before that (see HttpServer).                          *)
(*                                                                         *)
(* A name is a sequence of numbers, ordered as the strings are.            *)
(***************************************************************************)
EXTENDS Integers, SequencesExt

CONSTANTS
    Letters,    \* characters of a name
    MaxName,    \* bound: the length of a name
    MaxPages    \* bound: the entries of the table

ASSUME PagesAssumption ==
    Letters \subseteq Nat /\ MaxName \in Nat /\ MaxPages \in Nat

VARIABLES
    _page_handlers, \* the type of each page that was added
    page,           \* _request_page
    rest,           \* the entries from handler on
    handler,        \* the iterator, End behind the last entry
    found,          \* the last directory that the page is in, or End
    search          \* "setup", "ready", "looking", "found"

pages == <<_page_handlers, page, rest, handler, found, search>>

Names == SeqOf(Letters, MaxName)
Types == {"TypeText", "TypeBin", "TypeFile", "TypeDir"}
End == <<-1>>

\* a comes before b in the map.
Before(a, b) ==
    \/ IsStrictPrefix(a, b)
    \/ \E i \in DOMAIN a \cap DOMAIN b :
          a[i] < b[i] /\ \A j \in 1..i - 1 : a[j] = b[j]

PagesInit ==
    /\ _page_handlers = <<>>
    /\ page = <<>> /\ rest = {} /\ handler = End /\ found = End
    /\ search = "setup"

\* AddText, AddBin, AddFile or AddDir: a page that is there already stays.
Add(name, type) ==
    /\ search = "setup"
    /\ Cardinality(DOMAIN _page_handlers \cup {name}) <= MaxPages
    /\ _page_handlers' =
          [n \in DOMAIN _page_handlers \cup {name} |->
              IF n \in DOMAIN _page_handlers THEN _page_handlers[n] ELSE type]
    /\ UNCHANGED <<page, rest, handler, found, search>>

SetupDone ==
    /\ search = "setup"
    /\ search' = "ready"
    /\ UNCHANGED <<_page_handlers, page, rest, handler, found>>

\* The iterator stands before the entries of a set.
StandsBefore(names) ==
    /\ rest' = names
    /\ IF names = {} THEN handler' = End
       ELSE handler' \in names /\ \A n \in names \ {handler'} : Before(handler', n)

\* FindHandler, for the next request.
FindHandler ==
    /\ search \in {"ready", "found"}
    /\ page' \in Names
    /\ StandsBefore(DOMAIN _page_handlers)
    /\ found' = End /\ search' = "looking"
    /\ UNCHANGED _page_handlers

\* ++handler
StepOn == StandsBefore(rest \ {handler}) /\ UNCHANGED <<_page_handlers, page, search>>

IsDir(name) == _page_handlers[name] = "TypeDir"

\* Fault: the search stops at the first directory.
PassDirFirst ==
    /\ search = "looking" /\ rest # {}
    /\ IsDir(handler) /\ IsStrictPrefix(handler, page)
    /\ found' = handler /\ search' = "found"
    /\ UNCHANGED <<_page_handlers, page, rest, handler>>

\* A directory that the page is in is remembered: a later one is further in.
PassDir ==
    /\ search = "looking" /\ rest # {}
    /\ IsDir(handler) /\ IsStrictPrefix(handler, page)
    /\ found' = handler
    /\ StepOn

\* The page itself ends the loop.
MeetPage ==
    /\ search = "looking" /\ rest # {}
    /\ handler = page /\ ~IsDir(handler)
    /\ search' = "found"
    /\ UNCHANGED <<_page_handlers, page, rest, handler, found>>

PassOther ==
    /\ search = "looking" /\ rest # {}
    /\ IF IsDir(handler) THEN ~IsStrictPrefix(handler, page) ELSE handler # page
    /\ UNCHANGED found
    /\ StepOn

\* Nothing of that name: the directory remembered, if there is one.
EndOfPages ==
    /\ search = "looking" /\ rest = {}
    /\ handler' = found /\ search' = "found"
    /\ UNCHANGED <<_page_handlers, page, rest, found>>

PagesNext ==
    \/ \E name \in Names, type \in Types : Add(name, type)
    \/ SetupDone
    \/ FindHandler \/ PassDir \/ MeetPage \/ PassOther \/ EndOfPages

PagesSpec == PagesInit /\ [][PagesNext]_pages

-----------------------------------------------------------------------------
(* Properties. *)

PagesTypeOK ==
    /\ DOMAIN _page_handlers \subseteq Names
    /\ page \in Names /\ rest \subseteq DOMAIN _page_handlers
    /\ handler \in DOMAIN _page_handlers \cup {End}
    /\ found \in DOMAIN _page_handlers \cup {End}
    /\ search \in {"setup", "ready", "looking", "found"}

\* The directories of the table that the page is in.
Above(p) == {n \in DOMAIN _page_handlers : IsDir(n) /\ IsStrictPrefix(n, p)}

IsPage(n) == n \in DOMAIN _page_handlers /\ ~IsDir(n)

\* A request gets the page of its name, or else the innermost directory that
\* it is in, whatever else is in the table and in whichever order it came: the
\* order of the map puts an outer directory before an inner one.
InnermostFound ==
    search = "found" =>
        IF IsPage(page) THEN handler = page
        ELSE IF Above(page) = {} THEN handler = End
        ELSE handler \in Above(page) /\ \A n \in Above(page) : Len(n) <= Len(handler)
=============================================================================
