--------------------------- MODULE FileStoreProofs ---------------------------
(***************************************************************************)
(* Proofs about FileStore.  That a client is told of nothing older than    *)
(* what was stored when it asked rests on where a date comes from: every   *)
(* date that a client has is that of an upload which was stored before the *)
(* content it goes with, or is that content.                               *)
(***************************************************************************)
EXTENDS FileStore, TLAPS

\* The upload has been stored; it has its place in the order for ever.
Published(u) == order[u] > 0

\* How far an upload is, by its state.
Progress ==
    \A u \in Uploads :
        /\ pc[u] \in {"received", "unlink", "stored"} => written[u] = Pieces
        /\ pc[u] = "stored" <=> Published(u)
        /\ pc[u] \in {"new", "stored"} => u \notin temps
        /\ pc[u] = "failed" /\ u \in temps => u \in moved

\* Until the user chooses a file elsewhere, the temporary file of an upload is
\* where rename and unlink look for it.
AtHand ==
    \A u \in Uploads : pc[u] \in Active /\ u \notin moved => dir[u] = cwd

\* What is stored is the latest of the uploads that were.
Latest ==
    /\ stored # NoUpload => Published(stored)
    /\ \A u \in Uploads : order[u] <= Order(stored)

\* The date d is that of an upload that was stored no later than n.
Dated(d, n) == \E k \in Uploads : Published(k) /\ order[k] <= n /\ mtime[k] = d

Backed(c) == c # NoCopy => Published(c.of) /\ Dated(c.date, order[c.of])

\* What the clients and the connections know.
Informed(g) ==
    /\ Backed(asks[g].cond)
    /\ asks[g].since <= Order(stored)
    /\ asks[g].at = "open" =>
          stored # NoUpload /\ Dated(asks[g].seen, Order(stored))

Known == Backed(copy) /\ \A g \in Gets : Informed(g)

\* FreshAnswer for one connection.
Fresh(g) ==
    \/ Order(answer[g].of) >= answer[g].since
    \/ answer[g].code = 304 /\ SameSecond

IInv == TypeOK /\ Progress /\ AtHand /\ Latest /\ Known /\ FreshAnswer

-----------------------------------------------------------------------------
(* Types and orders. *)

LEMMA Orders ==
    ASSUME TypeOK
    PROVE  /\ \A u \in Uploads : order[u] \in Nat /\ Order(u) = order[u]
           /\ Order(NoUpload) = 0 /\ Order(stored) \in Nat
  BY FileStoreAssumption DEF TypeOK, Order

LEMMA Initially == Init => IInv
  <1> SUFFICES ASSUME Init PROVE IInv
    OBVIOUS
  <1>1. TypeOK
    <2>1. NoCopy \in Copies
      BY DEF Copies
    <2>2. asks \in [Gets -> [at : {"idle", "stat", "open"}, cond : Copies,
                             since : Nat, seen : Times]]
      BY <2>1, FileStoreAssumption DEF Init, NoAsk, Times
    <2> QED
      BY <2>1, <2>2, FileStoreAssumption DEF Init, TypeOK, Times, UploadStates, NoAnswer
  <1>2. Order(NoUpload) = 0
    BY DEF Order
  <1>3. Progress /\ AtHand /\ Latest
    BY <1>2 DEF Init, Progress, AtHand, Latest, Published, Active
  <1>4. Known
    BY <1>2 DEF Init, Known, Informed, Backed, NoAsk
  <1>5. FreshAnswer
    BY <1>2 DEF Init, FreshAnswer, NoAnswer
  <1> QED  BY <1>1, <1>3, <1>4, <1>5 DEF IInv

LEMMA TypeStep == TypeOK /\ Known /\ [Next]_vars => TypeOK'
  <1> SUFFICES ASSUME TypeOK, Known, [Next]_vars PROVE TypeOK'
    OBVIOUS
  <1> USE FileStoreAssumption
  <1>1. ASSUME NEW u \in Uploads, Upload(u) PROVE TypeOK'
    <2>1. /\ \A s : s \in UploadStates => [pc EXCEPT ![u] = s] \in [Uploads -> UploadStates]
          /\ clock \in Times /\ cwd \in Dirs
      BY DEF TypeOK
    <2>2. CASE CreateTemp(u)
      BY <2>1, <2>2 DEF CreateTemp, Goto, getvars, TypeOK, UploadStates
    <2>3. CASE WritePiece(u)
      <3>1. written'[u] \in 0..Pieces /\ written' = [written EXCEPT ![u] = written'[u]]
        BY <2>3 DEF WritePiece, TypeOK
      <3>2. written' \in [Uploads -> 0..Pieces]
        BY <3>1 DEF TypeOK
      <3>3. mtime' \in [Uploads -> Times] /\ short' \subseteq Uploads
        BY <2>1, <2>3 DEF WritePiece, TypeOK
      <3> QED  BY <2>3, <3>2, <3>3 DEF WritePiece, getvars, TypeOK
    <2>4. CASE Renamed(u)
      <3>1. Order(stored) + 1 \in Nat
        BY Orders
      <3>2. order' \in [Uploads -> Nat]
        BY <2>4, <3>1 DEF Renamed, TypeOK
      <3> QED  BY <2>1, <2>4, <3>2 DEF Renamed, Goto, getvars, TypeOK, UploadStates
    <2>5. CASE Unlink(u)
      BY <2>1, <2>5 DEF Unlink, Goto, getvars, TypeOK, UploadStates
    <2>6. CASE \/ UploadReceived(u) \/ UploadRefused(u) \/ NotForUploadPage(u)
               \/ RenameFails(u) \/ Cancelled(u)
      BY <2>1, <2>6 DEF UploadReceived, UploadRefused, NotForUploadPage, RenameFails,
                        Cancelled, Goto, getvars, TypeOK, UploadStates
    <2> QED  BY <1>1, <2>2, <2>3, <2>4, <2>5, <2>6 DEF Upload
  <1>2. ASSUME NEW g \in Gets, Get(g) PROVE TypeOK'
    <2> DEFINE Asks == [at : {"idle", "stat", "open"}, cond : Copies, since : Nat, seen : Times]
               Answers == [code : {0, 200, 304, 404}, of : Uploads \cup {NoUpload}, since : Nat]
    <2>1. Order(stored) \in Nat /\ NoCopy \in Copies /\ asks[g] \in Asks
      BY Orders DEF TypeOK, Copies
    <2>2. ASSUME NEW code \in {200, 304, 404}, NEW u \in Uploads \cup {NoUpload},
                 Answer(g, code, u)
          PROVE  asks' \in [Gets -> Asks] /\ answer' \in [Gets -> Answers]
      <3>1. [asks[g] EXCEPT !.at = "idle"] \in Asks
        BY <2>1
      <3>2. asks' = [asks EXCEPT ![g] = [asks[g] EXCEPT !.at = "idle"]]
        BY <2>2 DEF Answer, TypeOK
      <3>3. [code |-> code, of |-> u, since |-> asks[g].since] \in Answers
        BY <2>1
      <3> QED  BY <2>2, <3>1, <3>2, <3>3 DEF Answer, TypeOK
    <2>3. CASE Ask(g)
      <3>1. PICK c \in {copy, NoCopy} :
               asks' = [asks EXCEPT ![g] =
                          [at |-> "stat", cond |-> c, since |-> Order(stored), seen |-> 0]]
        BY <2>3 DEF Ask
      <3>2. [at |-> "stat", cond |-> c, since |-> Order(stored), seen |-> 0] \in Asks
        BY <2>1 DEF TypeOK, Times
      <3>3. NoAnswer \in Answers
        BY DEF NoAnswer
      <3>4. asks' \in [Gets -> Asks] /\ answer' \in [Gets -> Answers]
        BY <2>3, <3>1, <3>2, <3>3 DEF Ask, TypeOK
      <3> QED  BY <2>3, <3>4 DEF Ask, filevars, TypeOK
    <2>4. CASE Stat(g)
      <3>1. asks' \in [Gets -> Asks] /\ answer' \in [Gets -> Answers]
        <4>1. CASE stored = NoUpload
          BY <2>2, <2>4, <4>1 DEF Stat
        <4>2. CASE stored # NoUpload /\ asks[g].cond # NoCopy /\ asks[g].cond.date = mtime[stored]
          <5>1. asks[g].cond.of \in Uploads
            BY <2>1, <4>2 DEF Copies
          <5> QED  BY <2>2, <2>4, <4>2, <5>1 DEF Stat
        <4>3. CASE /\ stored # NoUpload
                   /\ ~(asks[g].cond # NoCopy /\ asks[g].cond.date = mtime[stored])
          <5>1. mtime[stored] \in Times
            BY <4>3 DEF TypeOK
          <5>2. [asks[g] EXCEPT !.at = "open", !.seen = mtime[stored]] \in Asks
            BY <2>1, <5>1
          <5>3. asks' = [asks EXCEPT ![g] = [asks[g] EXCEPT !.at = "open", !.seen = mtime[stored]]]
            BY <2>4, <4>3 DEF Stat, TypeOK
          <5> QED  BY <2>4, <4>3, <5>2, <5>3 DEF Stat, TypeOK
        <4> QED  BY <4>1, <4>2, <4>3
      <3> QED  BY <2>4, <3>1 DEF Stat, filevars, TypeOK
    <2>5. CASE OpenAndSend(g)
      <3>1. asks' \in [Gets -> Asks] /\ answer' \in [Gets -> Answers]
        BY <2>2, <2>5 DEF OpenAndSend, TypeOK
      <3>2. copy' \in Copies
        BY <2>1, <2>5 DEF OpenAndSend, TypeOK, Copies, Known, Informed
      <3> QED  BY <2>5, <3>1, <3>2 DEF OpenAndSend, filevars, TypeOK
    <2> QED  BY <1>2, <2>3, <2>4, <2>5 DEF Get
  <1>3. CASE BrowseSelectFile
    BY <1>3 DEF BrowseSelectFile, getvars, TypeOK
  <1>4. CASE Tick
    BY <1>4 DEF Tick, filevars, getvars, TypeOK, Times
  <1>5. CASE UNCHANGED vars
    BY <1>5 DEF vars, filevars, getvars, TypeOK
  <1> QED  BY <1>1, <1>2, <1>3, <1>4, <1>5 DEF Next

-----------------------------------------------------------------------------
(* Uploads. *)

\* An upload that has been stored keeps its place and its date.
LEMMA Keeps ==
    ASSUME TypeOK, Progress, [Next]_vars
    PROVE  /\ \A k \in Uploads :
                 Published(k) => order'[k] = order[k] /\ mtime'[k] = mtime[k]
           /\ Order(stored) <= Order(stored)'
           /\ stored # NoUpload => stored' # NoUpload
  <1>1. ASSUME NEW u \in Uploads, CreateTemp(u) \/ WritePiece(u)
        PROVE  /\ \A k \in Uploads : Published(k) => mtime'[k] = mtime[k]
               /\ UNCHANGED <<order, stored>>
    <2>1. ~Published(u)
      BY <1>1 DEF CreateTemp, WritePiece, Goto, Progress
    <2>2. \A k \in Uploads : k # u => mtime'[k] = mtime[k]
      BY <1>1 DEF CreateTemp, WritePiece, TypeOK
    <2> QED  BY <1>1, <2>1, <2>2 DEF CreateTemp, WritePiece
  <1>2. ASSUME NEW u \in Uploads, Renamed(u)
        PROVE  /\ \A k \in Uploads : Published(k) => order'[k] = order[k]
               /\ mtime' = mtime
               /\ stored' = u /\ order'[u] = Order(stored) + 1
    <2>1. ~Published(u)
      BY <1>2 DEF Renamed, Goto, Progress
    <2> QED  BY <1>2, <2>1 DEF Renamed, TypeOK
  <1>3. CASE UNCHANGED <<order, stored, mtime>>
    BY <1>3, Orders DEF Order
  <1>4. ASSUME NEW u \in Uploads, CreateTemp(u) \/ WritePiece(u)
        PROVE  Order(stored) <= Order(stored)'
    BY <1>1, <1>4, Orders DEF Order
  <1>5. ASSUME NEW u \in Uploads, Renamed(u)
        PROVE  /\ Order(stored) <= Order(stored)'
               /\ stored' # NoUpload
    BY <1>2, <1>5, Orders, FileStoreAssumption DEF Order
  <1>6. \/ \E u \in Uploads : CreateTemp(u) \/ WritePiece(u)
        \/ \E u \in Uploads : Renamed(u)
        \/ UNCHANGED <<order, stored, mtime>>
    BY DEF Next, Upload, Get, UploadReceived, UploadRefused, NotForUploadPage,
           RenameFails, Unlink, Cancelled, Ask, Stat, OpenAndSend, BrowseSelectFile,
           Tick, vars, filevars
  <1>7. CASE \E u \in Uploads : CreateTemp(u) \/ WritePiece(u)
    BY <1>1, <1>4, <1>7
  <1>8. CASE \E u \in Uploads : Renamed(u)
    BY <1>2, <1>5, <1>8
  <1> QED  BY <1>3, <1>6, <1>7, <1>8

LEMMA UploadsStep ==
    ASSUME TypeOK, Progress, AtHand, Latest, [Next]_vars
    PROVE  Progress' /\ AtHand' /\ Latest'
  <1> USE DEF Active
  <1>1. ASSUME NEW u \in Uploads, Upload(u)
        PROVE  Progress' /\ AtHand' /\ Latest'
    <2>1. CASE CreateTemp(u)
      <3>1. Latest'
        BY <2>1 DEF CreateTemp, Latest, Published, Order
      <3> QED  BY <2>1, <3>1 DEF CreateTemp, Goto, TypeOK, Progress, AtHand, Published
    <2>2. CASE WritePiece(u)
      <3>1. Latest'
        BY <2>2 DEF WritePiece, Latest, Published, Order
      <3>2. Progress'
        BY <2>2 DEF WritePiece, TypeOK, Progress, Published
      <3> QED  BY <2>2, <3>1, <3>2 DEF WritePiece, AtHand
    <2>3. CASE \/ UploadReceived(u) \/ UploadRefused(u) \/ NotForUploadPage(u)
               \/ RenameFails(u) \/ Cancelled(u)
      <3>1. UNCHANGED <<cwd, dir, written, temps, moved, stored, order>>
        BY <2>3 DEF UploadReceived, UploadRefused, NotForUploadPage, RenameFails, Cancelled
      <3>2. Latest'
        BY <3>1 DEF Latest, Published, Order
      <3>3. /\ pc[u] \in Active /\ pc' = [pc EXCEPT ![u] = pc'[u]]
            /\ pc'[u] \in {"received", "refused", "elsewhere", "unlink", "cancelled"}
            /\ pc'[u] \in {"received", "unlink"} => written[u] = Pieces
        BY <2>3 DEF UploadReceived, UploadRefused, NotForUploadPage, RenameFails,
                    Cancelled, Goto, TypeOK, Progress
      <3>4. Progress'
        BY <3>1, <3>3 DEF TypeOK, Progress, Published
      <3> QED  BY <3>1, <3>2, <3>3, <3>4 DEF TypeOK, AtHand
    <2>4. CASE Renamed(u)
      <3>1. Order(stored) \in Nat /\ order[u] \in Nat
        BY Orders
      <3>2. order' = [order EXCEPT ![u] = Order(stored) + 1] /\ stored' = u
        BY <2>4 DEF Renamed
      <3>3. Order(stored)' = Order(stored) + 1
        BY <3>2, FileStoreAssumption DEF Order, TypeOK
      <3>4. Latest'
        <4>1. ASSUME NEW k \in Uploads PROVE order'[k] <= Order(stored)'
          BY <3>1, <3>2, <3>3, Orders DEF Latest, TypeOK
        <4> QED  BY <3>1, <3>2, <3>3, <4>1 DEF Latest, Published, TypeOK
      <3>5. Progress'
        <4>1. order'[u] > 0 /\ \A k \in Uploads : k # u => order'[k] = order[k]
          BY <3>1, <3>2 DEF TypeOK
        <4> QED  BY <2>4, <4>1 DEF Renamed, Goto, TypeOK, Progress, Published
      <3> QED  BY <2>4, <3>4, <3>5 DEF Renamed, Goto, TypeOK, AtHand
    <2>5. CASE Unlink(u)
      <3>1. Latest'
        BY <2>5 DEF Unlink, Latest, Published, Order
      <3>2. u \in temps' => u \in moved
        BY <2>5 DEF Unlink, Goto, AtHand
      <3>3. Progress'
        BY <2>5, <3>2 DEF Unlink, Goto, TypeOK, Progress, Published
      <3> QED  BY <2>5, <3>1, <3>3 DEF Unlink, Goto, TypeOK, AtHand
    <2> QED  BY <1>1, <2>1, <2>2, <2>3, <2>4, <2>5 DEF Upload
  <1>2. CASE BrowseSelectFile
    <2>1. Latest'
      BY <1>2 DEF BrowseSelectFile, Latest, Published, Order
    <2> QED  BY <1>2, <2>1 DEF BrowseSelectFile, Progress, AtHand, Published
  <1>3. CASE UNCHANGED <<cwd, filevars>>
    BY <1>3 DEF filevars, Progress, AtHand, Latest, Published, Order
  <1>4. \/ \E u \in Uploads : Upload(u)
        \/ BrowseSelectFile
        \/ UNCHANGED <<cwd, filevars>>
    BY DEF Next, Get, Ask, Stat, OpenAndSend, Tick, vars
  <1> QED  BY <1>1, <1>2, <1>3, <1>4

-----------------------------------------------------------------------------
(* Clients. *)

\* Dates stay dates of uploads that were stored.
LEMMA DatedKept ==
    ASSUME TypeOK, Progress, [Next]_vars, NEW d, NEW n \in Nat, NEW m \in Nat, n <= m,
           Dated(d, n)
    PROVE  Dated(d, m)'
  <1>1. PICK k \in Uploads : Published(k) /\ order[k] <= n /\ mtime[k] = d
    BY DEF Dated
  <1>2. order'[k] = order[k] /\ mtime'[k] = mtime[k]
    BY <1>1, Keeps
  <1>3. order[k] \in Nat
    BY Orders
  <1> QED  BY <1>1, <1>2, <1>3 DEF Dated, Published

LEMMA BackedKept ==
    ASSUME TypeOK, Progress, [Next]_vars, NEW c \in Copies, Backed(c)
    PROVE  Backed(c)'
  <1> SUFFICES ASSUME c # NoCopy PROVE Published(c.of)' /\ Dated(c.date, order[c.of])'
    BY DEF Backed
  <1>1. c.of \in Uploads /\ Published(c.of) /\ Dated(c.date, order[c.of])
    BY DEF Backed, Copies
  <1>2. order'[c.of] = order[c.of] /\ order[c.of] \in Nat
    BY <1>1, Keeps, Orders
  <1>3. PICK k \in Uploads : Published(k) /\ order[k] <= order[c.of] /\ mtime[k] = c.date
    BY <1>1 DEF Dated
  <1>4. order'[k] = order[k] /\ mtime'[k] = mtime[k]
    BY <1>3, Keeps
  <1> QED  BY <1>1, <1>2, <1>3, <1>4 DEF Dated, Published

\* What a connection knows stays true as long as the connection does nothing.
LEMMA InformedKept ==
    ASSUME TypeOK, TypeOK', Progress, [Next]_vars, NEW g \in Gets,
           Informed(g), asks'[g] = asks[g]
    PROVE  Informed(g)'
  <1>1. PICK c \in Copies, since \in Nat, d \in Times :
           c = asks[g].cond /\ since = asks[g].since /\ d = asks[g].seen
    <2>1. asks[g] \in [at : {"idle", "stat", "open"}, cond : Copies, since : Nat, seen : Times]
      BY DEF TypeOK
    <2>2. asks[g].cond \in Copies /\ asks[g].since \in Nat /\ asks[g].seen \in Times
      BY <2>1
    <2> QED  BY <2>2
  <1>2. PICK n \in Nat, m \in Nat : n = Order(stored) /\ m = Order(stored)' /\ n <= m
    <2>1. Order(stored) \in Nat /\ Order(stored)' \in Nat
      BY DEF TypeOK, Order
    <2> QED  BY <2>1, Keeps
  <1>3. Backed(c) /\ since <= n
    BY <1>1, <1>2 DEF Informed
  <1>4. Backed(c)'
    BY <1>3, BackedKept
  <1>5. Backed(asks[g].cond)'
    BY <1>1, <1>4 DEF Backed, Dated, Published
  <1>6. (asks[g].since <= Order(stored))'
    BY <1>1, <1>2, <1>3
  <1>7. ASSUME (asks[g].at = "open")'
        PROVE  (stored # NoUpload /\ Dated(asks[g].seen, Order(stored)))'
    <2>1. stored # NoUpload /\ Dated(d, n)
      BY <1>1, <1>2, <1>7 DEF Informed
    <2>2. Dated(d, m)'
      BY <1>2, <2>1, DatedKept
    <2>3. Dated(asks[g].seen, Order(stored))'
      BY <1>1, <1>2, <2>2 DEF Dated, Published
    <2> QED  BY <2>1, <2>3, Keeps
  <1> QED  BY <1>5, <1>6, <1>7 DEF Informed

\* Two uploads of one second stay so.
LEMMA SameSecondKept ==
    ASSUME TypeOK, Progress, [Next]_vars, SameSecond
    PROVE  SameSecond'
  <1>1. PICK u \in Uploads, v \in Uploads :
           u # v /\ Published(u) /\ Published(v) /\ mtime[u] = mtime[v]
    BY DEF SameSecond, Published
  <1> QED  BY <1>1, Keeps DEF SameSecond, Published

\* An answer that was given stays right.
LEMMA FreshKept ==
    ASSUME TypeOK, TypeOK', Progress, [Next]_vars, NEW g \in Gets,
           Fresh(g), answer'[g] = answer[g]
    PROVE  Fresh(g)'
  <1>1. PICK u \in Uploads \cup {NoUpload}, since \in Nat :
           u = answer[g].of /\ since = answer[g].since
    BY DEF TypeOK
  <1>2. Order(u) \in Nat /\ Order(u)' \in Nat
    BY FileStoreAssumption DEF Order, TypeOK
  <1>3. Order(u) <= Order(u)'
    <2>1. CASE u = NoUpload
      BY <1>2, <2>1 DEF Order
    <2>2. CASE u \in Uploads /\ Published(u)
      BY <1>2, <2>2, Keeps DEF Order
    <2>3. CASE u \in Uploads /\ ~Published(u)
      BY <1>2, <2>3 DEF Order, Published, TypeOK
    <2> QED  BY <2>1, <2>2, <2>3
  <1>4. CASE Order(answer[g].of) >= answer[g].since
    <2>1. Order(u)' >= since
      BY <1>1, <1>2, <1>3, <1>4
    <2> QED  BY <1>1, <2>1 DEF Fresh, Order
  <1>5. CASE answer[g].code = 304 /\ SameSecond
    BY <1>5, SameSecondKept DEF Fresh
  <1> QED  BY <1>4, <1>5 DEF Fresh

\* A step of a connection, which changes nothing that is stored.
LEMMA GetStep ==
    ASSUME IInv, TypeOK', [Next]_vars, NEW g \in Gets, Get(g)
    PROVE  Backed(copy)' /\ Informed(g)' /\ Fresh(g)'
  <1>1. /\ UNCHANGED <<stored, order, mtime>> /\ g \in DOMAIN asks /\ g \in DOMAIN answer
        /\ asks[g].cond \in Copies /\ copy \in Copies
    BY DEF IInv, Get, Ask, Stat, OpenAndSend, filevars, TypeOK
  <1>2. Backed(copy) /\ Informed(g) /\ TypeOK /\ Latest
    BY DEF IInv, Known
  <1>3. /\ Order(stored)' = Order(stored) /\ Order(stored) \in Nat /\ SameSecond' = SameSecond
        /\ NoCopy.of = NoUpload /\ Order(NoUpload) = 0 /\ asks[g].since \in Nat
    BY <1>1, <1>2, Orders DEF Order, SameSecond, NoCopy, TypeOK
  <1>4. \A c : Backed(c) => (asks'[g].cond = c => Backed(asks[g].cond)')
    BY <1>1 DEF Backed, Dated, Published
  <1>5. CASE Ask(g)
    <2>1. PICK c \in {copy, NoCopy} :
             asks'[g] = [at |-> "stat", cond |-> c, since |-> Order(stored), seen |-> 0]
      BY <1>1, <1>5 DEF Ask
    <2>2. Backed(c)
      BY <1>2, <2>1 DEF Backed
    <2>3. Informed(g)'
      BY <1>3, <1>4, <2>1, <2>2 DEF Informed
    <2>4. answer'[g] = NoAnswer
      BY <1>1, <1>5 DEF Ask
    <2>5. Fresh(g)'
      BY <2>4 DEF Fresh, NoAnswer, Order
    <2>6. Backed(copy)'
      BY <1>1, <1>2, <1>5 DEF Ask, Backed, Dated, Published
    <2> QED  BY <2>3, <2>5, <2>6
  <1>6. ASSUME NEW code, NEW u, Answer(g, code, u) PROVE Informed(g)'
    <2>1. /\ asks'[g].cond = asks[g].cond /\ asks'[g].since = asks[g].since
          /\ asks'[g].at = "idle"
      BY <1>1, <1>2, <1>6 DEF Answer, TypeOK
    <2>2. Backed(asks[g].cond)'
      BY <1>2, <1>4, <2>1 DEF Informed
    <2> QED  BY <1>2, <1>3, <2>1, <2>2 DEF Informed
  <1>7. ASSUME NEW code, NEW u, Answer(g, code, u)
        PROVE  /\ answer'[g].code = code /\ answer'[g].of = u
               /\ answer'[g].since = asks[g].since
    BY <1>1, <1>7 DEF Answer
  <1>8. CASE Stat(g)
    <2>1. Backed(copy)'
      BY <1>1, <1>2, <1>8 DEF Stat, Backed, Dated, Published
    <2>2. CASE stored = NoUpload
      <3>1. Answer(g, 404, NoUpload)
        BY <1>8, <2>2 DEF Stat
      <3>2. asks[g].since <= 0
        BY <1>2, <1>3, <2>2 DEF Informed
      <3>3. answer'[g].of = NoUpload /\ answer'[g].since = asks[g].since
        BY <1>7, <3>1
      <3>4. Fresh(g)'
        BY <1>3, <3>2, <3>3 DEF Fresh, Order
      <3> QED  BY <1>6, <2>1, <3>1, <3>4
    <2>3. CASE stored # NoUpload /\ asks[g].cond # NoCopy /\ asks[g].cond.date = mtime[stored]
      <3> DEFINE c == asks[g].cond
      <3>1. Answer(g, 304, c.of)
        BY <1>8, <2>3 DEF Stat
      <3>2. /\ answer'[g].code = 304 /\ answer'[g].of = c.of
            /\ answer'[g].since = asks[g].since
        BY <1>7, <3>1
      <3>3. c.of \in Uploads /\ Published(c.of) /\ Dated(c.date, order[c.of])
        BY <1>1, <1>2, <2>3 DEF Informed, Backed, Copies
      <3>4. PICK k \in Uploads : Published(k) /\ order[k] <= order[c.of] /\ mtime[k] = c.date
        BY <3>3 DEF Dated
      <3>5. stored \in Uploads /\ Published(stored)
        BY <1>2, <2>3 DEF Latest, TypeOK
      <3>6. ASSUME k = stored PROVE Fresh(g)'
        <4>1. order[c.of] >= asks[g].since
          BY <1>2, <1>3, <3>3, <3>4, <3>5, <3>6, Orders DEF Informed
        <4>2. Order(answer[g].of)' = order[c.of]
          BY <1>1, <3>2, <3>3, FileStoreAssumption DEF Order
        <4> QED  BY <3>2, <4>1, <4>2 DEF Fresh
      <3>7. ASSUME k # stored PROVE Fresh(g)'
        <4>1. SameSecond'
          BY <1>3, <2>3, <3>4, <3>5, <3>7 DEF SameSecond, Published
        <4> QED  BY <3>2, <4>1 DEF Fresh
      <3>8. Fresh(g)'
        BY <3>6, <3>7
      <3> QED  BY <1>6, <2>1, <3>1, <3>8
    <2>4. CASE /\ stored # NoUpload
               /\ ~(asks[g].cond # NoCopy /\ asks[g].cond.date = mtime[stored])
      <3>1. /\ asks' = [asks EXCEPT ![g] = [@ EXCEPT !.at = "open", !.seen = mtime[stored]]]
            /\ answer' = answer
        BY <1>8, <2>4 DEF Stat
      <3>2. /\ asks'[g].cond = asks[g].cond /\ asks'[g].since = asks[g].since
            /\ asks'[g].seen = mtime[stored]
        BY <1>2, <3>1 DEF TypeOK
      <3>3. Backed(asks[g].cond)'
        BY <1>2, <1>4, <3>2 DEF Informed
      <3>4. Dated(mtime[stored], Order(stored))
        <4>1. stored \in Uploads /\ Published(stored)
          BY <1>2, <2>4 DEF Latest, TypeOK
        <4> QED  BY <4>1, <1>2, Orders DEF Dated
      <3>5. Dated(asks[g].seen, Order(stored))'
        BY <1>1, <1>3, <3>2, <3>4 DEF Dated, Published
      <3>6. Informed(g)'
        BY <1>1, <1>2, <1>3, <2>4, <3>2, <3>3, <3>5 DEF Informed
      <3>7. Fresh(g)'
        BY <1>1, <1>3, <3>1 DEF IInv, FreshAnswer, Fresh, Order
      <3> QED  BY <2>1, <3>6, <3>7
    <2> QED  BY <2>2, <2>3, <2>4
  <1>9. CASE OpenAndSend(g)
    <2>1. /\ Answer(g, 200, stored)
          /\ copy' = [of |-> stored, date |-> asks[g].seen]
      BY <1>9 DEF OpenAndSend
    <2>2. stored \in Uploads /\ Published(stored) /\ Dated(asks[g].seen, Order(stored))
      BY <1>2, <1>9 DEF OpenAndSend, Informed, Latest, TypeOK
    <2>3. Dated(asks[g].seen, order[stored])
      BY <1>2, <2>2, Orders
    <2>4. Backed(copy)'
      BY <1>1, <2>1, <2>2, <2>3 DEF Backed, Dated, Published
    <2>5. answer'[g].of = stored /\ answer'[g].since = asks[g].since
      BY <1>7, <2>1
    <2>6. Fresh(g)'
      BY <1>1, <1>2, <1>3, <2>5 DEF Fresh, Informed, Order
    <2> QED  BY <1>6, <2>1, <2>4, <2>6
  <1> QED  BY <1>5, <1>8, <1>9 DEF Get

LEMMA ClientsStep ==
    ASSUME IInv, TypeOK', [Next]_vars
    PROVE  Known' /\ FreshAnswer'
  <1>1. /\ TypeOK /\ Progress /\ Backed(copy)
        /\ \A g \in Gets : Informed(g) /\ Fresh(g)
    BY DEF IInv, Known, FreshAnswer, Fresh
  <1>2. ASSUME NEW g \in Gets, Get(g) PROVE Known' /\ \A h \in Gets : Fresh(h)'
    <2>1. Backed(copy)' /\ Informed(g)' /\ Fresh(g)'
      BY <1>2, GetStep
    <2>2. ASSUME NEW h \in Gets, h # g PROVE Informed(h)' /\ Fresh(h)'
      <3>1. asks'[h] = asks[h] /\ answer'[h] = answer[h]
        BY <1>1, <1>2, <2>2 DEF Get, Ask, Stat, OpenAndSend, Answer, TypeOK
      <3> QED  BY <1>1, <3>1, InformedKept, FreshKept
    <2> QED  BY <2>1, <2>2 DEF Known
  <1>3. ASSUME UNCHANGED getvars PROVE Known' /\ \A h \in Gets : Fresh(h)'
    <2>1. PICK c \in Copies : c = copy
      BY <1>1 DEF TypeOK
    <2>2. Backed(c)'
      BY <1>1, <2>1, BackedKept
    <2>3. Backed(copy)'
      BY <1>3, <2>1, <2>2 DEF getvars, Backed, Dated, Published
    <2>4. ASSUME NEW h \in Gets PROVE Informed(h)' /\ Fresh(h)'
      BY <1>1, <1>3, InformedKept, FreshKept DEF getvars
    <2> QED  BY <2>3, <2>4 DEF Known
  <1>4. \/ \E g \in Gets : Get(g)
        \/ UNCHANGED getvars
    BY DEF Next, Upload, CreateTemp, WritePiece, UploadReceived, UploadRefused,
           NotForUploadPage, Renamed, RenameFails, Unlink, Cancelled, BrowseSelectFile,
           Tick, vars
  <1>5. Known' /\ \A h \in Gets : Fresh(h)'
    BY <1>2, <1>3, <1>4
  <1> QED  BY <1>5 DEF FreshAnswer, Fresh

-----------------------------------------------------------------------------
(* The theorems. *)

\* The inductive invariant holds of every file, every number of uploads, of
\* connections and of directories.
THEOREM Invariance == Spec => []IInv
  <1>1. IInv /\ [Next]_vars => IInv'
    <2> SUFFICES ASSUME IInv, [Next]_vars PROVE IInv'
      OBVIOUS
    <2>1. TypeOK'
      BY TypeStep DEF IInv
    <2>2. Progress' /\ AtHand' /\ Latest'
      BY UploadsStep DEF IInv
    <2>3. Known' /\ FreshAnswer'
      BY <2>1, ClientsStep
    <2> QED  BY <2>1, <2>2, <2>3 DEF IInv
  <1> QED  BY Initially, <1>1, PTL DEF Spec

\* The state of the store, the uploads and the downloads keeps its type.
THEOREM TypeCorrect == Spec => []TypeOK
  <1>1. IInv => TypeOK
    BY DEF IInv
  <1> QED  BY Invariance, <1>1, PTL

\* An accepted upload is complete and in its place, until one that was renamed
\* after it takes it.
THEOREM Accepted == Spec => []AcceptedIsKept
  <1>1. IInv => AcceptedIsKept
    <2> SUFFICES ASSUME IInv, NEW u \in Uploads, pc[u] = "stored"
                 PROVE  /\ written[u] = Pieces
                        /\ order[u] \in 1..Order(stored)
                        /\ u \notin temps
      BY DEF AcceptedIsKept
    <2> QED  BY Orders DEF IInv, Progress, Latest, Published
  <1> QED  BY Invariance, <1>1, PTL

\* Temporary files are left behind only on the ways out that are named.
THEOREM Accounted == Spec => []TempsAccounted
  <1>1. IInv => TempsAccounted
    BY DEF IInv, TypeOK, Progress, TempsAccounted, UploadStates, Active
  <1> QED  BY Invariance, <1>1, PTL

\* No answer is about a file older than what was stored when its request came,
\* but a 304 after two uploads in one second.
THEOREM FreshAnswers == Spec => []FreshAnswer
  <1>1. IInv => FreshAnswer
    BY DEF IInv
  <1> QED  BY Invariance, <1>1, PTL
=============================================================================
