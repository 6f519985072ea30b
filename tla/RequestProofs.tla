--------------------------- MODULE RequestProofs ---------------------------
(***************************************************************************)
(* Proofs about what a request brings, one part after the other:           *)
(*                                                                         *)
(* - UploadData: until the delimiter is found, the file has everything     *)
(*   that was read but the buffer under examination, and the delimiter has *)
(*   not been passed, unless a short peek hid it;                          *)
(* - Pages: of the directories that the page is in, the search has passed  *)
(*   those that come before the iterator, and remembers the last of them;  *)
(* - Credentials, as Arguments uses it: Base64, group by group, and what   *)
(*   the first colon makes of the text;                                    *)
(* - Arguments: where each argument of the form lies in what is sent, and  *)
(*   that splitting and unescaping this text gives them back, whatever     *)
(*   their number and their lengths;                                       *)
(* - UploadForm: where the client is when SaveUpload is at a place, and    *)
(*   what that has of the form by then.                                    *)
(***************************************************************************)
EXTENDS UploadData, UploadForm, Arguments, Pages, SequenceTheorems, FiniteSetTheorems,
        WellFoundedInduction, TLAPS

\* Nothing has made the code pass the delimiter by.
NothingHidden == ~hid /\ Honest

Layout ==
    /\ payload \in Nat
    /\ delims \in {{payload}, {payload, payload + Delim + Gap}}

\* What has been written and what has been passed.
Progress ==
    /\ pc = "read" => saved = pos /\ (NothingHidden => pos <= payload)
    /\ pc = "peek" => /\ saved = pos - bytes
                      /\ NothingHidden => pos - bytes <= payload
    /\ pc \in {"drain", "accepted"} => saved \in delims /\ (NothingHidden => saved = payload)
    /\ pc = "refused" => (NothingHidden => pos <= payload)
    /\ pc = "accepted" => pos >= content_len \/ quiet \/ closed
    /\ pc \in {"drain", "accepted"} => pos <= content_len \/ pos <= saved + BufLen

IInv == TypeOK /\ Layout /\ Progress

-----------------------------------------------------------------------------
(* The body. *)

\* The body goes on behind its first delimiter.
LEMMA Body ==
    ASSUME Layout
    PROVE  Length \in Nat /\ Length >= payload + Delim + Trailer
  <1> DEFINE last == CHOOSE e \in delims : \A d \in delims : d <= e
  <1>1. \E e \in delims : \A d \in delims : d <= e
    BY UploadDataAssumption DEF Layout
  <1>2. last \in delims /\ \A d \in delims : d <= last
    BY <1>1
  <1>3. last \in Nat /\ payload <= last
    BY <1>2, UploadDataAssumption DEF Layout
  <1> HIDE DEF last
  <1>4. Length = last + Delim + Trailer
    BY DEF Length, last
  <1> QED  BY <1>3, <1>4, UploadDataAssumption DEF Layout

\* The first delimiter is found as soon as it lies in what is looked at.
LEMMA FirstFound ==
    ASSUME Layout, NEW k \in Nat, NEW d \in Found(k),
           pos \in Nat, bytes \in Nat, pos - bytes <= payload
    PROVE  payload \in Found(k)
  BY UploadDataAssumption DEF Layout, Found

\* What Write does, whatever the peek returned.
LEMMA Written ==
    ASSUME IInv, pc = "peek", NEW k \in 0..Delim, Write(k)
    PROVE  /\ pc' \in {"read", "drain"}
           /\ saved' \in 0..pos
           /\ pc' = "read" => saved' = pos /\ Found(k) = {}
           /\ pc' = "drain" => /\ saved' \in delims
                               /\ pos <= saved' + BufLen
                               /\ pos - bytes <= payload => saved' = payload
  <1>1. /\ saved = pos - bytes /\ saved \in Nat
        /\ pos \in Nat /\ bytes \in 0..BufLen /\ k \in Nat
    BY UploadDataAssumption DEF IInv, Progress, TypeOK
  <1>2. CASE Found(k) = {}
    BY <1>1, <1>2 DEF Write
  <1>3. CASE Found(k) # {}
    <2>1. PICK d \in Found(k) : /\ \A e \in Found(k) : d <= e
                               /\ saved' = saved + (d - (pos - bytes))
      BY <1>3 DEF Write
    <2>2. pc' = "drain"
      BY <1>3 DEF Write
    <2>3. d \in delims /\ d \in Nat /\ d + Delim <= pos + k /\ pos - bytes <= d
      BY UploadDataAssumption DEF Found, IInv, Layout
    <2>4. saved' = d
      BY <1>1, <2>1, <2>3
    <2>5. ASSUME pos - bytes <= payload PROVE d = payload
      <3>1. payload \in Found(k)
        BY <1>1, <2>5, FirstFound DEF IInv
      <3>2. d <= payload /\ payload <= d
        BY <2>1, <2>3, <3>1, UploadDataAssumption DEF IInv, Layout
      <3> QED  BY <2>3, <3>2 DEF IInv, Layout
    <2> QED  BY <1>1, <2>2, <2>3, <2>4, <2>5, UploadDataAssumption
  <1> QED  BY <1>2, <1>3

-----------------------------------------------------------------------------
(* The invariant. *)

LEMMA Initially == Init => IInv
  <1> SUFFICES ASSUME Init PROVE IInv
    OBVIOUS
  <1>1. Layout
    BY UploadDataAssumption DEF Init, Layout
  <1>2. Length \in Nat /\ Length >= payload + Delim + Trailer
    BY <1>1, Body
  <1>3. TypeOK
    <2>1. payload \in delims
      BY DEF Init
    <2>2. content_len \in Nat
      BY <1>1, <1>2, UploadDataAssumption DEF Init, Layout
    <2>3. sent \in Nat
      BY <1>2, UploadDataAssumption DEF Init
    <2>4. /\ closed \in BOOLEAN /\ nonblocking \in BOOLEAN
          /\ hid \in BOOLEAN /\ quiet \in BOOLEAN
      BY DEF Init
    <2>5. arrived \in 0..sent /\ pos \in 0..arrived /\ bytes \in 0..BufLen /\ saved \in 0..pos
      BY <2>3, UploadDataAssumption DEF Init
    <2> QED  BY <2>1, <2>2, <2>3, <2>4, <2>5 DEF Init, TypeOK, States
  <1>4. Progress
    BY <1>1 DEF Init, Progress, Layout
  <1> QED  BY <1>1, <1>3, <1>4 DEF IInv

LEMMA ReadKeeps == IInv /\ Read => IInv'
  <1> SUFFICES ASSUME IInv, Read PROVE IInv'
    OBVIOUS
  <1> USE DEF IInv, Read, Available, peer
  <1>1. PICK n \in 1..BufLen : pos + n <= arrived /\ bytes' = n /\ pos' = pos + n
    OBVIOUS
  <1>2. TypeOK'
    BY <1>1, UploadDataAssumption DEF TypeOK, States
  <1>3. Layout'
    BY DEF Layout
  <1>4. Progress'
    BY <1>1, UploadDataAssumption DEF Progress, TypeOK, NothingHidden, Honest, Length
  <1> QED  BY <1>2, <1>3, <1>4

LEMMA ReadFailsKeeps == IInv /\ ReadFails => IInv'
  <1> SUFFICES ASSUME IInv, ReadFails PROVE IInv'
    OBVIOUS
  <1> USE DEF IInv, ReadFails, NothingComes, peer
  <1>1. TypeOK'
    BY DEF TypeOK, States
  <1>2. Layout'
    BY DEF Layout
  <1>3. Progress'
    BY DEF Progress, NothingHidden, Honest, Length
  <1> QED  BY <1>1, <1>2, <1>3

\* The four ways of Peek in one: the peek gave k bytes, and when it hides no
\* delimiter of an honest body, the delimiter lies behind the buffer or in
\* what is looked at.
LEMMA Peeked ==
    ASSUME IInv, Peek
    PROVE  \E k \in 0..Delim :
              /\ Write(k)
              /\ pos + k <= arrived
              /\ hid' \in BOOLEAN /\ quiet' \in BOOLEAN
              /\ (~hid' /\ Honest) => /\ ~hid
                                      /\ \/ pos <= payload
                                         \/ pos - bytes > payload
                                         \/ payload + Delim <= pos + k
  <1> USE DEF IInv
  <1>1. pc = "peek" /\ pos \in Nat /\ bytes \in Nat /\ content_len \in Nat
    BY DEF Peek, TypeOK
  <1>2. payload \in delims /\ payload \in Nat
    BY DEF Layout
  <1>3. ASSUME NEW k \in 0..Delim, ~Cut(k)
        PROVE  pos <= payload \/ pos - bytes > payload \/ payload + Delim <= pos + k
    BY <1>1, <1>2, <1>3, UploadDataAssumption DEF Cut
  <1>0. 0 \in 0..Delim
    BY UploadDataAssumption
  <1>4. CASE pos >= content_len
    <2>1. Write(0) /\ hid' = hid /\ quiet' = quiet
      BY <1>1, <1>4 DEF Peek
    <2>2. Honest => payload + Delim <= pos
      BY <1>1, <1>2, <1>4, Body, UploadDataAssumption DEF Honest
    <2> QED  BY <1>0, <1>1, <2>1, <2>2 DEF TypeOK
  <1>5. CASE pos < content_len
    <2>1. CASE \E k \in Available(Delim) :
                  Write(k) /\ hid' = (hid \/ Cut(k)) /\ UNCHANGED quiet
      <3>1. PICK k \in Available(Delim) :
                    Write(k) /\ hid' = (hid \/ Cut(k)) /\ UNCHANGED quiet
        BY <2>1
      <3>2. k \in 0..Delim /\ pos + k <= arrived
        BY <1>1, UploadDataAssumption DEF Available
      <3> QED  BY <1>3, <3>1, <3>2 DEF TypeOK
    <2>2. CASE NothingComes /\ Write(0) /\ hid' = (hid \/ Cut(0))
      <3>1. pos + 0 <= arrived /\ hid' \in BOOLEAN /\ quiet' \in BOOLEAN
        BY <1>1, <2>2 DEF TypeOK, NothingComes
      <3>2. ~hid' => ~hid /\ ~Cut(0)
        BY <2>2
      <3> QED  BY <1>0, <1>3, <2>2, <3>1, <3>2
    <2> QED  BY <1>5, <2>1, <2>2 DEF Peek
  <1> QED  BY <1>1, <1>4, <1>5

LEMMA PeekKeeps == IInv /\ Peek => IInv'
  <1> SUFFICES ASSUME IInv, Peek PROVE IInv'
    OBVIOUS
  <1>1. /\ pc = "peek" /\ pos \in Nat /\ bytes \in Nat /\ saved = pos - bytes
        /\ NothingHidden => pos - bytes <= payload
    BY DEF Peek, IInv, TypeOK, Progress
  <1>2. UNCHANGED <<peer, arrived, closed, pos, bytes>>
    BY DEF Peek
  <1>3. PICK k \in 0..Delim :
           /\ Write(k)
           /\ pos + k <= arrived
           /\ hid' \in BOOLEAN /\ quiet' \in BOOLEAN
           /\ (~hid' /\ Honest) => /\ ~hid
                                   /\ \/ pos <= payload
                                      \/ pos - bytes > payload
                                      \/ payload + Delim <= pos + k
    BY Peeked
  <1>4. /\ pc' \in {"read", "drain"}
        /\ saved' \in 0..pos
        /\ pc' = "read" => saved' = pos /\ Found(k) = {}
        /\ pc' = "drain" => /\ saved' \in delims
                            /\ pos <= saved' + BufLen
                            /\ pos - bytes <= payload => saved' = payload
    BY <1>1, <1>3, Written
  <1>5. Honest' = Honest
    BY <1>2 DEF Honest, Length, peer
  <1>6. ASSUME pc' = "read", NothingHidden' PROVE pos <= payload
    <2>1. pos - bytes <= payload
      BY <1>1, <1>3, <1>5, <1>6 DEF NothingHidden
    <2>2. ~(payload + Delim <= pos + k)
      BY <1>4, <1>6, <2>1 DEF IInv, Layout, Found
    <2> QED  BY <1>1, <1>3, <1>5, <1>6, <2>1, <2>2 DEF NothingHidden, IInv, Layout
  <1>7. ASSUME pc' = "drain", NothingHidden' PROVE saved' = payload
    BY <1>1, <1>3, <1>4, <1>5, <1>7 DEF NothingHidden
  <1>8. TypeOK'
    BY <1>1, <1>2, <1>3, <1>4 DEF IInv, TypeOK, peer, States
  <1>9. Layout'
    BY <1>2 DEF IInv, Layout, peer
  <1>10. Progress'
    BY <1>2, <1>4, <1>6, <1>7 DEF Progress, peer
  <1> QED  BY <1>8, <1>9, <1>10 DEF IInv

LEMMA DrainKeeps == IInv /\ Drain => IInv'
  <1> SUFFICES ASSUME IInv, Drain PROVE IInv'
    OBVIOUS
  <1> USE DEF IInv, Drain, Available, NothingComes, peer
  <1>1. TypeOK'
    BY UploadDataAssumption DEF TypeOK, States
  <1>2. Layout'
    BY DEF Layout
  <1>3. Progress'
    BY UploadDataAssumption DEF Progress, NothingHidden, Honest, Length, TypeOK
  <1> QED  BY <1>1, <1>2, <1>3

LEMMA PeerKeeps == IInv /\ (Arrive \/ PeerCloses) => IInv'
  <1> SUFFICES ASSUME IInv, Arrive \/ PeerCloses PROVE IInv'
    OBVIOUS
  <1> USE DEF IInv, Arrive, PeerCloses, peer
  <1>1. TypeOK'
    <2>1. closed' \in BOOLEAN
      BY DEF TypeOK
    <2>2. arrived' \in 0..sent /\ pos \in 0..arrived'
      BY DEF TypeOK
    <2> QED  BY <2>1, <2>2 DEF TypeOK
  <1>2. Layout'
    BY DEF Layout
  <1>3. Progress'
    BY DEF Progress, NothingHidden, Honest, Length
  <1> QED  BY <1>1, <1>2, <1>3

\* The invariant of the loop that saves an upload (http_srv.cpp, SaveUpload).
THEOREM Invariance == Spec => []IInv
  <1>1. Init => IInv
    BY Initially
  <1>2. IInv /\ [Next]_vars => IInv'
    <2>1. IInv /\ UNCHANGED vars => IInv'
      BY DEF IInv, TypeOK, Layout, Progress, NothingHidden, Honest, Length, vars, peer
    <2> QED
      BY <2>1, ReadKeeps, ReadFailsKeeps, PeekKeeps, DrainKeeps, PeerKeeps
         DEF Next, SaveUpload
  <1> QED  BY <1>1, <1>2, PTL DEF Spec

\* The state of the loop keeps its type: in particular it never writes more
\* than it has read.
THEOREM TypeCorrect == Spec => []TypeOK
  <1>1. IInv => TypeOK
    BY DEF IInv
  <1> QED  BY <1>1, Invariance, PTL

\* For files, delimiters and buffers of every length: an accepted upload is
\* saved as it was sent, unless a short peek hid the delimiter.
THEOREM SavedExactly == Spec => []SavedIsPayload
  <1>1. IInv => SavedIsPayload
    BY DEF IInv, Progress, NothingHidden, SavedIsPayload
  <1> QED  BY <1>1, Invariance, PTL

\* A complete upload is refused only when a short peek hid the delimiter.
THEOREM RefusedRightly == Spec => []RefusedForCause
  <1>1. IInv => RefusedForCause
    BY UploadDataAssumption DEF IInv, TypeOK, Layout, Progress, NothingHidden, RefusedForCause
  <1> QED  BY <1>1, Invariance, PTL

\* After an accepted upload nothing of the body is left for the next request,
\* unless the client stopped; and no more than the body was read, but for one
\* buffer that begins no later than the delimiter.
THEOREM Whole == Spec => []BodyTaken
  <1>1. IInv => BodyTaken
    BY DEF IInv, Progress, BodyTaken
  <1> QED  BY <1>1, Invariance, PTL

-----------------------------------------------------------------------------
(***************************************************************************)
(* Pages.  The loop of FindHandler, at an entry of the table: what it has  *)
(* passed comes before what is left, and of the directories that it has    *)
(* passed and the page is in, it remembers the innermost.                  *)
(***************************************************************************)

Passed == DOMAIN _page_handlers \ rest

\* handler stands before the entries that are left.
Stands ==
    IF rest = {} THEN handler = End
    ELSE handler \in rest /\ \A n \in rest \ {handler} : Before(handler, n)

\* found is the innermost directory of those passed.
Remembers ==
    IF Passed \cap Above(page) = {} THEN found = End
    ELSE found \in Passed \cap Above(page)
            /\ \A n \in Passed \cap Above(page) : Len(n) <= Len(found)

Looking ==
    /\ Stands
    /\ \A v \in Passed, r \in rest : Before(v, r)
    /\ \A v \in Passed : v = page => IsDir(v)
    /\ Remembers

PagesIInv == PagesTypeOK /\ (search = "looking" => Looking) /\ InnermostFound

\* A name is a sequence of numbers, and End is none.
LEMMA NamesType == Names \subseteq Seq(Nat) /\ End \notin Names /\ <<>> \in Names
<1>1. \A n \in 0..MaxName : [1..n -> Letters] \subseteq Seq(Nat)
  <2> SUFFICES ASSUME NEW n \in 0..MaxName, NEW s \in [1..n -> Letters]
               PROVE  s \in Seq(Nat)
    OBVIOUS
  <2>1. n \in Nat
    BY PagesAssumption
  <2>2. \A i \in 1..n : s[i] \in Nat
    BY PagesAssumption
  <2>3. s \in [1..n -> Nat]
    BY <2>2
  <2> QED
    BY <2>1, <2>3, SeqDef
<1>2. Names = UNION {[1..n -> Letters] : n \in 0..MaxName}
  BY DEF Names, SeqOf
<1>3. Names \subseteq Seq(Nat)
  BY <1>1, <1>2
<1>4. End \notin Seq(Nat)
  <2>1. Len(End) = 1 /\ End[1] = -1
    BY DEF End
  <2> QED
    BY <2>1
<1>5. <<>> \in [1..0 -> Letters] /\ 0 \in 0..MaxName
  BY PagesAssumption
<1> QED
  BY <1>2, <1>3, <1>4, <1>5

\* Of two names that the page begins with, the one that comes first in the map
\* is the shorter one.
LEMMA OuterFirst ==
    ASSUME NEW p \in Seq(Nat), NEW a \in Seq(Nat), NEW b \in Seq(Nat),
           IsStrictPrefix(a, p), IsStrictPrefix(b, p), Before(a, b)
    PROVE  Len(a) <= Len(b)
<1>1. \A s \in Seq(Nat) : IsPrefix(s, p) => \A i \in 1..Len(s) : s[i] = p[i]
  <2> SUFFICES ASSUME NEW s \in Seq(Nat), IsPrefix(s, p), NEW i \in 1..Len(s)
               PROVE  s[i] = p[i]
    OBVIOUS
  <2>1. SubSeq(s, 1, Len(s))[i] = SubSeq(p, 1, Len(s))[i] /\ Len(s) <= Len(p)
    BY DEF IsPrefix
  <2>2. SubSeq(s, 1, Len(s))[i] = s[i] /\ SubSeq(p, 1, Len(s))[i] = p[i]
    <3>1. i \in Nat /\ 1 <= i /\ i <= Len(s) /\ Len(s) \in Nat /\ Len(p) \in Nat
      OBVIOUS
    <3>2. ASSUME NEW q \in Seq(Nat), NEW m \in Nat, m <= Len(q), NEW k \in 1..m
          PROVE  SubSeq(q, 1, m)[k] = q[k]
      <4>1. m - 1 + 1 = m /\ 1 + k - 1 = k /\ \A j \in 1..m : q[j] \in Nat
        BY <3>2
      <4> QED
        BY <3>2, <4>1, SubSeqProperties
    <3> QED
      BY <2>1, <3>1, <3>2
  <2> QED
    BY <2>1, <2>2
<1>2. \A i \in DOMAIN a \cap DOMAIN b : a[i] = b[i] /\ a[i] \in Nat
  <2>1. DOMAIN a = 1..Len(a) /\ DOMAIN b = 1..Len(b)
    OBVIOUS
  <2>2. \A i \in 1..Len(a) : a[i] = p[i] /\ a[i] \in Nat
    BY <1>1 DEF IsStrictPrefix
  <2>3. \A i \in 1..Len(b) : b[i] = p[i]
    BY <1>1 DEF IsStrictPrefix
  <2> QED
    BY <2>1, <2>2, <2>3
<1>3. IsStrictPrefix(a, b)
  BY <1>2 DEF Before
<1> QED
  BY <1>3 DEF IsStrictPrefix, IsPrefix

\* The table is empty at first, and no search goes on.
LEMMA PagesInitIInv == PagesInit => PagesIInv
<1> SUFFICES ASSUME PagesInit PROVE PagesIInv
  OBVIOUS
<1>1. DOMAIN _page_handlers = {}
  BY DEF PagesInit
<1>2. PagesTypeOK
  BY <1>1, NamesType DEF PagesInit, PagesTypeOK
<1> QED
  BY <1>2 DEF PagesIInv, InnermostFound, PagesInit

\* The set-up, during which nothing is searched.
LEMMA SetupIInv ==
    ASSUME PagesIInv, SetupDone \/ \E name \in Names, type \in Types : Add(name, type)
    PROVE  PagesIInv'
<1>1. search = "setup" /\ search' \in {"setup", "ready"}
  BY DEF SetupDone, Add
<1>2. /\ page' = page /\ rest' = rest /\ handler' = handler /\ found' = found
      /\ DOMAIN _page_handlers \subseteq DOMAIN _page_handlers'
      /\ DOMAIN _page_handlers' \subseteq Names
  BY DEF SetupDone, Add, PagesIInv, PagesTypeOK
<1>3. PagesTypeOK'
  BY <1>1, <1>2 DEF PagesIInv, PagesTypeOK
<1> QED
  BY <1>1, <1>3 DEF PagesIInv, InnermostFound

\* A search begins at the first entry.
LEMMA FindHandlerIInv == ASSUME PagesIInv, FindHandler PROVE PagesIInv'
<1>1. /\ search' = "looking" /\ page' \in Names /\ found' = End
      /\ _page_handlers' = _page_handlers /\ rest' = DOMAIN _page_handlers
      /\ Stands'
  BY DEF FindHandler, StandsBefore, Stands
<1>2. PagesTypeOK'
  BY <1>1 DEF PagesIInv, PagesTypeOK, Stands
<1>3. Passed' = {}
  BY <1>1 DEF Passed
<1>4. Looking'
  BY <1>1, <1>3 DEF Looking, Remembers
<1> QED
  BY <1>1, <1>2, <1>4 DEF PagesIInv, InnermostFound

\* What the end of the loop finds.
LEMMA EndOfPagesIInv == ASSUME PagesIInv, EndOfPages PROVE PagesIInv'
<1>1. /\ search' = "found" /\ handler' = found /\ rest = {} /\ rest' = rest
      /\ _page_handlers' = _page_handlers /\ page' = page /\ found' = found
      /\ PagesTypeOK /\ Looking
  BY DEF EndOfPages, PagesIInv
<1>2. Passed = DOMAIN _page_handlers
  BY <1>1 DEF Passed
<1>3. ~IsPage(page)
  BY <1>1, <1>2 DEF Looking, IsPage
<1>4. Above(page) = Above(page)' /\ IsPage(page)' = IsPage(page)
  BY <1>1 DEF Above, IsPage, IsDir
<1>5. Passed \cap Above(page) = Above(page)
  BY <1>2 DEF Above
<1>6. InnermostFound'
  BY <1>1, <1>3, <1>4, <1>5 DEF InnermostFound, Looking, Remembers
<1>7. PagesTypeOK'
  BY <1>1 DEF PagesTypeOK
<1> QED
  BY <1>1, <1>6, <1>7 DEF PagesIInv

\* The page itself.
LEMMA MeetPageIInv == ASSUME PagesIInv, MeetPage PROVE PagesIInv'
<1>1. /\ search' = "found" /\ handler' = handler /\ handler = page /\ rest' = rest
      /\ _page_handlers' = _page_handlers /\ page' = page /\ found' = found
      /\ PagesTypeOK /\ handler \in rest /\ ~IsDir(handler)
  BY DEF MeetPage, PagesIInv, Looking, Stands
<1>2. IsPage(page)' /\ PagesTypeOK'
  BY <1>1 DEF IsPage, IsDir, PagesTypeOK
<1> QED
  BY <1>1, <1>2 DEF PagesIInv, InnermostFound

\* ++handler: one more entry is passed, which comes before all that are left.
LEMMA StepsOn ==
    ASSUME PagesTypeOK, Looking, rest # {}, StepOn
    PROVE  /\ handler \in rest /\ rest' = rest \ {handler} /\ Stands'
           /\ _page_handlers' = _page_handlers /\ page' = page /\ search' = search
           /\ Passed' = Passed \cup {handler}
           /\ \A v \in Passed', r \in rest' : Before(v, r)
<1>1. /\ handler \in rest /\ rest' = rest \ {handler} /\ Stands'
      /\ _page_handlers' = _page_handlers /\ page' = page /\ search' = search
  BY DEF Looking, Stands, StepOn, StandsBefore
<1>2. rest \subseteq DOMAIN _page_handlers
  BY DEF PagesTypeOK
<1>3. Passed' = Passed \cup {handler}
  BY <1>1, <1>2 DEF Passed
<1>4. \A r \in rest' : Before(handler, r)
  BY <1>1 DEF Looking, Stands
<1>5. \A v \in Passed, r \in rest' : Before(v, r)
  BY <1>1 DEF Looking
<1> QED
  BY <1>1, <1>3, <1>4, <1>5

\* A directory further in takes the place of the one remembered.
LEMMA PassDirIInv == ASSUME PagesIInv, PassDir PROVE PagesIInv'
<1>1. /\ PagesTypeOK /\ Looking /\ search = "looking" /\ rest # {} /\ StepOn
      /\ IsDir(handler) /\ IsStrictPrefix(handler, page) /\ found' = handler
  BY DEF PassDir, PagesIInv
<1>2. Above(page)' = Above(page) /\ handler \in Above(page)
  BY <1>1, StepsOn DEF Above, IsDir, PagesTypeOK
<1>3. \A n \in Passed \cap Above(page) : Len(n) <= Len(handler)
  <2> SUFFICES ASSUME NEW n \in Passed \cap Above(page)
               PROVE  Len(n) <= Len(handler)
    OBVIOUS
  <2>1. n \in Seq(Nat) /\ handler \in Seq(Nat) /\ page \in Seq(Nat)
    BY <1>1, <1>2, NamesType DEF PagesTypeOK, Above
  <2>2. Before(n, handler)
    BY <1>1, StepsOn DEF Looking
  <2> QED
    BY <1>1, <2>1, <2>2, OuterFirst DEF Above
<1>4. Remembers'
  <2>1. Len(handler) <= Len(handler)
    BY <1>1, <1>2, NamesType DEF PagesTypeOK, Above
  <2> QED
    BY <1>1, <1>2, <1>3, <2>1, StepsOn DEF Remembers
<1>5. \A v \in Passed' : v = page' => IsDir(v)'
  BY <1>1, StepsOn DEF Looking, IsDir
<1>6. PagesTypeOK'
  BY <1>1, StepsOn DEF PagesTypeOK, Stands
<1> QED
  BY <1>1, <1>4, <1>5, <1>6, StepsOn DEF PagesIInv, Looking, InnermostFound

\* Any other entry leaves what is remembered as it is.
LEMMA PassOtherIInv == ASSUME PagesIInv, PassOther PROVE PagesIInv'
<1>1. /\ PagesTypeOK /\ Looking /\ search = "looking" /\ rest # {} /\ StepOn
      /\ found' = found
      /\ IF IsDir(handler) THEN ~IsStrictPrefix(handler, page) ELSE handler # page
  BY DEF PassOther, PagesIInv
<1>2. Above(page)' = Above(page) /\ handler \notin Above(page)
  BY <1>1, StepsOn DEF Above, IsDir
<1>3. Passed' \cap Above(page)' = Passed \cap Above(page)
  BY <1>1, <1>2, StepsOn
<1>4. Remembers'
  BY <1>1, <1>3 DEF Looking, Remembers
<1>5. \A v \in Passed' : v = page' => IsDir(v)'
  BY <1>1, StepsOn DEF Looking, IsDir
<1>6. PagesTypeOK'
  BY <1>1, StepsOn DEF PagesTypeOK, Stands
<1> QED
  BY <1>1, <1>4, <1>5, <1>6, StepsOn DEF PagesIInv, Looking, InnermostFound

\* The invariant of the loop holds in every state.
LEMMA PagesInvariance == PagesSpec => []PagesIInv
<1>1. PagesIInv /\ [PagesNext]_pages => PagesIInv'
  <2>1. PagesIInv /\ UNCHANGED pages => PagesIInv'
    BY DEF PagesIInv, PagesTypeOK, Looking, Stands, Remembers, Passed, Above,
           IsPage, IsDir, InnermostFound, pages
  <2> QED
    BY <2>1, SetupIInv, FindHandlerIInv, PassDirIInv, MeetPageIInv, PassOtherIInv,
       EndOfPagesIInv DEF PagesNext
<1> QED
  BY <1>1, PagesInitIInv, PTL DEF PagesSpec

\* Whatever is in the table, and for names of any length: a request gets the
\* page of its name, or the innermost directory that it is in.
THEOREM FindsInnermost == PagesSpec => []InnermostFound
BY PagesInvariance, PTL DEF PagesIInv

\* The iterator and what is remembered are entries of the table, or its end.
THEOREM PagesTypes == PagesSpec => []PagesTypeOK
BY PagesInvariance, PTL DEF PagesIInv

-----------------------------------------------------------------------------
(***************************************************************************)
(* Credentials.  Base64 loses nothing, so GetAuthentication splits, at its *)
(* first colon, the text that the client has joined.                       *)
(***************************************************************************)

Octets == Seq(0..255)

\* The characters that Encode writes before any Pad.
Written64(octets) == Len(octets) + ((Len(octets) + 2) \div 3)

LEMMA FilledType ==
    ASSUME NEW octets \in Octets, NEW i \in Nat \ {0}
    PROVE  Filled(octets, i, 0) \in 0..255
<1>1. Len(octets) \in Nat /\ \A j \in 1..Len(octets) : octets[j] \in 0..255
  BY LenProperties, ElementOfSeq DEF Octets
<1>2. i <= Len(octets) => i \in 1..Len(octets)
  BY <1>1
<1> QED
  BY <1>1, <1>2 DEF Filled

\* None of the numbers is Pad.
LEMMA FourType ==
    ASSUME NEW octets \in Octets, NEW k \in Nat, NEW i \in 0..3
    PROVE  Four(octets, k)[i + 1] \in 0..63
<1>1. /\ Filled(octets, k + 1, 0) \in 0..255
      /\ Filled(octets, k + 2, 0) \in 0..255
      /\ Filled(octets, k + 3, 0) \in 0..255
  BY FilledType
<1>2. /\ Four(octets, k)[1] \in 0..63 /\ Four(octets, k)[2] \in 0..63
      /\ Four(octets, k)[3] \in 0..63 /\ Four(octets, k)[4] \in 0..63
  <2>1. PICK x \in 0..255 : x = Filled(octets, k + 1, 0)
    BY <1>1
  <2>2. PICK y \in 0..255 : y = Filled(octets, k + 2, 0)
    BY <1>1
  <2>3. PICK z \in 0..255 : z = Filled(octets, k + 3, 0)
    BY <1>1
  <2>4. Four(octets, k) = <<x \div 4, ((x % 4) * 16) + (y \div 16),
                            ((y % 16) * 4) + (z \div 64), z % 64>>
    BY <2>1, <2>2, <2>3 DEF Four
  <2>5. /\ x \div 4 \in 0..63 /\ ((x % 4) * 16) + (y \div 16) \in 0..63
        /\ ((y % 16) * 4) + (z \div 64) \in 0..63 /\ z % 64 \in 0..63
    <3>1. x \in 0..255 /\ y \in 0..255 /\ z \in 0..255
      BY <2>1, <2>2, <2>3
    <3> QED
      BY <3>1
  <2> QED
    BY <2>4, <2>5
<1>3. i = 0 \/ i = 1 \/ i = 2 \/ i = 3
  OBVIOUS
<1> QED
  BY <1>2, <1>3

\* The character at a place of the text.
LEMMA EncodeAt ==
    ASSUME NEW octets \in Octets, NEW k \in Nat, NEW i \in 0..3,
           k < (Len(octets) + 2) \div 3
    PROVE  Encode(octets)[4 * k + i + 1] =
               IF 3 * k + i <= Len(octets) THEN Four(octets, 3 * k)[i + 1] ELSE Pad
<1>1. Len(octets) \in Nat
  BY DEF Octets
<1>2. 4 * k + i + 1 \in 1..4 * ((Len(octets) + 2) \div 3)
  BY <1>1
<1>3. (4 * k + i + 1 - 1) \div 4 = k /\ (4 * k + i + 1 - 1) % 4 = i
  OBVIOUS
<1>4. i <= Len(octets) - 3 * k <=> 3 * k + i <= Len(octets)
  BY <1>1
<1> QED
  BY <1>2, <1>3, <1>4 DEF Encode

\* The places of a text, four characters to a group,
LEMMA Place4 == ASSUME NEW c \in Nat \ {0}
                PROVE  \E k \in Nat, i \in 0..3 : c = 4 * k + i + 1
<1>1. /\ (c - 1) \div 4 \in Nat /\ (c - 1) % 4 \in 0..3
      /\ c = 4 * ((c - 1) \div 4) + ((c - 1) % 4) + 1
  OBVIOUS
<1> QED
  BY <1>1

\* and of its bytes, three to a group.
LEMMA Place3 == ASSUME NEW c \in Nat \ {0}
                PROVE  \E k \in Nat, i \in 0..2 : c = 3 * k + i + 1
<1>1. /\ (c - 1) \div 3 \in Nat /\ (c - 1) % 3 \in 0..2
      /\ c = 3 * ((c - 1) \div 3) + ((c - 1) % 3) + 1
  OBVIOUS
<1> QED
  BY <1>1

\* A text of len bytes has (len + 2) \div 3 groups; which characters exist, and
\* which stand for bytes.
LEMMA InGroup ==
    ASSUME NEW len \in Nat, NEW k \in Nat, NEW i \in 0..3
    PROVE  /\ 4 * k + i + 1 <= 4 * ((len + 2) \div 3) => k < (len + 2) \div 3
           /\ 4 * k + i + 1 <= len + ((len + 2) \div 3) =>
                 k < (len + 2) \div 3 /\ 3 * k + i <= len
           /\ i < 3 /\ 3 * k + i + 1 <= len =>
                 4 * k + i + 2 <= len + ((len + 2) \div 3) /\ k < (len + 2) \div 3
<1>1. PICK m \in Nat, r \in 0..2 : len + 2 = 3 * m + r /\ m = (len + 2) \div 3
  <2>1. (len + 2) \div 3 \in Nat /\ (len + 2) % 3 \in 0..2
        /\ len + 2 = 3 * ((len + 2) \div 3) + ((len + 2) % 3)
    OBVIOUS
  <2> QED
    BY <2>1
<1> QED
  BY <1>1

\* A last group that is short.
LEMMA ShortGroup ==
    ASSUME NEW k \in Nat, NEW i \in 1..2
    PROVE  /\ (3 * k + i) + ((3 * k + i + 2) \div 3) + 1 = 4 * k + (i + 1) + 1
           /\ k < (3 * k + i + 2) \div 3
OBVIOUS

\* The lengths, with and without a short group.
LEMMA Lengths ==
    ASSUME NEW len \in Nat
    PROVE  /\ (3 * (len + ((len + 2) \div 3))) \div 4 = len
           /\ len + ((len + 2) \div 3) \in 0..4 * ((len + 2) \div 3)
           /\ len % 3 = 0 => len + ((len + 2) \div 3) = 4 * ((len + 2) \div 3)
           /\ len % 3 # 0 => \E k \in Nat, i \in 1..2 : len = 3 * k + i
<1>1. len \div 3 \in Nat /\ len % 3 \in 0..2 /\ len = 3 * (len \div 3) + (len % 3)
  OBVIOUS
<1>2. len % 3 # 0 => \E k \in Nat, i \in 1..2 : len = 3 * k + i
  BY <1>1
<1> QED
  BY <1>2

\* Encode fills the last group up to four characters.
LEMMA EncodeType ==
    ASSUME NEW octets \in Octets
    PROVE  /\ Encode(octets) \in Seq(0..64)
           /\ Len(Encode(octets)) = 4 * ((Len(octets) + 2) \div 3)
           /\ Written64(octets) \in 0..Len(Encode(octets))
<1>1. PICK len \in Nat : len = Len(octets)
  BY DEF Octets
<1> DEFINE chars == 4 * ((len + 2) \div 3)
<1>2. ASSUME NEW c \in 1..chars
      PROVE  Encode(octets)[c] \in 0..64
  <2>1. c \in Nat \ {0} /\ c <= chars
    BY <1>1, <1>2
  <2>2. PICK k \in Nat, i \in 0..3 : c = 4 * k + i + 1
    BY <2>1, Place4
  <2>3. k < (len + 2) \div 3 /\ 3 * k \in Nat
    BY <1>1, <2>1, <2>2, InGroup
  <2>4. Four(octets, 3 * k)[i + 1] \in 0..63
    BY <2>2, <2>3, FourType
  <2>5. k < (Len(octets) + 2) \div 3
    BY <1>1, <2>3
  <2>6. Encode(octets)[4 * k + i + 1] \in {Four(octets, 3 * k)[i + 1], Pad}
    BY <2>2, <2>5, EncodeAt
  <2>7. Encode(octets)[c] \in {Four(octets, 3 * k)[i + 1], Pad}
    BY <2>2, <2>6
  <2> QED
    BY <2>4, <2>7 DEF Pad
<1>3. chars \in Nat /\ Encode(octets) = [c \in 1..chars |-> Encode(octets)[c]]
  BY <1>1 DEF Encode
<1>4. Encode(octets) \in [1..chars -> 0..64]
  BY <1>2, <1>3
<1>5. Encode(octets) \in Seq(0..64) /\ Len(Encode(octets)) = chars
  <2> HIDE DEF chars
  <2>1. Encode(octets) \in Seq(0..64)
    BY <1>3, <1>4, SeqDef
  <2>2. DOMAIN Encode(octets) = 1..chars
    BY <1>4
  <2> QED
    BY <1>3, <2>1, <2>2, LenProperties
<1> QED
  BY <1>1, <1>5, Lengths DEF Written64

\* Where Decode stops reading: behind the characters that stand for bytes.
LEMMA EncodeStops ==
    ASSUME NEW octets \in Octets
    PROVE  /\ \A j \in 1..Written64(octets) : Encode(octets)[j] # Pad
           /\ \/ Written64(octets) = Len(Encode(octets))
              \/ Encode(octets)[Written64(octets) + 1] = Pad
<1>1. PICK len \in Nat : len = Len(octets)
  BY DEF Octets
<1>2. Written64(octets) = len + ((len + 2) \div 3)
  BY <1>1 DEF Written64
<1>3. ASSUME NEW j \in 1..Written64(octets)
      PROVE  Encode(octets)[j] # Pad
  <2>1. j \in Nat \ {0} /\ j <= len + ((len + 2) \div 3)
    BY <1>1, <1>2, <1>3
  <2>2. PICK k \in Nat, i \in 0..3 : j = 4 * k + i + 1
    BY <2>1, Place4
  <2>3. k < (len + 2) \div 3 /\ 3 * k + i <= len /\ 3 * k \in Nat
    BY <1>1, <2>1, <2>2, InGroup
  <2>4. Four(octets, 3 * k)[i + 1] \in 0..63
    BY <2>2, <2>3, FourType
  <2>5. k < (Len(octets) + 2) \div 3 /\ 3 * k + i <= Len(octets)
    BY <1>1, <2>3
  <2>6. Encode(octets)[4 * k + i + 1] = Four(octets, 3 * k)[i + 1]
    BY <2>2, <2>5, EncodeAt
  <2>7. Encode(octets)[j] = Four(octets, 3 * k)[i + 1]
    BY <2>2, <2>6
  <2> QED
    BY <2>4, <2>7 DEF Pad
<1>4. CASE len % 3 = 0
  BY <1>1, <1>2, <1>3, <1>4, Lengths, EncodeType
<1>5. CASE len % 3 # 0
  <2>1. PICK k \in Nat, i \in 1..2 : len = 3 * k + i
    BY <1>1, <1>5, Lengths
  <2>2. Written64(octets) + 1 = 4 * k + (i + 1) + 1 /\ k < (len + 2) \div 3
    BY <1>2, <2>1, ShortGroup
  <2>3. i + 1 \in 0..3 /\ ~(3 * k + (i + 1) <= len)
    BY <2>1
  <2>4. Encode(octets)[4 * k + (i + 1) + 1] = Pad
    BY <1>1, <2>1, <2>2, <2>3, EncodeAt
  <2> QED
    BY <1>3, <2>2, <2>4
<1> QED
  BY <1>4, <1>5

\* The characters that Decode goes by.
Kept(octets) == SubSeq(Encode(octets), 1, Written64(octets))

\* It finds the numbers that Encode has written,
LEMMA KeptAt ==
    ASSUME NEW octets \in Octets, NEW k \in Nat, NEW i \in 0..3,
           4 * k + i + 1 <= Written64(octets)
    PROVE  Filled(Kept(octets), 4 * k + (i + 1), 255) = Four(octets, 3 * k)[i + 1]
<1>1. PICK len \in Nat : len = Len(octets)
  BY DEF Octets
<1>2. PICK n \in Nat : n = Written64(octets) /\ n <= Len(Encode(octets))
  BY EncodeType
<1>3. PICK c \in 1..n : c = 4 * k + (i + 1)
  BY <1>2
<1>4. /\ Len(Kept(octets)) = n /\ Kept(octets)[c] = Encode(octets)[c]
  <2>1. \A j \in 1..n : Encode(octets)[j] \in 0..64
    <3> SUFFICES ASSUME NEW j \in 1..n PROVE Encode(octets)[j] \in 0..64
      OBVIOUS
    <3>1. Encode(octets) \in Seq(0..64) /\ Len(Encode(octets)) \in Nat
      BY EncodeType, LenProperties
    <3>2. j \in 1..Len(Encode(octets))
      BY <1>2, <3>1
    <3> QED
      BY <3>1, <3>2, ElementOfSeq
  <2>2. n - 1 + 1 = n /\ 1 + c - 1 = c /\ 1 <= n
    BY <1>2, <1>3
  <2>3. Kept(octets) = SubSeq(Encode(octets), 1, n)
    BY <1>2 DEF Kept
  <2>4. /\ Len(SubSeq(Encode(octets), 1, n)) = IF 1 <= n THEN n - 1 + 1 ELSE 0
        /\ \A j \in 1..n - 1 + 1 : SubSeq(Encode(octets), 1, n)[j] = Encode(octets)[1 + j - 1]
    BY <2>1, SubSeqProperties
  <2> QED
    BY <1>3, <2>2, <2>3, <2>4
<1>5. Filled(Kept(octets), c, 255) = Encode(octets)[c]
  BY <1>3, <1>4 DEF Filled
<1>6. k < (len + 2) \div 3 /\ 3 * k + i <= len
  BY <1>1, <1>2, InGroup DEF Written64
<1>7. k < (Len(octets) + 2) \div 3 /\ 3 * k + i <= Len(octets)
  BY <1>1, <1>6
<1>8. Encode(octets)[4 * k + i + 1] = Four(octets, 3 * k)[i + 1]
  BY <1>7, EncodeAt
<1>9. 4 * k + i + 1 = c
  BY <1>3
<1> QED
  BY <1>3, <1>5, <1>8, <1>9

\* and the bytes in them.
LEMMA ThreeAt ==
    ASSUME NEW octets \in Octets, NEW k \in Nat, NEW i \in 0..2,
           3 * k + i + 1 <= Len(octets)
    PROVE  Three(Kept(octets), 4 * k)[i + 1] = octets[3 * k + i + 1]
<1>1. PICK len \in Nat : len = Len(octets)
  BY DEF Octets
<1>2. Written64(octets) = len + ((len + 2) \div 3)
  BY <1>1 DEF Written64
<1>3. /\ Filled(octets, 3 * k + 1, 0) \in 0..255
      /\ Filled(octets, 3 * k + 2, 0) \in 0..255
      /\ Filled(octets, 3 * k + 3, 0) \in 0..255
  <2>1. 3 * k + 1 \in Nat \ {0} /\ 3 * k + 2 \in Nat \ {0} /\ 3 * k + 3 \in Nat \ {0}
    OBVIOUS
  <2> QED
    BY <2>1, FilledType
<1>4. PICK x \in 0..255, y \in 0..255, z \in 0..255 :
         /\ x = Filled(octets, 3 * k + 1, 0) /\ y = Filled(octets, 3 * k + 2, 0)
         /\ z = Filled(octets, 3 * k + 3, 0)
  BY <1>3
<1>5. octets[3 * k + i + 1] = Filled(octets, 3 * k + (i + 1), 0)
  <2>1. 3 * k + (i + 1) = 3 * k + i + 1 /\ 3 * k + (i + 1) <= Len(octets)
    BY <1>1
  <2> QED
    BY <2>1 DEF Filled
<1>6. Four(octets, 3 * k) = <<x \div 4, ((x % 4) * 16) + (y \div 16),
                              ((y % 16) * 4) + (z \div 64), z % 64>>
  BY <1>4 DEF Four
<1>7. \A j \in 0..i + 1 : Filled(Kept(octets), 4 * k + (j + 1), 255) = Four(octets, 3 * k)[j + 1]
  <2> SUFFICES ASSUME NEW j \in 0..i + 1
               PROVE  Filled(Kept(octets), 4 * k + (j + 1), 255) = Four(octets, 3 * k)[j + 1]
    OBVIOUS
  <2>1. 4 * k + i + 2 <= len + ((len + 2) \div 3)
    BY <1>1, InGroup
  <2>2. j \in 0..3 /\ 4 * k + j + 1 <= Written64(octets)
    <3>1. PICK n \in Nat : n = len + ((len + 2) \div 3)
      BY <1>1
    <3> QED
      BY <1>2, <2>1, <3>1
  <2> QED
    BY <2>2, KeptAt
<1>8. /\ Three(Kept(octets), 4 * k)[1] =
             (((Filled(Kept(octets), 4 * k + 1, 255) * 4) % 256)
                + ((Filled(Kept(octets), 4 * k + 2, 255) \div 16) % 4)) % 256
      /\ Three(Kept(octets), 4 * k)[2] =
             (((Filled(Kept(octets), 4 * k + 2, 255) % 16) * 16)
                + ((Filled(Kept(octets), 4 * k + 3, 255) \div 4) % 16)) % 256
      /\ Three(Kept(octets), 4 * k)[3] =
             (((Filled(Kept(octets), 4 * k + 3, 255) % 4) * 64)
                + Filled(Kept(octets), 4 * k + 4, 255)) % 256
  BY DEF Three
<1>9. /\ ((((x \div 4) * 4) % 256)
            + (((((x % 4) * 16) + (y \div 16)) \div 16) % 4)) % 256 = x
      /\ ((((((x % 4) * 16) + (y \div 16)) % 16) * 16)
            + (((((y % 16) * 4) + (z \div 64)) \div 4) % 16)) % 256 = y
      /\ ((((((y % 16) * 4) + (z \div 64)) % 4) * 64) + (z % 64)) % 256 = z
  <2>1. x \in 0..255 /\ y \in 0..255 /\ z \in 0..255
    BY <1>4
  <2>2. ((((x \div 4) * 4) % 256)
           + (((((x % 4) * 16) + (y \div 16)) \div 16) % 4)) % 256 = x
    BY <2>1
  <2>3. ((((((x % 4) * 16) + (y \div 16)) % 16) * 16)
           + (((((y % 16) * 4) + (z \div 64)) \div 4) % 16)) % 256 = y
    BY <2>1
  <2>4. ((((((y % 16) * 4) + (z \div 64)) % 4) * 64) + (z % 64)) % 256 = z
    BY <2>1
  <2> QED
    BY <2>2, <2>3, <2>4
<1>10. CASE i = 0
  <2>1. /\ Filled(Kept(octets), 4 * k + 1, 255) = x \div 4
        /\ Filled(Kept(octets), 4 * k + 2, 255) = ((x % 4) * 16) + (y \div 16)
    <3>1. 0 \in 0..i + 1 /\ 1 \in 0..i + 1
      BY <1>10
    <3>2. /\ Filled(Kept(octets), 4 * k + (0 + 1), 255) = Four(octets, 3 * k)[0 + 1]
          /\ Filled(Kept(octets), 4 * k + (1 + 1), 255) = Four(octets, 3 * k)[1 + 1]
      BY <1>7, <3>1
    <3> QED
      BY <1>6, <3>2
  <2>2. Three(Kept(octets), 4 * k)[1] = x
    BY <1>8, <1>9, <2>1, Zenon
  <2> QED
    BY <1>4, <1>5, <1>10, <2>2
<1>11. CASE i = 1
  <2>1. /\ Filled(Kept(octets), 4 * k + 2, 255) = ((x % 4) * 16) + (y \div 16)
        /\ Filled(Kept(octets), 4 * k + 3, 255) = ((y % 16) * 4) + (z \div 64)
    <3>1. 1 \in 0..i + 1 /\ 2 \in 0..i + 1
      BY <1>11
    <3>2. /\ Filled(Kept(octets), 4 * k + (1 + 1), 255) = Four(octets, 3 * k)[1 + 1]
          /\ Filled(Kept(octets), 4 * k + (2 + 1), 255) = Four(octets, 3 * k)[2 + 1]
      BY <1>7, <3>1
    <3> QED
      BY <1>6, <3>2
  <2>2. Three(Kept(octets), 4 * k)[2] = y
    BY <1>8, <1>9, <2>1, Zenon
  <2> QED
    BY <1>4, <1>5, <1>11, <2>2
<1>12. CASE i = 2
  <2>1. /\ Filled(Kept(octets), 4 * k + 3, 255) = ((y % 16) * 4) + (z \div 64)
        /\ Filled(Kept(octets), 4 * k + 4, 255) = z % 64
    <3>1. 2 \in 0..i + 1 /\ 3 \in 0..i + 1
      BY <1>12
    <3>2. /\ Filled(Kept(octets), 4 * k + (2 + 1), 255) = Four(octets, 3 * k)[2 + 1]
          /\ Filled(Kept(octets), 4 * k + (3 + 1), 255) = Four(octets, 3 * k)[3 + 1]
      BY <1>7, <3>1
    <3> QED
      BY <1>6, <3>2
  <2>2. Three(Kept(octets), 4 * k)[3] = z
    BY <1>8, <1>9, <2>1, Zenon
  <2> QED
    BY <1>4, <1>5, <1>12, <2>2
<1> QED
  BY <1>10, <1>11, <1>12

\* Base64: what is decoded is what was encoded, for every sequence of bytes.
THEOREM DecodeEncode ==
    ASSUME NEW octets \in Seq(0..255)
    PROVE  Decode(Encode(octets)) = octets
<1> DEFINE text == Encode(octets)
           w == Written64(octets)
           Stops(i) == /\ \A j \in 1..i : text[j] # Pad
                       /\ i = Len(text) \/ text[i + 1] = Pad
           n == CHOOSE i \in 0..Len(text) : Stops(i)
<1>1. octets \in Octets /\ octets \in [1..Len(octets) -> 0..255]
  BY LenProperties DEF Octets
<1>2. Stops(w) /\ w \in 0..Len(text) /\ Len(text) \in Nat
  BY <1>1, EncodeStops, EncodeType, LenProperties
<1>3. \A i \in 0..Len(text) : Stops(i) => i = w
  <2> SUFFICES ASSUME NEW i \in 0..Len(text), Stops(i), i # w PROVE FALSE
    OBVIOUS
  <2> HIDE DEF text, w
  <2>1. CASE i < w
    <3>1. i + 1 \in 1..w /\ i # Len(text)
      BY <1>2, <2>1
    <3> QED
      BY <1>2, <3>1
  <2>2. CASE i > w
    <3>1. w + 1 \in 1..i /\ w # Len(text)
      BY <1>2, <2>2
    <3> QED
      BY <1>2, <3>1
  <2> QED
    BY <1>2, <2>1, <2>2
<1>4. n = w
  <2> HIDE DEF Stops, text, w
  <2> QED
    BY <1>2, <1>3
<1>5. PICK len \in Nat : len = Len(octets) /\ (3 * w) \div 4 = len
  <2>1. PICK len \in Nat : len = Len(octets)
    BY <1>1, LenProperties
  <2>2. w = len + ((len + 2) \div 3)
    BY <2>1 DEF Written64
  <2>3. (3 * (len + ((len + 2) \div 3))) \div 4 = len
    BY <2>1, Lengths
  <2> QED
    BY <2>1, <2>2, <2>3
<1>6. Decode(text) =
         [b \in 1..len |-> Three(Kept(octets), 4 * ((b - 1) \div 3))[((b - 1) % 3) + 1]]
  <2> HIDE DEF text, w, n
  <2>1. Decode(text) =
           [b \in 1..(3 * n) \div 4 |->
              Three(SubSeq(text, 1, n), 4 * ((b - 1) \div 3))[((b - 1) % 3) + 1]]
    BY Zenon DEF Decode, n
  <2>2. SubSeq(text, 1, n) = Kept(octets)
    BY <1>4 DEF Kept, text, w
  <2> QED
    BY <1>4, <1>5, <2>1, <2>2
<1>7. ASSUME NEW b \in 1..len
      PROVE  Three(Kept(octets), 4 * ((b - 1) \div 3))[((b - 1) % 3) + 1] = octets[b]
  <2>1. b \in Nat \ {0} /\ b <= len
    BY <1>5, <1>7
  <2>2. PICK k \in Nat, i \in 0..2 : b = 3 * k + i + 1
    BY <2>1, Place3
  <2>3. (b - 1) \div 3 = k /\ (b - 1) % 3 = i
    BY <2>2
  <2>4. Three(Kept(octets), 4 * k)[i + 1] = octets[3 * k + i + 1]
    BY <1>1, <1>5, <2>1, <2>2, ThreeAt
  <2> QED
    BY <2>2, <2>3, <2>4
<1>8. octets = [b \in 1..len |-> octets[b]]
  BY <1>1, <1>5
<1> QED
  BY <1>6, <1>7, <1>8, Zenon

\* auth.find(':') gives the first colon.
LEMMA SplitIs ==
    ASSUME NEW auth, Colons(auth) # {}, Len(auth) \in Nat
    PROVE  Split(auth) \in Colons(auth) /\ \A j \in Colons(auth) : Split(auth) <= j
<1>1. Colons(auth) \in SUBSET Nat
  BY DEF Colons
<1>2. PICK i \in Colons(auth) : \A j \in Colons(auth) : ~(<<j, i>> \in OpToRel(<, Nat))
  BY <1>1, WFMin, NatLessThanWellFounded, Zenon
<1>3. \A j \in Colons(auth) : ~(j < i)
  BY <1>1, <1>2 DEF OpToRel
<1>4. \A j \in Colons(auth) : i <= j
  <2> SUFFICES ASSUME NEW j \in Colons(auth) PROVE i <= j
    OBVIOUS
  <2>1. i \in Nat /\ j \in Nat /\ ~(j < i)
    BY <1>1, <1>2, <1>3
  <2> QED
    BY <2>1
<1> QED
  BY <1>2, <1>4 DEF Split

\* What the text is, place by place.
LEMMA JoinedAt ==
    ASSUME NEW u \in Octets, NEW p \in Octets
    PROVE  /\ u \o <<Colon>> \o p \in Octets
           /\ Len(u \o <<Colon>> \o p) = Len(u) + 1 + Len(p)
           /\ \A i \in 1..Len(u) : (u \o <<Colon>> \o p)[i] = u[i]
           /\ (u \o <<Colon>> \o p)[Len(u) + 1] = Colon
           /\ \A i \in 1..Len(p) : (u \o <<Colon>> \o p)[Len(u) + 1 + i] = p[i]
<1>1. <<Colon>> \in Octets /\ Len(<<Colon>>) = 1 /\ <<Colon>>[1] = Colon
  BY DEF Octets, Colon
<1>2. Len(u) \in Nat /\ Len(p) \in Nat
  BY LenProperties DEF Octets
<1>3. /\ u \o <<Colon>> \in Octets /\ Len(u \o <<Colon>>) = Len(u) + 1
      /\ \A i \in 1..Len(u) + 1 : (u \o <<Colon>>)[i] = IF i <= Len(u) THEN u[i] ELSE <<Colon>>[i - Len(u)]
  BY <1>1, ConcatProperties DEF Octets
<1>4. /\ u \o <<Colon>> \o p \in Octets /\ Len(u \o <<Colon>> \o p) = Len(u) + 1 + Len(p)
      /\ \A i \in 1..Len(u) + 1 + Len(p) : (u \o <<Colon>> \o p)[i] =
            IF i <= Len(u) + 1 THEN (u \o <<Colon>>)[i] ELSE p[i - (Len(u) + 1)]
  <2>1. PICK v \in Octets : v = u \o <<Colon>> /\ Len(v) = Len(u) + 1
    BY <1>3
  <2>2. /\ v \o p \in Octets /\ Len(v \o p) = Len(v) + Len(p)
        /\ \A i \in 1..Len(v) + Len(p) : (v \o p)[i] = IF i <= Len(v) THEN v[i] ELSE p[i - Len(v)]
    BY ConcatProperties DEF Octets
  <2> QED
    BY <2>1, <2>2
<1> HIDE DEF Octets
<1>5. PICK a : a = u \o <<Colon>> \o p
  OBVIOUS
<1>6. \A i \in 1..Len(u) : a[i] = u[i]
  <2>1. \A i \in 1..Len(u) : i \in 1..Len(u) + 1 /\ i \in 1..Len(u) + 1 + Len(p) /\ i <= Len(u) /\ i <= Len(u) + 1
    BY <1>2
  <2> QED
    BY <1>3, <1>4, <1>5, <2>1
<1>7. a[Len(u) + 1] = Colon
  <2>1. /\ Len(u) + 1 \in 1..Len(u) + 1 /\ Len(u) + 1 \in 1..Len(u) + 1 + Len(p)
        /\ ~(Len(u) + 1 <= Len(u)) /\ Len(u) + 1 <= Len(u) + 1 /\ Len(u) + 1 - Len(u) = 1
    BY <1>2
  <2> QED
    BY <1>1, <1>3, <1>4, <1>5, <2>1
<1>8. \A i \in 1..Len(p) : a[Len(u) + 1 + i] = p[i]
  <2> SUFFICES ASSUME NEW i \in 1..Len(p) PROVE a[Len(u) + 1 + i] = p[i]
    OBVIOUS
  <2>1. /\ Len(u) + 1 + i \in 1..Len(u) + 1 + Len(p) /\ ~(Len(u) + 1 + i <= Len(u) + 1)
        /\ Len(u) + 1 + i - (Len(u) + 1) = i
    BY <1>2
  <2> QED
    BY <1>4, <1>5, <2>1
<1> QED
  BY <1>4, <1>5, <1>6, <1>7, <1>8

\* A part of a text.
LEMMA PartOf ==
    ASSUME NEW a \in Octets, NEW f \in Nat \ {0}, NEW t \in Nat, t <= Len(a), f <= t + 1
    PROVE  /\ SubSeq(a, f, t) \in Octets /\ Len(SubSeq(a, f, t)) = t - f + 1
           /\ \A j \in 1..t - f + 1 : SubSeq(a, f, t)[j] = a[f + j - 1]
<1>1. Len(a) \in Nat /\ \A j \in 1..Len(a) : a[j] \in 0..255
  BY LenProperties, ElementOfSeq DEF Octets
<1>2. f \in Int /\ t \in Int /\ \A j \in f..t : j \in 1..Len(a)
  BY <1>1
<1>3. \A j \in f..t : a[j] \in 0..255
  BY <1>1, <1>2
<1>4. /\ SubSeq(a, f, t) \in Octets
      /\ Len(SubSeq(a, f, t)) = IF f <= t THEN t - f + 1 ELSE 0
      /\ \A j \in 1..t - f + 1 : SubSeq(a, f, t)[j] = a[f + j - 1]
  BY <1>2, <1>3, SubSeqProperties DEF Octets
<1>5. (IF f <= t THEN t - f + 1 ELSE 0) = t - f + 1
  OBVIOUS
<1> QED
  BY <1>4, <1>5

\* A user name without a colon, and the password, are what comes out.
LEMMA SplitExact ==
    ASSUME NEW u \in Octets, NEW p \in Octets, \A i \in 1..Len(u) : u[i] # Colon,
           NEW a \in Octets, a = u \o <<Colon>> \o p
    PROVE  SubSeq(a, 1, Split(a) - 1) = u /\ SubSeq(a, Split(a) + 1, Len(a)) = p
<1>1. /\ a \in Octets /\ Len(u) \in Nat /\ Len(p) \in Nat /\ Len(a) = Len(u) + 1 + Len(p)
      /\ \A i \in 1..Len(u) : a[i] = u[i]
      /\ a[Len(u) + 1] = Colon
      /\ \A i \in 1..Len(p) : a[Len(u) + 1 + i] = p[i]
  BY JoinedAt, LenProperties DEF Octets
<1>2. PICK m \in Nat, n \in Nat : m = Len(u) /\ n = Len(p)
  BY <1>1
<1>3. Split(a) = m + 1
  <2>1. m + 1 \in Colons(a) /\ Len(a) \in Nat
    BY <1>1, <1>2 DEF Colons
  <2>2. Split(a) \in Colons(a) /\ \A j \in Colons(a) : Split(a) <= j
    BY <2>1, SplitIs
  <2>3. PICK s \in Colons(a) : s = Split(a) /\ s <= m + 1
    BY <2>1, <2>2
  <2>4. s \in Nat /\ 1 <= s /\ a[s] = Colon
    BY <2>3 DEF Colons
  <2>5. ~(s <= m)
    <3> SUFFICES ASSUME s <= m PROVE FALSE
      OBVIOUS
    <3>1. s \in 1..Len(u)
      BY <1>2, <2>4
    <3> QED
      BY <1>1, <2>4, <3>1
  <2> QED
    BY <2>3, <2>4, <2>5
<1>4. PICK v : v = SubSeq(a, 1, m)
  OBVIOUS
<1>5. PICK w : w = SubSeq(a, m + 2, Len(a))
  OBVIOUS
<1>6. v = u
  <2>1. 1 \in Nat \ {0} /\ m <= Len(a) /\ 1 <= m + 1 /\ m - 1 + 1 = m
    BY <1>1, <1>2
  <2>2. v \in Octets /\ Len(v) = m /\ \A j \in 1..m : v[j] = a[1 + j - 1]
    <3>1. /\ SubSeq(a, 1, m) \in Octets /\ Len(SubSeq(a, 1, m)) = m - 1 + 1
          /\ \A j \in 1..m - 1 + 1 : SubSeq(a, 1, m)[j] = a[1 + j - 1]
      BY <1>2, <2>1, PartOf
    <3> QED
      BY <1>4, <2>1, <3>1, Zenon
  <2>3. \A j \in 1..m : 1 + j - 1 = j
    OBVIOUS
  <2>4. \A j \in 1..Len(v) : v[j] = u[j]
    BY <1>1, <1>2, <2>2, <2>3
  <2> QED
    BY <1>2, <2>2, <2>4, SeqEqual DEF Octets
<1>7. w = p
  <2>1. PICK len \in Nat : len = Len(a) /\ len = m + 1 + n
    BY <1>1, <1>2
  <2>2. m + 2 \in Nat \ {0} /\ len <= Len(a) /\ m + 2 <= len + 1 /\ len - (m + 2) + 1 = n
    BY <1>2, <2>1
  <2>3. w \in Octets /\ Len(w) = n /\ \A j \in 1..n : w[j] = a[m + 2 + j - 1]
    <3>1. /\ SubSeq(a, m + 2, len) \in Octets /\ Len(SubSeq(a, m + 2, len)) = len - (m + 2) + 1
          /\ \A j \in 1..len - (m + 2) + 1 : SubSeq(a, m + 2, len)[j] = a[m + 2 + j - 1]
      BY <1>2, <2>1, <2>2, PartOf
    <3> QED
      BY <1>5, <2>1, <2>2, <3>1, Zenon
  <2>4. \A j \in 1..n : m + 2 + j - 1 = m + 1 + j
    OBVIOUS
  <2>5. \A j \in 1..Len(w) : w[j] = p[j]
    BY <1>1, <1>2, <2>3, <2>4
  <2> QED
    BY <1>2, <2>3, <2>5, SeqEqual DEF Octets
<1>8. Split(a) - 1 = m /\ Split(a) + 1 = m + 2
  BY <1>3
<1> QED
  BY <1>4, <1>5, <1>6, <1>7, <1>8

\* Joined again, what comes out is the text that was split.
LEMMA SplitJoins ==
    ASSUME NEW a \in Octets, NEW i \in 1..Len(a), a[i] = Colon
    PROVE  SubSeq(a, 1, i - 1) \o <<Colon>> \o SubSeq(a, i + 1, Len(a)) = a
<1>1. PICK n \in Nat : n = Len(a) /\ i \in 1..n
  BY LenProperties DEF Octets
<1>2. PICK u : u = SubSeq(a, 1, i - 1)
  OBVIOUS
<1>3. PICK p : p = SubSeq(a, i + 1, n)
  OBVIOUS
<1>4. u \in Octets /\ Len(u) = i - 1 /\ \A j \in 1..i - 1 : u[j] = a[j]
  <2>1. /\ 1 \in Nat \ {0} /\ i - 1 \in Nat /\ i - 1 <= Len(a) /\ 1 <= i - 1 + 1
        /\ i - 1 - 1 + 1 = i - 1
    BY <1>1
  <2>2. u \in Octets /\ Len(u) = i - 1 /\ \A j \in 1..i - 1 : u[j] = a[1 + j - 1]
    BY <1>2, <2>1, PartOf
  <2>3. \A j \in 1..i - 1 : 1 + j - 1 = j
    BY <1>1
  <2> QED
    BY <2>2, <2>3
<1>5. p \in Octets /\ Len(p) = n - i /\ \A j \in 1..n - i : p[j] = a[i + j]
  <2>1. i + 1 \in Nat \ {0} /\ n <= Len(a) /\ i + 1 <= n + 1 /\ n - (i + 1) + 1 = n - i
    BY <1>1
  <2>2. p \in Octets /\ Len(p) = n - i /\ \A j \in 1..n - i : p[j] = a[i + 1 + j - 1]
    BY <1>1, <1>3, <2>1, PartOf
  <2>3. \A j \in 1..n - i : i + 1 + j - 1 = i + j
    BY <1>1
  <2> QED
    BY <2>2, <2>3
<1>6. PICK b : b = u \o <<Colon>> \o p
  OBVIOUS
<1>7. i = Len(u) + 1 /\ u \in Octets /\ p \in Octets
  BY <1>1, <1>4, <1>5
<1>8. /\ b \in Octets /\ Len(b) = n
      /\ \A j \in 1..i - 1 : b[j] = u[j]
      /\ b[i] = Colon
      /\ \A j \in 1..n - i : b[i + j] = p[j]
  <2>1. /\ b \in Octets /\ Len(b) = Len(u) + 1 + Len(p)
        /\ \A j \in 1..Len(u) : b[j] = u[j]
        /\ b[Len(u) + 1] = Colon
        /\ \A j \in 1..Len(p) : b[Len(u) + 1 + j] = p[j]
    <3>1. /\ u \o <<Colon>> \o p \in Octets
          /\ Len(u \o <<Colon>> \o p) = Len(u) + 1 + Len(p)
          /\ \A j \in 1..Len(u) : (u \o <<Colon>> \o p)[j] = u[j]
          /\ (u \o <<Colon>> \o p)[Len(u) + 1] = Colon
          /\ \A j \in 1..Len(p) : (u \o <<Colon>> \o p)[Len(u) + 1 + j] = p[j]
      BY <1>7, JoinedAt
    <3> QED
      BY <1>6, <3>1, Zenon
  <2>2. Len(u) = i - 1 /\ Len(p) = n - i /\ Len(u) + 1 + Len(p) = n
    BY <1>1, <1>4, <1>5, <1>7
  <2> QED
    BY <1>7, <2>1, <2>2
<1>9. \A j \in 1..n : b[j] = a[j]
  <2> SUFFICES ASSUME NEW j \in 1..n PROVE b[j] = a[j]
    OBVIOUS
  <2>1. CASE j < i
    <3>1. j \in 1..i - 1
      BY <1>1, <2>1
    <3> QED
      BY <1>4, <1>8, <3>1
  <2>2. CASE j = i
    BY <1>8, <2>2
  <2>3. CASE j > i
    <3>1. PICK k \in 1..n - i : j = i + k
      <4>1. j - i \in 1..n - i /\ j = i + (j - i)
        BY <1>1, <2>3
      <4> QED
        BY <4>1
    <3>2. b[i + k] = p[k]
      BY <1>8, <3>1
    <3> QED
      BY <1>5, <3>1, <3>2
  <2> QED
    BY <1>1, <2>1, <2>2, <2>3
<1>10. b = a
  BY <1>1, <1>8, <1>9, SeqEqual DEF Octets
<1> QED
  BY <1>1, <1>2, <1>3, <1>6, <1>10

-----------------------------------------------------------------------------
(* The credentials of a request. *)

Joined == offered.user \o <<Colon>> \o offered.password

Offered ==
    /\ auth_user \in Octets /\ auth_pwd \in Octets
    /\ offered \in [user : Octets, password : Octets, sent : BOOLEAN]

\* Once the request has been read, its user name and its password are what
\* stands before and behind the first colon of the text that was encoded, and
\* the answer follows from comparing them.
CredentialsIInv ==
    /\ Offered
    /\ ~offered.sent \/ state = "client" => NotRead
    /\ offered.sent /\ state # "client" =>
          /\ username = SubSeq(Joined, 1, Split(Joined) - 1)
          /\ password = SubSeq(Joined, Split(Joined) + 1, Len(Joined))
    /\ state = "refused" => Refused
    /\ state = "let in" => ~Refused

\* Texts that the credentials are made of are bytes.
LEMMA TextsAreOctets == Texts \subseteq Octets
<1>1. Bytes \subseteq 0..255 /\ MaxBytes \in Nat
  BY CredentialsAssumption
<1>2. ASSUME NEW t \in Texts PROVE t \in Octets
  <2>1. PICK m \in 0..MaxBytes : t \in [1..m -> Bytes]
    BY DEF Texts, SeqOf
  <2>2. m \in Nat
    BY <1>1, <2>1
  <2>3. t \in [1..m -> 0..255]
    BY <1>1, <2>1
  <2> QED
    BY <2>2, <2>3, SeqDef DEF Octets
<1> QED
  BY <1>2

\* A request starts with nothing read.
LEMMA CredentialsStart == ArgumentsInit => CredentialsIInv
<1> SUFFICES ASSUME ArgumentsInit PROVE CredentialsIInv
  OBVIOUS
<1>1. <<>> \in Octets
  BY DEF Octets
<1>2. Offered
  <2>1. CASE auth_user = <<>> /\ auth_pwd = <<>> /\ offered = Nothing
    BY <1>1, <2>1 DEF Offered, Nothing
  <2>2. CASE auth_user \in Texts /\ auth_pwd \in Texts /\ offered \in Offers
    <3>1. auth_user \in Octets /\ auth_pwd \in Octets
      BY <2>2, TextsAreOctets
    <3>2. CASE offered = Nothing
      BY <1>1, <3>1, <3>2 DEF Offered, Nothing
    <3>3. CASE offered \in [user : Texts, password : Texts, sent : {TRUE}]
      <4>1. offered \in [user : Octets, password : Octets, sent : BOOLEAN]
        BY <3>3, TextsAreOctets
      <4> QED
        BY <3>1, <4>1 DEF Offered
    <3> QED
      BY <2>2, <3>2, <3>3 DEF Offers
  <2> QED
    BY <2>1, <2>2 DEF ArgumentsInit
<1>3. NotRead /\ state = "client"
  BY DEF ArgumentsInit
<1> QED
  BY <1>2, <1>3 DEF CredentialsIInv

\* The text that was encoded, and the place where it is split.
LEMMA JoinedIs ==
    ASSUME Offered
    PROVE  /\ Joined \in Octets /\ Joined = Decode(Authorization)
           /\ Colons(Joined) # {}
           /\ Split(Joined) \in 1..Len(Joined) /\ Joined[Split(Joined)] = Colon
<1>1. offered.user \in Octets /\ offered.password \in Octets
  BY DEF Offered
<1>2. PICK a : a = Joined
  OBVIOUS
<1>3. /\ a \in Octets /\ Len(a) = Len(offered.user) + 1 + Len(offered.password)
      /\ a[Len(offered.user) + 1] = Colon
  BY <1>1, <1>2, JoinedAt DEF Joined
<1>4. a = Decode(Authorization)
  <2>1. Joined \in Seq(0..255)
    BY <1>2, <1>3, Zenon DEF Octets
  <2>2. Decode(Encode(Joined)) = Joined
    BY <2>1, DecodeEncode, Zenon
  <2>3. Authorization = Encode(Joined)
    BY Zenon DEF Authorization, Joined
  <2> QED
    BY <1>2, <2>2, <2>3, Zenon
<1>5. Len(offered.user) + 1 \in Colons(a) /\ Len(a) \in Nat
  <2>1. Len(offered.user) \in Nat /\ Len(offered.password) \in Nat
    <3>1. \A t \in Octets : Len(t) \in Nat
      BY LenProperties DEF Octets
    <3> QED
      BY <1>1, <3>1, Zenon
  <2>2. Len(a) \in Nat /\ Len(offered.user) + 1 \in 1..Len(a)
    <3>1. PICK m \in Nat, n \in Nat : m = Len(offered.user) /\ n = Len(offered.password)
      BY <2>1
    <3>2. m + 1 + n \in Nat /\ m + 1 \in 1..m + 1 + n
      <4>1. \A i, j \in Nat : i + 1 + j \in Nat /\ i + 1 \in 1..i + 1 + j
        OBVIOUS
      <4> QED
        BY <3>1, <4>1, Zenon
    <3>3. Len(a) = m + 1 + n
      BY <1>3, <3>1, Zenon
    <3> QED
      BY <3>1, <3>2, <3>3, Zenon
  <2> QED
    BY <1>3, <2>2 DEF Colons
<1>6. Split(a) \in Colons(a)
  BY <1>5, SplitIs
<1>7. Split(a) \in 1..Len(a) /\ a[Split(a)] = Colon
  BY <1>6 DEF Colons
<1>8. Colons(a) # {}
  BY <1>5
<1> QED
  BY <1>2, <1>3, <1>4, <1>7, <1>8, Zenon

\* Reading the request gives the credentials the two parts of the text.
LEMMA ReadsCredentials ==
    ASSUME CredentialsIInv, state = "client", state' # "client", GetAuthentication,
           state' # "refused", state' # "let in"
    PROVE  CredentialsIInv'
<1>1. Offered /\ NotRead /\ UNCHANGED <<auth_user, auth_pwd, offered>>
  BY Zenon DEF CredentialsIInv, GetAuthentication
<1>2. auth_user' = auth_user /\ auth_pwd' = auth_pwd /\ offered' = offered
  BY <1>1
<1>3. Offered' /\ Joined' = Joined
  BY <1>1, <1>2 DEF Offered, Joined
<1>4. Joined = Decode(Authorization) /\ Colons(Joined) # {}
  BY <1>1, JoinedIs
<1>5. CASE offered.sent
  <2>1. /\ username' = SubSeq(Joined, 1, Split(Joined) - 1)
        /\ password' = SubSeq(Joined, Split(Joined) + 1, Len(Joined))
    BY <1>4, <1>5, Zenon DEF GetAuthentication
  <2> QED
    BY <1>2, <1>3, <1>5, <2>1, Zenon DEF CredentialsIInv
<1>6. CASE ~offered.sent
  <2>1. username' = username /\ password' = password
    BY <1>6 DEF GetAuthentication
  <2>2. NotRead'
    BY <1>1, <2>1 DEF NotRead
  <2> QED
    BY <1>2, <1>3, <1>6, <2>2, Zenon DEF CredentialsIInv
<1> QED
  BY <1>5, <1>6

\* Parsing the arguments ends in one of two ways.
LEMMA ParsingEnds ==
    ASSUME NEW parameters, ParseArguments(parameters)
    PROVE  state' \in {"undefined", "read"}
BY Zenon DEF ParseArguments

\* Every step of a request preserves the invariant.
LEMMA CredentialsStep == CredentialsIInv /\ [ArgumentsNext]_arguments => CredentialsIInv'
<1> SUFFICES ASSUME CredentialsIInv, [ArgumentsNext]_arguments PROVE CredentialsIInv'
  OBVIOUS
<1>1. CASE ReadPost
  <2>1. state = "client" /\ GetAuthentication /\ state' \in {"undefined", "read"}
    BY <1>1, ParsingEnds, Zenon DEF ReadPost
  <2> QED
    BY <2>1, ReadsCredentials
<1>2. CASE ReadGet
  <2>1. state = "client" /\ GetAuthentication /\ state' \in {"undefined", "read"}
    BY <1>2, ParsingEnds, Zenon DEF ReadGet
  <2> QED
    BY <2>1, ReadsCredentials
<1>3. CASE RequestReceived
  <2>1. /\ auth_user' = auth_user /\ auth_pwd' = auth_pwd /\ offered' = offered
        /\ username' = username /\ password' = password
        /\ state = "read" /\ state' = IF Refused THEN "refused" ELSE "let in"
    BY <1>3 DEF RequestReceived, credentials
  <2>2. Refused' <=> Refused
    BY <2>1 DEF Refused
  <2>3. Joined' = Joined /\ (NotRead' <=> NotRead) /\ (Offered' <=> Offered)
    BY <2>1, Zenon DEF Joined, NotRead, Offered
  <2>4. (state' = "refused" => Refused) /\ (state' = "let in" => ~Refused) /\ state' # "client"
    BY <2>1
  <2>5. state # "client"
    BY <2>1
  <2> QED
    BY <2>1, <2>2, <2>3, <2>4, <2>5, Zenon DEF CredentialsIInv
<1>4. CASE Compose \/ UNCHANGED arguments
  <2>1. /\ auth_user' = auth_user /\ auth_pwd' = auth_pwd /\ offered' = offered
        /\ username' = username /\ password' = password /\ state' = state
    BY <1>4 DEF Compose, AddArgument, arguments, credentials
  <2>2. (Refused' <=> Refused) /\ Joined' = Joined /\ (NotRead' <=> NotRead)
        /\ (Offered' <=> Offered)
    BY <2>1, Zenon DEF Refused, Joined, NotRead, Offered
  <2> QED
    BY <2>1, <2>2, Zenon DEF CredentialsIInv
<1> QED
  BY <1>1, <1>2, <1>3, <1>4 DEF ArgumentsNext

\* A text without a colon, and one with.
LEMMA ColonIn ==
    ASSUME NEW t \in Octets
    PROVE  Colon \in ToSet(t) <=> \E i \in 1..Len(t) : t[i] = Colon
<1>1. DOMAIN t = 1..Len(t)
  BY LenProperties DEF Octets
<1> QED
  BY <1>1 DEF ToSet

\* The answer of the server follows from the credentials that were offered.
LEMMA CredentialsAnswer == CredentialsIInv => CredentialsExact
<1> SUFFICES ASSUME CredentialsIInv, auth_user # <<>> PROVE CredentialsExact
  BY Zenon DEF CredentialsExact
<1> DEFINE known == offered = [user |-> auth_user, password |-> auth_pwd, sent |-> TRUE]
<1>1. Offered /\ auth_user \in Octets /\ offered.user \in Octets /\ offered.password \in Octets
  BY DEF CredentialsIInv, Offered
<1>2. ASSUME offered.sent, state # "client", Colon \notin ToSet(offered.user)
      PROVE  username = offered.user /\ password = offered.password
  <2>1. /\ username = SubSeq(Joined, 1, Split(Joined) - 1)
        /\ password = SubSeq(Joined, Split(Joined) + 1, Len(Joined))
    BY <1>2, Zenon DEF CredentialsIInv
  <2>2. \A i \in 1..Len(offered.user) : offered.user[i] # Colon
    BY <1>1, <1>2, ColonIn
  <2>3. /\ SubSeq(Joined, 1, Split(Joined) - 1) = offered.user
        /\ SubSeq(Joined, Split(Joined) + 1, Len(Joined)) = offered.password
    <3>1. Joined \in Octets /\ Joined = offered.user \o <<Colon>> \o offered.password
      BY <1>1, JoinedIs, Zenon DEF Joined
    <3>2. PICK a \in Octets : a = Joined
      BY <3>1
    <3>3. a = offered.user \o <<Colon>> \o offered.password
      BY <3>1, <3>2, Zenon
    <3>4. SubSeq(a, 1, Split(a) - 1) = offered.user /\ SubSeq(a, Split(a) + 1, Len(a)) = offered.password
      BY <1>1, <2>2, <3>2, <3>3, SplitExact
    <3> QED
      BY <3>2, <3>4, Zenon
  <2> QED
    BY <2>1, <2>3, Zenon
<1>3. ASSUME state = "refused", known PROVE Colon \in ToSet(auth_user)
  <2> SUFFICES ASSUME Colon \notin ToSet(auth_user) PROVE FALSE
    OBVIOUS
  <2>1. offered.sent /\ offered.user = auth_user /\ offered.password = auth_pwd
    BY <1>3
  <2>2. state # "client" /\ Refused
    BY <1>3 DEF CredentialsIInv
  <2>3. username = offered.user /\ password = offered.password
    BY <1>2, <2>1, <2>2, Zenon
  <2> QED
    BY <2>1, <2>2, <2>3, Zenon DEF Refused
<1>4. ASSUME state = "let in"
      PROVE  \/ known /\ Colon \notin ToSet(auth_user)
             \/ /\ offered.sent /\ Colon \in ToSet(offered.user)
                /\ offered.user \o <<Colon>> \o offered.password =
                       auth_user \o <<Colon>> \o auth_pwd
  <2>1. state # "client" /\ username = auth_user /\ password = auth_pwd
    BY <1>4, Zenon DEF CredentialsIInv, Refused
  <2>2. offered.sent
    BY <2>1, Zenon DEF CredentialsIInv, NotRead
  <2>3. CASE Colon \in ToSet(offered.user)
    <3>1. /\ username = SubSeq(Joined, 1, Split(Joined) - 1)
          /\ password = SubSeq(Joined, Split(Joined) + 1, Len(Joined))
      BY <2>1, <2>2, Zenon DEF CredentialsIInv
    <3>2. username \o <<Colon>> \o password = Joined
      <4>1. /\ Joined \in Octets /\ Split(Joined) \in 1..Len(Joined)
            /\ Joined[Split(Joined)] = Colon
        BY <1>1, JoinedIs
      <4> QED
        BY <3>1, <4>1, SplitJoins, Zenon
    <3> QED
      BY <2>1, <2>2, <2>3, <3>2, Zenon DEF Joined
  <2>4. CASE Colon \notin ToSet(offered.user)
    <3>1. offered.user = auth_user /\ offered.password = auth_pwd
      BY <1>2, <2>1, <2>2, <2>4, Zenon
    <3>2. offered = [user |-> offered.user, password |-> offered.password, sent |-> offered.sent]
      BY <1>1 DEF Offered
    <3>3. known
      BY <2>2, <3>1, <3>2
    <3> QED
      BY <2>4, <3>1, <3>3, Zenon
  <2> QED
    BY <2>3, <2>4
<1> QED
  BY <1>3, <1>4, Zenon DEF CredentialsExact

\* A server with a user name lets exactly those in who offer that name and its
\* password; a name with a colon is the exception that CredentialsExact names.
THEOREM LetsInExactly == ArgumentsSpec => []CredentialsExact
<1>1. ArgumentsInit => CredentialsIInv
  BY CredentialsStart
<1>2. CredentialsIInv /\ [ArgumentsNext]_arguments => CredentialsIInv'
  BY CredentialsStep
<1>3. CredentialsIInv => CredentialsExact
  BY CredentialsAnswer
<1> QED
  BY <1>1, <1>2, <1>3, PTL DEF ArgumentsSpec

-----------------------------------------------------------------------------
(***************************************************************************)
(* The arguments of a request.  Every one of them is a stretch of what the *)
(* client has encoded, between the separators: that is the invariant.  A   *)
(* text that spells the same, place by place, has the same tokens, and     *)
(* unescaping it gives the names and the values back.                      *)
(***************************************************************************)

\* What a character of the client stands for, in a text without "%".
Meaning(c) == IF method = "POST" /\ c = PlusSign THEN Space ELSE c % 256

\* The tokens of a text are the stretches that cover it between delimiters.
LEMMA TokensAre ==
    ASSUME NEW str \in Seq(Nat), NEW delimiters,
           NEW stretches \in SUBSET ((1..Len(str)) \X (1..Len(str))),
           \A s \in stretches :
              /\ s[1] <= s[2] /\ \A p \in s[1]..s[2] : str[p] \notin delimiters
              /\ s[1] = 1 \/ str[s[1] - 1] \in delimiters
              /\ s[2] = Len(str) \/ str[s[2] + 1] \in delimiters,
           \A p \in 1..Len(str) :
              /\ str[p] # Nul
              /\ str[p] \in delimiters \/ \E s \in stretches : s[1] <= p /\ p <= s[2]
    PROVE  Tokens(str, delimiters) = stretches
<1> DEFINE Ends(p) == str[p] \in delimiters \cup {Nul}
           pairs == (1..Len(str)) \X (1..Len(str))
           Is(r) == /\ r[1] <= r[2] /\ \A p \in r[1]..r[2] : ~Ends(p)
                    /\ r[1] = 1 \/ Ends(r[1] - 1)
                    /\ r[2] = Len(str) \/ Ends(r[2] + 1)
                    /\ \A p \in 1..r[1] : str[p] # Nul
<1>1. Tokens(str, delimiters) = {r \in pairs : Is(r)}
  BY Zenon DEF Tokens
<1>2. \A p \in 1..Len(str) : Ends(p) <=> str[p] \in delimiters
  OBVIOUS
<1>3. \A r \in pairs : r[1] \in 1..Len(str) /\ r[2] \in 1..Len(str)
  OBVIOUS
<1>4. ASSUME NEW s \in stretches PROVE Is(s)
  <2>1. s[1] \in 1..Len(str) /\ s[2] \in 1..Len(str)
    BY <1>3
  <2>2. \A p \in s[1]..s[2] : p \in 1..Len(str)
    BY <2>1
  <2>3. \A p \in 1..s[1] : p \in 1..Len(str)
    BY <2>1
  <2>4. s[1] = 1 \/ s[1] - 1 \in 1..Len(str)
    BY <2>1
  <2>5. s[2] = Len(str) \/ s[2] + 1 \in 1..Len(str)
    BY <2>1
  <2> QED
    BY <1>2, <2>2, <2>3, <2>4, <2>5, Zenon
<1>5. ASSUME NEW r \in pairs, Is(r) PROVE r \in stretches
  <2>1. r[1] \in 1..Len(str) /\ r[2] \in 1..Len(str) /\ r[1] <= r[2]
    BY <1>3, <1>5
  <2>2. r[1] \in r[1]..r[2]
    BY <2>1
  <2>3. PICK s \in stretches : s[1] <= r[1] /\ r[1] <= s[2]
    BY <1>2, <1>5, <2>1, <2>2, Zenon
  <2>4. s[1] \in 1..Len(str) /\ s[2] \in 1..Len(str)
    BY <1>3, <2>3
  <2>5. \A p \in s[1]..s[2] : p \in 1..Len(str) /\ ~Ends(p)
    <3>1. \A p \in s[1]..s[2] : p \in 1..Len(str)
      BY <2>4
    <3> QED
      BY <1>2, <2>3, <3>1, Zenon
  <2>6. r[1] = s[1]
    <3>1. CASE s[1] < r[1]
      <4>1. r[1] - 1 \in s[1]..s[2] /\ r[1] # 1
        BY <2>1, <2>3, <2>4, <3>1
      <4> QED
        BY <1>5, <2>5, <4>1, Zenon
    <3> QED
      BY <2>1, <2>3, <2>4, <3>1
  <2>7. ~(s[2] < r[2])
    <3> SUFFICES ASSUME s[2] < r[2] PROVE FALSE
      OBVIOUS
    <3>1. s[2] + 1 \in r[1]..r[2] /\ s[2] + 1 \in 1..Len(str) /\ s[2] # Len(str)
      BY <2>1, <2>3, <2>4
    <3>2. str[s[2] + 1] \in delimiters
      BY <2>3, <3>1, Zenon
    <3> QED
      BY <1>5, <3>1, <3>2
  <2>8. ~(r[2] < s[2])
    <3> SUFFICES ASSUME r[2] < s[2] PROVE FALSE
      OBVIOUS
    <3>1. r[2] + 1 \in s[1]..s[2] /\ r[2] # Len(str)
      BY <2>1, <2>4, <2>6
    <3> QED
      BY <1>5, <2>5, <3>1, Zenon
  <2>9. r[2] = s[2]
    BY <2>1, <2>4, <2>7, <2>8
  <2>10. r = <<r[1], r[2]>> /\ s = <<s[1], s[2]>>
    OBVIOUS
  <2> QED
    BY <2>3, <2>6, <2>9, <2>10
<1>6. \A s \in stretches : s \in pairs
  OBVIOUS
<1> HIDE DEF Ends, pairs, Is
<1> QED
  BY <1>1, <1>4, <1>5, <1>6

\* A stretch of a text.
LEMMA PartIs ==
    ASSUME NEW S, NEW str \in Seq(S), NEW a \in Nat, NEW b \in Nat,
           1 <= a, a <= b + 1, b <= Len(str)
    PROVE  /\ SubSeq(str, a, b) \in Seq(S) /\ Len(SubSeq(str, a, b)) = b - a + 1
           /\ \A i \in 1..b - a + 1 : SubSeq(str, a, b)[i] = str[a + i - 1]
<1>1. \A i \in a..b : str[i] \in S
  OBVIOUS
<1>2. /\ SubSeq(str, a, b) \in Seq(S)
      /\ Len(SubSeq(str, a, b)) = IF a <= b THEN b - a + 1 ELSE 0
      /\ \A i \in 1..b - a + 1 : SubSeq(str, a, b)[i] = str[a + i - 1]
  BY <1>1, SubSeqProperties
<1> QED
  BY <1>2

\* A text without "%" has no escapes, and keeps its places.
LEMMA PercentIs ==
    ASSUME NEW str \in Seq(Nat), \A p \in 1..Len(str) : str[p] # PercentSign
    PROVE  Percent(str) = [i \in 1..Len(str) |-> str[i] % 256]
<1>1. Escapes(str) = {}
  <2>1. \A p \in 1..Len(str) - 2 : p \in 1..Len(str)
    OBVIOUS
  <2> QED
    BY <2>1, Zenon DEF Escapes
<1> DEFINE kept == 1..Len(str)
           Place(i) == CHOOSE p \in kept : Cardinality({q \in kept : q <= p}) = i
<1>2. \A p \in kept : Cardinality({q \in kept : q <= p}) = p
  <2> SUFFICES ASSUME NEW p \in kept PROVE Cardinality({q \in kept : q <= p}) = p
    OBVIOUS
  <2>1. {q \in kept : q <= p} = 1..p
    OBVIOUS
  <2>2. Cardinality(1..p) = p
    BY FS_Interval
  <2> QED
    BY <2>1, <2>2, Zenon
<1>3. \A i \in kept : Place(i) = i
  BY <1>2, Zenon
<1>4. Cardinality(kept) = Len(str)
  <2>1. Len(str) \in Nat /\ 1 \in Int
    OBVIOUS
  <2>2. Cardinality(1..Len(str)) = IF 1 > Len(str) THEN 0 ELSE (Len(str) - 1) + 1
    BY <2>1, FS_Interval
  <2> QED
    BY <2>1, <2>2
<1> DEFINE KeptIf(e) == {p \in 1..Len(str) : p - 1 \notin e /\ p - 2 \notin e}
           At(e, i) == CHOOSE p \in KeptIf(e) : Cardinality({q \in KeptIf(e) : q <= p}) = i
           Char(e, p) == IF p \in e
                            THEN (16 * HexValue(str[p + 1])) + HexValue(str[p + 2])
                            ELSE str[p] % 256
<1>5. Percent(str) = [i \in 1..Cardinality(KeptIf({})) |-> Char({}, At({}, i))]
  <2>1. Percent(str) = [i \in 1..Cardinality(KeptIf(Escapes(str))) |->
                            Char(Escapes(str), At(Escapes(str), i))]
    BY Zenon DEF Percent
  <2> HIDE DEF KeptIf, At, Char
  <2> QED
    BY <1>1, <2>1, Zenon
<1>6. KeptIf({}) = kept
  OBVIOUS
<1>7. \A i \in kept : Char({}, At({}, i)) = str[i] % 256
  <2>1. \A i \in kept : At({}, i) = Place(i)
    <3> HIDE DEF KeptIf
    <3>1. ASSUME NEW i \in kept PROVE At({}, i) = Place(i)
      BY <1>6, Zenon
    <3> QED
      BY <3>1, Zenon
  <2>2. \A p : Char({}, p) = str[p] % 256
    OBVIOUS
  <2> HIDE DEF At, Char, Place
  <2> QED
    BY <1>3, <2>1, <2>2, Zenon
<1> HIDE DEF Place, KeptIf, At, Char
<1>8. 1..Cardinality(KeptIf({})) = 1..Len(str)
  BY <1>4, <1>6, Zenon
<1> QED
  BY <1>5, <1>7, <1>8, Zenon

\* So unescaping it gives what its characters stand for.
LEMMA UnescapeIs ==
    ASSUME NEW str \in Seq(Nat), \A p \in 1..Len(str) : str[p] # PercentSign
    PROVE  Unescape(str) = [i \in 1..Len(str) |-> Meaning(str[i])]
<1>1. CASE method = "POST"
  <2> DEFINE plus == [i \in 1..Len(str) |-> IF str[i] = PlusSign THEN Space ELSE str[i]]
  <2>1. plus \in Seq(Nat) /\ Len(plus) = Len(str)
    <3>1. plus \in [1..Len(str) -> Nat]
      BY DEF Space
    <3> QED
      BY <3>1, SeqDef
  <2>2. \A i \in 1..Len(str) : plus[i] = IF str[i] = PlusSign THEN Space ELSE str[i]
    OBVIOUS
  <2>3. \A i \in 1..Len(str) : plus[i] # PercentSign
    BY <2>2 DEF Space, PercentSign
  <2>4. \A i \in 1..Len(str) : plus[i] % 256 = Meaning(str[i])
    BY <1>1, <2>2 DEF Meaning, Space
  <2>5. Plus(str) = plus
    BY <1>1, Zenon DEF Plus
  <2> HIDE DEF plus
  <2>6. Percent(plus) = [i \in 1..Len(str) |-> plus[i] % 256]
    BY <2>1, <2>3, PercentIs, Zenon
  <2>7. [i \in 1..Len(str) |-> plus[i] % 256] = [i \in 1..Len(str) |-> Meaning(str[i])]
    BY <2>4, Zenon
  <2> QED
    BY <2>5, <2>6, <2>7, Zenon DEF Unescape
<1>2. CASE method # "POST"
  <2>1. Plus(str) = str
    BY <1>2, Zenon DEF Plus
  <2>2. \A i \in 1..Len(str) : Meaning(str[i]) = str[i] % 256
    BY <1>2, Zenon DEF Meaning
  <2>3. [i \in 1..Len(str) |-> str[i] % 256] = [i \in 1..Len(str) |-> Meaning(str[i])]
    BY <2>2, Zenon
  <2> QED
    BY <2>1, <2>3, PercentIs, Zenon DEF Unescape
<1> QED
  BY <1>1, <1>2

\* The characters of str from place a on spell a name or a value.
Spells(str, a, spelled) ==
    \A i \in 1..Len(spelled) :
        str[a + i - 1] \notin Special /\ Meaning(str[a + i - 1]) = spelled[i]

\* Such a part of a text is unescaped to what it spells.
LEMMA SpelledIs ==
    ASSUME NEW str \in Seq(Nat), NEW spelled \in Octets,
           NEW a \in Nat, NEW b \in Nat, 1 <= a, b <= Len(str), a + Len(spelled) = b + 1,
           Spells(str, a, spelled)
    PROVE  Unescape(SubSeq(str, a, b)) = spelled
<1> DEFINE part == SubSeq(str, a, b)
<1>1. Len(spelled) \in Nat /\ b - a + 1 = Len(spelled) /\ a <= b + 1
  BY DEF Octets
<1>2. part \in Seq(Nat) /\ Len(part) = Len(spelled)
      /\ \A i \in 1..Len(spelled) : part[i] = str[a + i - 1]
  <2>1. /\ SubSeq(str, a, b) \in Seq(Nat) /\ Len(SubSeq(str, a, b)) = b - a + 1
        /\ \A i \in 1..b - a + 1 : SubSeq(str, a, b)[i] = str[a + i - 1]
    BY <1>1, PartIs
  <2> QED
    BY <1>1, <2>1, Zenon
<1> HIDE DEF part
<1>3. \A i \in 1..Len(spelled) : part[i] # PercentSign /\ Meaning(part[i]) = spelled[i]
  BY <1>2, Zenon DEF Spells, Special
<1>4. Unescape(part) = [i \in 1..Len(part) |-> Meaning(part[i])]
  <2>1. \A i \in 1..Len(part) : part[i] # PercentSign
    BY <1>2, <1>3, Zenon
  <2> QED
    BY <1>2, <2>1, UnescapeIs, Zenon
<1>5. [i \in 1..Len(part) |-> Meaning(part[i])] = [i \in 1..Len(spelled) |-> spelled[i]]
  BY <1>2, <1>3, Zenon
<1>6. [i \in 1..Len(spelled) |-> spelled[i]] = spelled
  BY DEF Octets
<1> QED
  BY <1>4, <1>5, <1>6, Zenon DEF part

\* The first and the last of one or two tokens.
LEMMA FirstFinal ==
    ASSUME NEW r, NEW s, r[1] \in Nat, s[1] \in Nat, r[1] < s[1]
    PROVE  /\ First({r}) = r /\ Final({r}) = r
           /\ First({r, s}) = r /\ Final({r, s}) = s
BY DEF First, Final

\* One token is not two.
LEMMA OneOrTwo ==
    ASSUME NEW r, NEW s, r # s
    PROVE  Cardinality({r}) = 1 /\ Cardinality({r, s}) = 2
<1>1. IsFiniteSet({r}) /\ Cardinality({r}) = 1
  BY FS_Singleton
<1>2. Cardinality({r} \cup {s}) = Cardinality({r}) + 1
  BY <1>1, FS_AddElement
<1>3. {r} \cup {s} = {r, s}
  OBVIOUS
<1> QED
  BY <1>1, <1>2, <1>3

\* name=value has two items, and name= has one.
LEMMA ItemsAre ==
    ASSUME NEW arg \in Seq(Nat), NEW n \in Nat \ {0}, NEW v \in Nat,
           Len(arg) = n + 1 + v, arg[n + 1] = Equal,
           \A p \in 1..n : arg[p] \notin Special,
           \A p \in n + 2..n + 1 + v : arg[p] \notin Special
    PROVE  Items(arg) = IF v = 0 THEN {<<1, n>>} ELSE {<<1, n>>, <<n + 2, n + 1 + v>>}
<1> DEFINE first == <<1, n>>
           second == <<n + 2, n + 1 + v>>
           items == IF v = 0 THEN {first} ELSE {first, second}
<1>1. first[1] = 1 /\ first[2] = n /\ second[1] = n + 2 /\ second[2] = n + 1 + v
  OBVIOUS
<1>2. first \in items /\ (v # 0 => second \in items)
      /\ \A s \in items : s = first \/ (s = second /\ v # 0)
  OBVIOUS
<1>3. first \in (1..Len(arg)) \X (1..Len(arg))
  OBVIOUS
<1>4. v # 0 => second \in (1..Len(arg)) \X (1..Len(arg))
  OBVIOUS
<1> HIDE DEF first, second, items
<1>5. items \in SUBSET ((1..Len(arg)) \X (1..Len(arg)))
  BY <1>2, <1>3, <1>4
<1>6. \A p \in 1..Len(arg) : p \in 1..n \/ p = n + 1 \/ (p \in n + 2..n + 1 + v /\ v # 0)
  OBVIOUS
<1>7. \A p \in 1..Len(arg) :
         /\ arg[p] # Nul
         /\ arg[p] \in {Equal} \/ \E s \in items : s[1] <= p /\ p <= s[2]
  <2> SUFFICES ASSUME NEW p \in 1..Len(arg)
               PROVE  /\ arg[p] # Nul
                      /\ arg[p] \in {Equal} \/ \E s \in items : s[1] <= p /\ p <= s[2]
    OBVIOUS
  <2>1. CASE p \in 1..n
    <3>1. first[1] <= p /\ p <= first[2]
      BY <1>1, <2>1
    <3> QED
      BY <1>2, <2>1, <3>1, Zenon DEF Special
  <2>2. CASE p = n + 1
    BY <2>2 DEF Equal, Nul
  <2>3. CASE p \in n + 2..n + 1 + v /\ v # 0
    <3>1. second[1] <= p /\ p <= second[2]
      BY <1>1, <2>3
    <3> QED
      BY <1>2, <2>3, <3>1, Zenon DEF Special
  <2> QED
    BY <1>6, <2>1, <2>2, <2>3
<1>8. ASSUME NEW s \in items
      PROVE  /\ s[1] <= s[2] /\ \A p \in s[1]..s[2] : arg[p] \notin {Equal}
             /\ s[1] = 1 \/ arg[s[1] - 1] \in {Equal}
             /\ s[2] = Len(arg) \/ arg[s[2] + 1] \in {Equal}
  <2>1. CASE s = first
    <3>1. s[1] = 1 /\ s[2] = n
      BY <1>1, <2>1
    <3>2. \A p \in s[1]..s[2] : arg[p] \notin {Equal}
      BY <3>1, Zenon DEF Special
    <3> QED
      BY <3>1, <3>2
  <2>2. CASE s = second /\ v # 0
    <3>1. s[1] = n + 2 /\ s[2] = n + 1 + v
      BY <1>1, <2>2
    <3>2. \A p \in s[1]..s[2] : arg[p] \notin {Equal}
      BY <3>1, Zenon DEF Special
    <3>3. s[1] <= s[2] /\ s[2] = Len(arg) /\ s[1] - 1 = n + 1
      BY <2>2, <3>1
    <3> QED
      BY <3>2, <3>3
  <2> QED
    BY <1>2, <2>1, <2>2
<1>9. Tokens(arg, {Equal}) = items
  BY <1>5, <1>7, <1>8, TokensAre
<1> QED
  BY <1>9, Zenon DEF Items, items, first, second

\* name=value is a name and a value, and name= a name only.
LEMMA ArgumentIs ==
    ASSUME NEW arg \in Seq(Nat), NEW name \in Octets, NEW value \in Octets, name # <<>>,
           Len(arg) = Len(name) + 1 + Len(value), arg[Len(name) + 1] = Equal,
           Spells(arg, 1, name), Spells(arg, Len(name) + 2, value)
    PROVE  Items(arg) # {} /\ Name(arg) = name /\ Value(arg) = value
<1> DEFINE n == Len(name)
           v == Len(value)
           first == <<1, n>>
           second == <<n + 2, n + 1 + v>>
<1>1. n \in Nat \ {0} /\ v \in Nat /\ Len(arg) \in Nat /\ Len(arg) = n + 1 + v
  BY DEF Octets
<1>2. v = 0 => value = <<>>
  BY DEF Octets
<1>3. \A p \in 1..n : arg[p] \notin Special
  <2>1. \A i \in 1..n : arg[1 + i - 1] \notin Special
    BY Zenon DEF Spells
  <2> QED
    BY <1>1, <2>1
<1>4. \A p \in n + 2..n + 1 + v : arg[p] \notin Special
  <2>1. \A i \in 1..v : arg[(n + 2) + i - 1] \notin Special
    BY Zenon DEF Spells
  <2> SUFFICES ASSUME NEW p \in n + 2..n + 1 + v PROVE arg[p] \notin Special
    OBVIOUS
  <2>2. p - (n + 1) \in 1..v /\ (n + 2) + (p - (n + 1)) - 1 = p
    BY <1>1
  <2> QED
    BY <2>1, <2>2, Zenon
<1>5. arg[n + 1] = Equal
  OBVIOUS
<1>6. Unescape(SubSeq(arg, 1, n)) = name
  BY <1>1, SpelledIs
<1>7. v # 0 => Unescape(SubSeq(arg, n + 2, n + 1 + v)) = value
  <2>1. n + 2 \in Nat /\ n + 1 + v \in Nat /\ 1 <= n + 2 /\ n + 1 + v <= Len(arg)
        /\ (n + 2) + v = (n + 1 + v) + 1
    BY <1>1
  <2> QED
    BY <2>1, SpelledIs, Zenon
<1>8. /\ first[1] = 1 /\ first[2] = n /\ second[1] = n + 2 /\ second[2] = n + 1 + v
      /\ first # second /\ first[1] \in Nat /\ second[1] \in Nat /\ first[1] < second[1]
  BY <1>1
<1> HIDE DEF n, v
<1>9. Items(arg) = IF v = 0 THEN {first} ELSE {first, second}
  BY <1>1, <1>3, <1>4, <1>5, ItemsAre
<1> HIDE DEF first, second
<1>10. /\ Cardinality({first}) = 1 /\ Cardinality({first, second}) = 2
       /\ First({first}) = first /\ First({first, second}) = first
       /\ Final({first, second}) = second
  BY <1>8, OneOrTwo, FirstFinal
<1>11. CASE v = 0
  <2>1. Items(arg) = {first}
    BY <1>9, <1>11, Zenon
  <2>2. Value(arg) = <<>>
    <3>1. Cardinality(Items(arg)) # 2
      <4>1. 1 # 2
        OBVIOUS
      <4> QED
        BY <1>10, <2>1, <4>1, Zenon
    <3> QED
      BY <3>1, Zenon DEF Value
  <2>3. Name(arg) = name
    BY <1>6, <1>8, <1>10, <2>1, Zenon DEF Name, Part
  <2> QED
    BY <1>2, <1>11, <2>1, <2>2, <2>3, Zenon
<1>12. CASE v # 0
  <2>1. Items(arg) = {first, second}
    BY <1>9, <1>12, Zenon
  <2>2. Value(arg) = value
    BY <1>7, <1>8, <1>10, <1>12, <2>1, Zenon DEF Value, Part
  <2>3. Name(arg) = name
    BY <1>6, <1>8, <1>10, <2>1, Zenon DEF Name, Part
  <2> QED
    BY <2>1, <2>2, <2>3, Zenon
<1> QED
  BY <1>11, <1>12, Zenon

\* An argument of the form, and the place where it ends in what is sent.
Argument == [name : Octets, value : Octets, from : Nat]
Ending(e) == e.from + Len(e.name) + Len(e.value)

\* The characters of str from place a on are what the client writes for a name
\* or a value.
Writes(str, a, written) == \A i \in 1..Len(written) : str[a + i - 1] = Escape(written[i])

\* The argument e is in str, between separators.
StandsIn(str, e) ==
    /\ e.from >= 1 /\ e.name # <<>> /\ Ending(e) <= Len(str)
    /\ Writes(str, e.from, e.name)
    /\ str[e.from + Len(e.name)] = Equal
    /\ Writes(str, e.from + Len(e.name) + 1, e.value)
    /\ e.from = 1 \/ str[e.from - 1] = Amp
    /\ Ending(e) = Len(str) \/ str[Ending(e) + 1] = Amp

\* str is the arguments f, one after the other, and nothing else.
ComposedOf(str, f) ==
    /\ str \in Seq(Nat) /\ f \in Seq(Argument) /\ (f = <<>> => str = <<>>)
    /\ \A k \in 1..Len(f) : StandsIn(str, f[k])
    /\ \A p \in 1..Len(str) :
          str[p] = Amp \/ \E k \in 1..Len(f) : f[k].from <= p /\ p <= Ending(f[k])
    /\ \A k \in 1..Len(f), j \in 1..Len(f) : j < k => Ending(f[j]) < f[k].from

Composed == ComposedOf(encoded, form)

\* Of the arguments of the same name the last one counts.
Result(a) ==
    /\ DOMAIN a = {form[k].name : k \in DOMAIN form}
    /\ \A k \in DOMAIN form :
          a[form[k].name] = form[k].value
              \/ \E j \in k + 1..Len(form) : form[j].name = form[k].name

ArgsIInv ==
    /\ method \in {"GET", "POST"}
    /\ Composed
    /\ state # "client" /\ (method = "GET" => Plain) => state # "undefined" /\ Result(args)

\* str says the same as what the client has encoded, place by place.
Says(str) ==
    /\ str \in Seq(Nat) /\ Len(str) = Len(encoded)
    /\ \A p \in 1..Len(str) : encoded[p] \in {Amp, Equal} => str[p] = encoded[p]
    /\ \A k \in 1..Len(form) :
          /\ Spells(str, form[k].from, form[k].name)
          /\ Spells(str, form[k].from + Len(form[k].name) + 1, form[k].value)

\* An argument of the form and its measures.
LEMMA ArgumentOf ==
    ASSUME Composed, NEW k \in 1..Len(form)
    PROVE  /\ form[k].name \in Octets /\ form[k].value \in Octets
           /\ form[k].from \in Nat /\ form[k].from >= 1 /\ form[k].name # <<>>
           /\ Len(form[k].name) \in Nat \ {0} /\ Len(form[k].value) \in Nat
           /\ Ending(form[k]) \in Nat /\ Ending(form[k]) <= Len(encoded)
           /\ Ending(form[k]) = form[k].from + Len(form[k].name) + Len(form[k].value)
           /\ StandsIn(encoded, form[k])
<1>1. form \in Seq(Argument) /\ StandsIn(encoded, form[k])
  BY DEF Composed, ComposedOf
<1>2. form[k] \in Argument
  BY <1>1
<1>3. form[k].name \in Octets /\ form[k].value \in Octets /\ form[k].from \in Nat
  BY <1>2 DEF Argument
<1>4. form[k].from >= 1 /\ form[k].name # <<>> /\ Ending(form[k]) <= Len(encoded)
  BY <1>1 DEF StandsIn
<1>5. \A t \in Octets : Len(t) \in Nat /\ (t # <<>> => Len(t) # 0)
  BY DEF Octets
<1>6. Len(form[k].name) \in Nat \ {0} /\ Len(form[k].value) \in Nat
  BY <1>3, <1>4, <1>5
<1> QED
  BY <1>1, <1>3, <1>4, <1>6 DEF Ending

\* A place of an argument is one of its name, of its value, or between them.
LEMMA InArgument ==
    ASSUME Composed, NEW k \in 1..Len(form), NEW p \in form[k].from..Ending(form[k])
    PROVE  \/ p - form[k].from + 1 \in 1..Len(form[k].name)
           \/ p = form[k].from + Len(form[k].name)
           \/ p - (form[k].from + Len(form[k].name)) \in 1..Len(form[k].value)
<1> DEFINE a == form[k].from
           n == Len(form[k].name)
           v == Len(form[k].value)
<1>1. a \in Nat /\ n \in Nat /\ v \in Nat /\ Ending(form[k]) = a + n + v
  BY ArgumentOf, Zenon
<1> HIDE DEF a, n, v
<1>2. p \in Int /\ p >= a /\ p <= a + n + v
  BY <1>1 DEF a
<1>3. p - a + 1 \in 1..n \/ p = a + n \/ p - (a + n) \in 1..v
  BY <1>1, <1>2
<1> QED
  BY <1>3 DEF a, n, v

\* In a text that says the same, an argument contains no separator.
LEMMA NoSeparator ==
    ASSUME Composed, NEW str, Says(str),
           NEW k \in 1..Len(form), NEW p \in form[k].from..Ending(form[k])
    PROVE  str[p] # Nul /\ str[p] \notin {Query, Amp}
<1> DEFINE a == form[k].from
           n == Len(form[k].name)
           v == Len(form[k].value)
<1>0. a \in Nat /\ a >= 1 /\ n \in Nat /\ v \in Nat /\ Ending(form[k]) = a + n + v
      /\ Ending(form[k]) <= Len(encoded) /\ StandsIn(encoded, form[k])
  BY ArgumentOf, Zenon
<1>1. /\ \A i \in 1..n : str[a + i - 1] \notin Special
      /\ \A i \in 1..v : str[(a + n + 1) + i - 1] \notin Special
  BY Zenon DEF Says, Spells
<1>2. str[a + n] = Equal
  <2>1. encoded[a + n] = Equal
    BY <1>0, Zenon DEF StandsIn
  <2>2. Len(str) = Len(encoded) /\ Len(encoded) \in Nat
    BY DEF Says, Composed, ComposedOf
  <2>3. a + n \in 1..Len(str)
    <3> HIDE DEF a, n, v
    <3> QED
      BY <1>0, <2>2
  <2> QED
    BY <2>1, <2>3, Zenon DEF Says
<1>3. p - a + 1 \in 1..n \/ p = a + n \/ p - (a + n) \in 1..v
  BY InArgument, Zenon
<1>4. p \in Int
  BY <1>0
<1> HIDE DEF a, n, v
<1>5. CASE p - a + 1 \in 1..n
  <2>1. a + (p - a + 1) - 1 = p
    BY <1>0, <1>4
  <2> QED
    BY <1>1, <1>5, <2>1, Zenon DEF Special
<1>6. CASE p = a + n
  BY <1>2, <1>6 DEF Equal, Nul, Query, Amp
<1>7. CASE p - (a + n) \in 1..v
  <2>1. (a + n + 1) + (p - (a + n)) - 1 = p
    BY <1>0, <1>4
  <2> QED
    BY <1>1, <1>7, <2>1, Zenon DEF Special
<1> QED
  BY <1>3, <1>5, <1>6, <1>7

\* The stretch of an argument.
Stretch(k) == <<form[k].from, Ending(form[k])>>

\* So its tokens are the arguments of the form.
LEMMA TokensOf ==
    ASSUME Composed, NEW str, Says(str)
    PROVE  Tokens(str, {Query, Amp}) = {Stretch(k) : k \in 1..Len(form)}
<1> DEFINE stretches == {Stretch(k) : k \in 1..Len(form)}
<1>1. str \in Seq(Nat) /\ Len(str) = Len(encoded) /\ Len(str) \in Nat
  BY DEF Says
<1>2. ASSUME NEW k \in 1..Len(form)
      PROVE  /\ form[k].from \in 1..Len(str) /\ Ending(form[k]) \in 1..Len(str)
             /\ form[k].from <= Ending(form[k])
             /\ form[k].from = 1 \/ encoded[form[k].from - 1] = Amp
             /\ Ending(form[k]) = Len(encoded) \/ encoded[Ending(form[k]) + 1] = Amp
  <2>1. /\ form[k].from \in Nat /\ form[k].from >= 1
        /\ Len(form[k].name) \in Nat \ {0} /\ Len(form[k].value) \in Nat
        /\ Ending(form[k]) \in Nat /\ Ending(form[k]) <= Len(encoded)
        /\ Ending(form[k]) = form[k].from + Len(form[k].name) + Len(form[k].value)
        /\ StandsIn(encoded, form[k])
    BY ArgumentOf, Zenon
  <2>2. /\ form[k].from = 1 \/ encoded[form[k].from - 1] = Amp
        /\ Ending(form[k]) = Len(encoded) \/ encoded[Ending(form[k]) + 1] = Amp
    BY <2>1, Zenon DEF StandsIn
  <2>3. /\ form[k].from \in 1..Len(str) /\ Ending(form[k]) \in 1..Len(str)
        /\ form[k].from <= Ending(form[k])
    <3>1. \A a \in Nat, n \in Nat \ {0}, v \in Nat, b \in Nat, len \in Nat :
             b = a + n + v /\ a >= 1 /\ b <= len => a \in 1..len /\ b \in 1..len /\ a <= b
      OBVIOUS
    <3> QED
      BY <1>1, <2>1, <3>1, Zenon
  <2> QED
    BY <2>2, <2>3
<1>3. \A k \in 1..Len(form) : Stretch(k)[1] = form[k].from /\ Stretch(k)[2] = Ending(form[k])
  BY DEF Stretch
<1>4. stretches \in SUBSET ((1..Len(str)) \X (1..Len(str)))
  BY <1>2 DEF Stretch
<1>5. ASSUME NEW p \in 1..Len(str), encoded[p] = Amp PROVE str[p] = Amp
  BY <1>5, Zenon DEF Says
<1>6. ASSUME NEW s \in stretches
      PROVE  /\ s[1] <= s[2] /\ \A p \in s[1]..s[2] : str[p] \notin {Query, Amp}
             /\ s[1] = 1 \/ str[s[1] - 1] \in {Query, Amp}
             /\ s[2] = Len(str) \/ str[s[2] + 1] \in {Query, Amp}
  <2>1. PICK k \in 1..Len(form) : s = Stretch(k)
    BY <1>6
  <2>2. s[1] = form[k].from /\ s[2] = Ending(form[k])
    BY <1>3, <2>1, Zenon
  <2>3. \A p \in s[1]..s[2] : str[p] \notin {Query, Amp}
    BY <2>2, NoSeparator, Zenon
  <2>4. s[1] = 1 \/ (s[1] - 1 \in 1..Len(str) /\ encoded[s[1] - 1] = Amp)
    BY <1>2, <2>2
  <2>5. s[2] = Len(str) \/ (s[2] + 1 \in 1..Len(str) /\ encoded[s[2] + 1] = Amp)
    <3>1. \A b \in 1..Len(str) : b = Len(str) \/ b + 1 \in 1..Len(str)
      BY <1>1
    <3> QED
      BY <1>1, <1>2, <2>2, <3>1, Zenon
  <2>6. s[1] <= s[2]
    BY <1>2, <2>2, Zenon
  <2>7. Amp \in {Query, Amp}
    OBVIOUS
  <2> QED
    BY <1>5, <2>3, <2>4, <2>5, <2>6, <2>7, Zenon
<1>7. ASSUME NEW p \in 1..Len(str)
      PROVE  /\ str[p] # Nul
             /\ str[p] \in {Query, Amp} \/ \E s \in stretches : s[1] <= p /\ p <= s[2]
  <2>1. CASE encoded[p] = Amp
    <3>1. str[p] = Amp
      BY <1>5, <2>1, Zenon
    <3> QED
      BY <3>1 DEF Amp, Nul
  <2>2. CASE encoded[p] # Amp
    <3>1. PICK k \in 1..Len(form) : form[k].from <= p /\ p <= Ending(form[k])
      BY <1>1, <2>2, Zenon DEF Composed, ComposedOf
    <3>2. p \in form[k].from..Ending(form[k])
      BY <1>2, <3>1
    <3>3. str[p] # Nul
      BY <3>1, <3>2, NoSeparator, Zenon
    <3>4. Stretch(k) \in stretches /\ Stretch(k)[1] <= p /\ p <= Stretch(k)[2]
      BY <1>3, <3>1, Zenon
    <3> QED
      BY <3>3, <3>4, Zenon
  <2> QED
    BY <2>1, <2>2
<1> HIDE DEF stretches
<1>8. Tokens(str, {Query, Amp}) = stretches
  BY <1>1, <1>4, <1>6, <1>7, TokensAre
<1> QED
  BY <1>8, Zenon DEF stretches

\* And each of them is read as the name and the value that it is.
LEMMA ReadsArgument ==
    ASSUME Composed, NEW str, Says(str), NEW k \in 1..Len(form)
    PROVE  /\ Items(Part(str, Stretch(k))) # {}
           /\ Name(Part(str, Stretch(k))) = form[k].name
           /\ Value(Part(str, Stretch(k))) = form[k].value
<1> DEFINE a == form[k].from
           b == Ending(form[k])
           n == Len(form[k].name)
           v == Len(form[k].value)
           arg == SubSeq(str, a, b)
<1>1. /\ form[k].name \in Octets /\ form[k].value \in Octets /\ form[k].name # <<>>
      /\ a \in Nat /\ a >= 1 /\ n \in Nat \ {0} /\ v \in Nat /\ b \in Nat /\ b <= Len(encoded)
      /\ b = a + n + v /\ StandsIn(encoded, form[k])
  BY ArgumentOf, Zenon
<1>2. str \in Seq(Nat) /\ Len(str) = Len(encoded) /\ Len(str) \in Nat
  BY DEF Says
<1>3. Spells(str, a, form[k].name) /\ Spells(str, a + n + 1, form[k].value)
  BY Zenon DEF Says
<1>4. encoded[a + n] = Equal
  BY <1>1, Zenon DEF StandsIn
<1> HIDE DEF a, b, n, v
<1>5. a + n \in 1..Len(str) /\ 1 <= a /\ a <= b + 1 /\ b <= Len(str) /\ b - a + 1 = n + 1 + v
  BY <1>1, <1>2
<1>6. /\ arg \in Seq(Nat) /\ Len(arg) = n + 1 + v
      /\ \A i \in 1..n + 1 + v : arg[i] = str[a + i - 1]
  <2>1. /\ SubSeq(str, a, b) \in Seq(Nat) /\ Len(SubSeq(str, a, b)) = b - a + 1
        /\ \A i \in 1..b - a + 1 : SubSeq(str, a, b)[i] = str[a + i - 1]
    BY <1>1, <1>2, <1>5, PartIs
  <2> QED
    BY <1>5, <2>1, Zenon
<1> HIDE DEF arg
<1>7. arg[n + 1] = Equal
  <2>1. n + 1 \in 1..n + 1 + v /\ a + (n + 1) - 1 = a + n
    BY <1>1
  <2>2. str[a + n] = Equal
    BY <1>4, <1>5, Zenon DEF Says
  <2> QED
    BY <1>6, <2>1, <2>2, Zenon
<1>8. Spells(arg, 1, form[k].name)
  <2>1. ASSUME NEW i \in 1..n
        PROVE  1 + i - 1 \in 1..n + 1 + v /\ a + (1 + i - 1) - 1 = a + i - 1
    BY <1>1
  <2> QED
    BY <1>3, <1>6, <2>1, Zenon DEF Spells, n
<1>9. Spells(arg, n + 2, form[k].value)
  <2>1. ASSUME NEW i \in 1..v
        PROVE  /\ (n + 2) + i - 1 \in 1..n + 1 + v
               /\ a + ((n + 2) + i - 1) - 1 = (a + n + 1) + i - 1
    BY <1>1
  <2> QED
    BY <1>3, <1>6, <2>1, Zenon DEF Spells, v
<1>10. Items(arg) # {} /\ Name(arg) = form[k].name /\ Value(arg) = form[k].value
  BY <1>1, <1>6, <1>7, <1>8, <1>9, ArgumentIs, Zenon DEF n, v
<1>11. Part(str, Stretch(k)) = arg
  <2>1. Stretch(k)[1] = a /\ Stretch(k)[2] = b
    BY DEF Stretch, a, b
  <2> QED
    BY <2>1, Zenon DEF Part, arg
<1> QED
  BY <1>10, <1>11, Zenon

\* What ParseArguments makes of such a text.
LEMMA ParsedIs ==
    ASSUME Composed, NEW str, Says(str), ParseArguments(str)
    PROVE  state' = "read" /\ Result(args')
<1> DEFINE list == Tokens(str, {Query, Amp})
           Arg(r) == Part(str, r)
           Named(k) == {r \in list : Name(Arg(r)) = k}
           names == {Name(Arg(r)) : r \in list}
<1>1. \A r : r \in list <=> \E k \in 1..Len(form) : r = Stretch(k)
  BY TokensOf
<1>2. \A k \in 1..Len(form) :
         /\ Items(Arg(Stretch(k))) # {}
         /\ Name(Arg(Stretch(k))) = form[k].name /\ Value(Arg(Stretch(k))) = form[k].value
  BY ReadsArgument, Zenon
<1>3. ~\E r \in list : Items(Arg(r)) = {}
  <2> HIDE DEF list, Arg
  <2> QED
    BY <1>1, <1>2, Zenon
<1>4. state' = "read" /\ args' = [k \in names |-> Value(Arg(Final(Named(k))))]
  BY <1>3, Zenon DEF ParseArguments
<1>5. \A k \in 1..Len(form) : form[k].from \in Nat /\ Stretch(k)[1] = form[k].from
  <2>1. \A k \in 1..Len(form) : Stretch(k)[1] = form[k].from
    BY DEF Stretch
  <2> QED
    BY <2>1, ArgumentOf, Zenon
<1>6. ASSUME NEW j \in 1..Len(form), NEW k \in 1..Len(form), j < k
      PROVE  form[j].from < form[k].from
  <2>1. Ending(form[j]) < form[k].from
    BY <1>6, Zenon DEF Composed, ComposedOf
  <2>2. form[j].from <= Ending(form[j]) /\ Ending(form[j]) \in Nat
    <3>1. /\ form[j].from \in Nat /\ Ending(form[j]) \in Nat
          /\ Len(form[j].name) \in Nat \ {0} /\ Len(form[j].value) \in Nat
          /\ Ending(form[j]) = form[j].from + Len(form[j].name) + Len(form[j].value)
      BY ArgumentOf, Zenon
    <3>2. \A a \in Nat, n \in Nat \ {0}, v \in Nat, b \in Nat : b = a + n + v => a <= b
      OBVIOUS
    <3> QED
      BY <3>1, <3>2, Zenon
  <2>3. \A a, b, c \in Nat : a <= b /\ b < c => a < c
    OBVIOUS
  <2> QED
    BY <1>5, <2>1, <2>2, <2>3, Zenon
<1> HIDE DEF list, Arg
<1>7. DOMAIN form = 1..Len(form) /\ Len(form) \in Nat
  BY DEF Composed, ComposedOf
<1>8. names = {form[k].name : k \in 1..Len(form)}
  <2>1. ASSUME NEW x \in names PROVE x \in {form[k].name : k \in 1..Len(form)}
    <3>1. PICK r \in list : x = Name(Arg(r))
      OBVIOUS
    <3>2. PICK k \in 1..Len(form) : r = Stretch(k)
      BY <1>1, <3>1, Zenon
    <3>3. x = form[k].name
      BY <1>2, <3>1, <3>2, Zenon
    <3> QED
      BY <3>3
  <2>2. ASSUME NEW k \in 1..Len(form) PROVE form[k].name \in names
    <3>1. Stretch(k) \in list /\ Name(Arg(Stretch(k))) = form[k].name
      BY <1>1, <1>2, Zenon
    <3> QED
      BY <3>1, Zenon
  <2> HIDE DEF names
  <2> QED
    BY <2>1, <2>2
<1>9. ASSUME NEW k \in 1..Len(form),
             ~\E j \in k + 1..Len(form) : form[j].name = form[k].name
      PROVE  Final(Named(form[k].name)) = Stretch(k)
  <2> DEFINE tokens == Named(form[k].name)
  <2>1. Stretch(k) \in tokens
    BY <1>1, <1>2, Zenon
  <2>2. ASSUME NEW r \in tokens, r # Stretch(k)
        PROVE  r[1] \in Nat /\ r[1] < Stretch(k)[1]
    <3>1. PICK j \in 1..Len(form) : r = Stretch(j)
      BY <1>1, <2>2, Zenon
    <3>2. form[j].name = form[k].name
      BY <1>2, <2>2, <3>1, Zenon
    <3>3. j # k
      BY <2>2, <3>1
    <3>4. j \in k + 1..Len(form) \/ j < k
      BY <1>7, <3>3
    <3>5. j < k
      BY <1>9, <3>2, <3>4, Zenon
    <3> QED
      BY <1>5, <1>6, <3>1, <3>5, Zenon
  <2>3. Stretch(k)[1] \in Nat
    BY <1>5, Zenon
  <2> HIDE DEF tokens
  <2>4. \A s \in tokens : s[1] <= Stretch(k)[1]
    BY <2>2, <2>3
  <2>5. ASSUME NEW r \in tokens, \A s \in tokens : s[1] <= r[1] PROVE r = Stretch(k)
    BY <2>1, <2>2, <2>3, <2>5
  <2>6. (CHOOSE r \in tokens : \A s \in tokens : s[1] <= r[1]) = Stretch(k)
    BY <2>1, <2>4, <2>5, Zenon
  <2> QED
    BY <2>6, Zenon DEF Final, tokens
<1> HIDE DEF Named, names
<1>10. \A k \in 1..Len(form) : form[k].name \in names
  BY <1>8
<1>11. \A x \in names : args'[x] = Value(Arg(Final(Named(x))))
  BY <1>4, Zenon
<1>12. ASSUME NEW k \in 1..Len(form)
       PROVE  args'[form[k].name] = form[k].value
                  \/ \E j \in k + 1..Len(form) : form[j].name = form[k].name
  BY <1>2, <1>9, <1>10, <1>11, Zenon
<1>13. DOMAIN args' = names
  BY <1>4, Zenon
<1> QED
  BY <1>4, <1>7, <1>8, <1>12, <1>13, Zenon DEF Result

\* What the client writes for a character, and what that is read as.
LEMMA EscapeMeans ==
    ASSUME NEW c \in 0..255, method \in {"GET", "POST"}
    PROVE  /\ Escape(c) \in Nat /\ Escape(c) # PercentSign
           /\ method = "POST" => Escape(c) \notin Special /\ Meaning(Escape(c)) = c
           /\ method = "GET" => Escape(c) % 256 = c /\ Meaning(c) = c
<1> USE DEF Nul, Space, PercentSign, Amp, PlusSign, Equal, Query
<1>1. CASE method = "POST" /\ c = Space
  <2>1. Escape(c) = 43
    BY <1>1, Zenon DEF Escape
  <2>2. Meaning(43) = 32
    BY <1>1, Zenon DEF Meaning
  <2> QED
    BY <1>1, <2>1, <2>2 DEF Special
<1>2. CASE ~(method = "POST" /\ c = Space) /\ c \in Safe
  <2>1. Escape(c) = c
    BY <1>2, Zenon DEF Escape
  <2>2. c \notin {0, 32, 37, 38, 43, 61, 63}
    BY <1>2, ArgumentsAssumption
  <2>3. Meaning(c) = c % 256
    BY <2>2 DEF Meaning
  <2>4. c % 256 = c /\ c \in Nat
    OBVIOUS
  <2> QED
    BY <2>1, <2>2, <2>3, <2>4 DEF Special
<1>3. CASE ~(method = "POST" /\ c = Space) /\ c \notin Safe
  <2>1. Escape(c) = 256 + c
    BY <1>3, Zenon DEF Escape
  <2>2. (256 + c) % 256 = c /\ c % 256 = c /\ 256 + c \in Nat /\ 256 + c > 255
    OBVIOUS
  <2>3. Meaning(256 + c) = (256 + c) % 256
    BY <2>2 DEF Meaning
  <2>4. method = "GET" => Meaning(c) = c % 256
    BY DEF Meaning
  <2> QED
    BY <2>1, <2>2, <2>3, <2>4 DEF Special
<1> QED
  BY <1>1, <1>2, <1>3

\* The characters of a name or a value.
LEMMA OctetsAre == \A word \in Octets : \A i \in 1..Len(word) : word[i] \in 0..255
<1>1. \A S : \A word \in Seq(S) : \A i \in 1..Len(word) : word[i] \in S
  OBVIOUS
<1> QED
  BY <1>1, Zenon DEF Octets

\* A place of what the client has encoded is a separator, or "=", or stands for
\* a character.
LEMMA PlaceOf ==
    ASSUME Composed, NEW p \in 1..Len(encoded)
    PROVE  encoded[p] \in {Amp, Equal} \/ \E c \in 0..255 : encoded[p] = Escape(c)
<1>1. CASE encoded[p] = Amp
  BY <1>1
<1>2. CASE encoded[p] # Amp
  <2>1. PICK k \in 1..Len(form) : form[k].from <= p /\ p <= Ending(form[k])
    BY <1>2, Zenon DEF Composed, ComposedOf
  <2> DEFINE a == form[k].from
             n == Len(form[k].name)
             v == Len(form[k].value)
  <2>2. /\ a \in Nat /\ n \in Nat /\ v \in Nat /\ Ending(form[k]) \in Nat
        /\ form[k].name \in Octets /\ form[k].value \in Octets /\ StandsIn(encoded, form[k])
    BY ArgumentOf, Zenon
  <2>3. /\ \A i \in 1..n : form[k].name[i] \in 0..255
        /\ \A i \in 1..v : form[k].value[i] \in 0..255
    BY <2>2, OctetsAre, Zenon
  <2>4. p \in form[k].from..Ending(form[k])
    BY <2>1, <2>2
  <2>5. p - a + 1 \in 1..n \/ p = a + n \/ p - (a + n) \in 1..v
    BY <2>4, InArgument, Zenon
  <2>6. /\ \A i \in 1..n : encoded[a + i - 1] = Escape(form[k].name[i])
        /\ encoded[a + n] = Equal
        /\ \A i \in 1..v : encoded[(a + n + 1) + i - 1] = Escape(form[k].value[i])
    BY <2>2, Zenon DEF StandsIn, Writes
  <2> HIDE DEF a, n, v
  <2>7. CASE p - a + 1 \in 1..n
    <3>1. a + (p - a + 1) - 1 = p
      BY <2>2
    <3> QED
      BY <2>3, <2>6, <2>7, <3>1, Zenon
  <2>8. CASE p = a + n
    BY <2>6, <2>8
  <2>9. CASE p - (a + n) \in 1..v
    <3>1. (a + n + 1) + (p - (a + n)) - 1 = p
      BY <2>2
    <3> QED
      BY <2>3, <2>6, <2>9, <3>1, Zenon
  <2> QED
    BY <2>5, <2>7, <2>8, <2>9
<1> QED
  BY <1>1, <1>2


\* The body of a posted form says what the client has encoded.
LEMMA BodySays ==
    ASSUME Composed, method = "POST"
    PROVE  Says(encoded)
<1>1. encoded \in Seq(Nat)
  BY DEF Composed, ComposedOf
<1>2. ASSUME NEW word \in Octets, NEW a \in Nat, Writes(encoded, a, word)
      PROVE  Spells(encoded, a, word)
  <2>1. \A i \in 1..Len(word) : word[i] \in 0..255
    BY OctetsAre, Zenon
  <2>2. \A c \in 0..255 : Escape(c) \notin Special /\ Meaning(Escape(c)) = c
    BY EscapeMeans
  <2> QED
    BY <1>2, <2>1, <2>2, Zenon DEF Writes, Spells
<1>3. ASSUME NEW k \in 1..Len(form)
      PROVE  /\ Spells(encoded, form[k].from, form[k].name)
             /\ Spells(encoded, form[k].from + Len(form[k].name) + 1, form[k].value)
  <2>1. /\ form[k].name \in Octets /\ form[k].value \in Octets /\ form[k].from \in Nat
        /\ Len(form[k].name) \in Nat /\ StandsIn(encoded, form[k])
    BY ArgumentOf, Zenon
  <2>2. \A a \in Nat, n \in Nat : a + n + 1 \in Nat
    OBVIOUS
  <2>3. /\ Writes(encoded, form[k].from, form[k].name)
        /\ Writes(encoded, form[k].from + Len(form[k].name) + 1, form[k].value)
    BY <2>1, Zenon DEF StandsIn
  <2> QED
    BY <1>2, <2>1, <2>2, <2>3, Zenon
<1> QED
  BY <1>1, <1>3, Zenon DEF Says

\* The characters of two texts, one behind the other, the first one short.
LEMMA BehindTwo ==
    ASSUME NEW head \in Seq(Nat), NEW str \in Seq(Nat), NEW len \in Nat,
           Len(head) = 2, Len(str) = len
    PROVE  /\ head \o str \in Seq(Nat) /\ Len(head \o str) = len + 2
           /\ (head \o str)[1] = head[1] /\ (head \o str)[2] = head[2]
           /\ \A p \in 1..len : (head \o str)[p + 2] = str[p]
<1>1. /\ head \o str \in Seq(Nat) /\ Len(head \o str) = Len(head) + Len(str)
      /\ \A i \in 1..Len(head) + Len(str) :
            (head \o str)[i] = IF i <= Len(head) THEN head[i] ELSE str[i - Len(head)]
  BY ConcatProperties
<1>2. /\ Len(head) + Len(str) = len + 2 /\ Len(head) = 2
  OBVIOUS
<1>3. 1 \in 1..len + 2 /\ 2 \in 1..len + 2 /\ 1 <= 2 /\ 2 <= 2
      /\ \A p \in 1..len : p + 2 \in 1..len + 2 /\ ~(p + 2 <= 2) /\ (p + 2) - 2 = p
  OBVIOUS
<1> QED
  BY <1>1, <1>2, <1>3, Zenon

\* The request target, unescaped.
LEMMA TargetIs ==
    ASSUME Composed, method = "GET"
    PROVE  LET str == Unescape(<<47, Query>> \o encoded)
           IN  /\ str \in Seq(Nat) /\ Len(str) = Len(encoded) + 2
               /\ str[1] # Query /\ str[2] = Query
               /\ \A p \in 1..Len(encoded) : str[p + 2] = encoded[p] % 256
<1> DEFINE target == <<47, Query>> \o encoded
           len == Len(encoded)
           str == Unescape(target)
<1>1. encoded \in Seq(Nat) /\ len \in Nat
  BY DEF Composed, ComposedOf
<1>2. ASSUME NEW p \in 1..len PROVE encoded[p] \in Nat /\ encoded[p] # PercentSign
  <2>1. \A c \in 0..255 : Escape(c) \in Nat /\ Escape(c) # PercentSign
    BY EscapeMeans
  <2>2. Amp # PercentSign /\ Equal # PercentSign /\ Amp \in Nat /\ Equal \in Nat
    BY DEF Amp, Equal, PercentSign
  <2>3. encoded[p] \in {Amp, Equal} \/ \E c \in 0..255 : encoded[p] = Escape(c)
    BY PlaceOf
  <2> QED
    BY <2>1, <2>2, <2>3
<1>3. /\ target \in Seq(Nat) /\ Len(target) = len + 2
      /\ target[1] = 47 /\ target[2] = Query
      /\ \A p \in 1..len : target[p + 2] = encoded[p]
  <2>1. <<47, Query>> \in Seq(Nat) /\ Len(<<47, Query>>) = 2
        /\ <<47, Query>>[1] = 47 /\ <<47, Query>>[2] = Query
    BY DEF Query
  <2> QED
    BY <1>1, <2>1, BehindTwo, Zenon
<1> HIDE DEF target, len
<1>4. \A p \in 1..len + 2 : p = 1 \/ p = 2 \/ (p - 2 \in 1..len /\ (p - 2) + 2 = p)
  BY <1>1
<1>5. \A p \in 1..len + 2 : target[p] \in Nat /\ target[p] # PercentSign
  <2> SUFFICES ASSUME NEW p \in 1..len + 2
               PROVE  target[p] \in Nat /\ target[p] # PercentSign
    OBVIOUS
  <2>1. CASE p = 1 \/ p = 2
    BY <1>3, <2>1 DEF PercentSign, Query
  <2>2. CASE p - 2 \in 1..len /\ (p - 2) + 2 = p
    <3>1. target[p] = encoded[p - 2]
      BY <1>3, <2>2, Zenon
    <3> QED
      BY <1>2, <2>2, <3>1, Zenon
  <2> QED
    BY <1>4, <2>1, <2>2, Zenon
<1>6. str = [i \in 1..len + 2 |-> Meaning(target[i])]
  <2>1. str = [i \in 1..Len(target) |-> Meaning(target[i])]
    BY <1>3, <1>5, UnescapeIs
  <2> QED
    BY <1>3, <2>1
<1> HIDE DEF str
<1>7. \A c \in Nat : Meaning(c) = c % 256 /\ Meaning(c) \in Nat
  BY DEF Meaning
<1>8. str \in Seq(Nat) /\ Len(str) = len + 2
  <2>1. str \in [1..len + 2 -> Nat]
    BY <1>5, <1>6, <1>7
  <2>2. \A n \in Nat : \A t \in [1..n -> Nat] : t \in Seq(Nat) /\ Len(t) = n
    BY SeqDef
  <2>3. len + 2 \in Nat
    BY <1>1
  <2> QED
    BY <2>1, <2>2, <2>3, Zenon
<1>9. \A i \in 1..len + 2 : str[i] = target[i] % 256
  BY <1>5, <1>6, <1>7
<1>10. 1 \in 1..len + 2 /\ 2 \in 1..len + 2 /\ \A p \in 1..len : p + 2 \in 1..len + 2
  BY <1>1
<1>11. 47 % 256 # Query /\ Query % 256 = Query
  BY DEF Query
<1>12. str[1] # Query /\ str[2] = Query
  <2>1. str[1] = 47 % 256 /\ str[2] = Query % 256
    BY <1>3, <1>9, <1>10
  <2> QED
    BY <1>11, <2>1
<1>13. \A p \in 1..len : str[p + 2] = encoded[p] % 256
  BY <1>3, <1>9, <1>10
<1> QED
  BY <1>8, <1>12, <1>13, Zenon DEF str, target, len

\* It is split at the "?" that the client has put there.
LEMMA SplitsAt ==
    ASSUME NEW str \in Seq(Nat), NEW len \in Nat, Len(str) = len + 2,
           str[1] # Query, str[2] = Query
    PROVE  LET at == CHOOSE i \in 1..Len(str) :
                        str[i] = Query /\ \A j \in 1..i - 1 : str[j] # Query
               rear == SubSeq(str, at + 1, Len(str))
           IN  rear \in Seq(Nat) /\ Len(rear) = len /\ \A p \in 1..len : rear[p] = str[p + 2]
<1> DEFINE Is(i) == str[i] = Query /\ \A j \in 1..i - 1 : str[j] # Query
<1>1. 2 \in 1..Len(str) /\ Is(2)
  <2>1. \A j \in 1..2 - 1 : j = 1
    OBVIOUS
  <2> QED
    BY <2>1
<1>2. ASSUME NEW i \in 1..Len(str), Is(i) PROVE i = 2
  <2>1. i # 1
    BY <1>2
  <2>2. ~(2 \in 1..i - 1)
    BY <1>2
  <2> QED
    BY <2>1, <2>2
<1> HIDE DEF Is
<1>3. (CHOOSE i \in 1..Len(str) : Is(i)) = 2
  BY <1>1, <1>2, Zenon
<1> DEFINE rear == SubSeq(str, 2 + 1, Len(str))
<1>4. rear \in Seq(Nat) /\ Len(rear) = len /\ \A p \in 1..len : rear[p] = str[p + 2]
  <2>1. /\ 2 + 1 \in Nat /\ len + 2 \in Nat /\ 1 <= 2 + 1 /\ 2 + 1 <= (len + 2) + 1
        /\ len + 2 <= Len(str) /\ (len + 2) - (2 + 1) + 1 = len
        /\ \A p \in 1..len : (2 + 1) + p - 1 = p + 2
    OBVIOUS
  <2>2. /\ SubSeq(str, 2 + 1, len + 2) \in Seq(Nat)
        /\ Len(SubSeq(str, 2 + 1, len + 2)) = (len + 2) - (2 + 1) + 1
        /\ \A i \in 1..(len + 2) - (2 + 1) + 1 :
              SubSeq(str, 2 + 1, len + 2)[i] = str[(2 + 1) + i - 1]
    BY <2>1, PartIs, Zenon
  <2> QED
    BY <2>1, <2>2, Zenon
<1> HIDE DEF rear
<1> QED
  BY <1>3, <1>4, Zenon DEF Is, rear

\* What follows says what the client has encoded, if no character of a name or
\* a value had to be hidden in an escape from the first unescaping.
LEMMA QuerySays ==
    ASSUME Composed, method = "GET", Plain,
           NEW str \in Seq(Nat), Len(str) = Len(encoded),
           \A p \in 1..Len(encoded) : str[p] = encoded[p] % 256
    PROVE  Says(str)
<1> DEFINE len == Len(encoded)
<1>1. encoded \in Seq(Nat) /\ len \in Nat
  BY DEF Composed, ComposedOf
<1>2. \A p \in 1..Len(str) : encoded[p] \in {Amp, Equal} => str[p] = encoded[p]
  <2>1. Amp % 256 = Amp /\ Equal % 256 = Equal
    BY DEF Amp, Equal
  <2> QED
    BY <2>1
<1>3. ASSUME NEW word \in Octets, NEW a \in Nat, a >= 1, a + Len(word) <= len + 1,
              Writes(encoded, a, word), \A i \in 1..Len(word) : word[i] \notin Special
       PROVE  Spells(str, a, word)
  <2>1. \A i \in 1..Len(word) : word[i] \in 0..255
    BY OctetsAre, Zenon
  <2>2. \A c \in 0..255 : Escape(c) % 256 = c /\ Meaning(c) = c
    BY EscapeMeans
  <2>3. \A i \in 1..Len(word) : a + i - 1 \in 1..len
    <3>1. Len(word) \in Nat
      BY DEF Octets
    <3> QED
      BY <1>1, <1>3, <3>1
  <2>4. ASSUME NEW i \in 1..Len(word)
        PROVE  str[a + i - 1] \notin Special /\ Meaning(str[a + i - 1]) = word[i]
    <3>1. encoded[a + i - 1] = Escape(word[i])
      BY <1>3, Zenon DEF Writes
    <3>2. str[a + i - 1] = word[i]
      <4>1. str[a + i - 1] = encoded[a + i - 1] % 256
        BY <2>3, Zenon
      <4>2. Escape(word[i]) % 256 = word[i]
        BY <2>1, <2>2, Zenon
      <4> QED
        BY <3>1, <4>1, <4>2, Zenon
    <3> QED
      BY <1>3, <2>1, <2>2, <3>2, Zenon
  <2> QED
    BY <2>4, Zenon DEF Spells
<1>4. ASSUME NEW k \in 1..Len(form)
      PROVE  /\ Spells(str, form[k].from, form[k].name)
             /\ Spells(str, form[k].from + Len(form[k].name) + 1, form[k].value)
  <2> DEFINE a == form[k].from
             n == Len(form[k].name)
             v == Len(form[k].value)
  <2>1. /\ form[k].name \in Octets /\ form[k].value \in Octets /\ a \in Nat /\ a >= 1
        /\ n \in Nat /\ v \in Nat /\ Ending(form[k]) = a + n + v
        /\ Ending(form[k]) <= Len(encoded) /\ StandsIn(encoded, form[k])
    BY ArgumentOf, Zenon
  <2>2. Writes(encoded, a, form[k].name) /\ Writes(encoded, a + n + 1, form[k].value)
    BY <2>1, Zenon DEF StandsIn
  <2>3. /\ \A i \in 1..n : form[k].name[i] \notin Special
        /\ \A i \in 1..v : form[k].value[i] \notin Special
    <3>1. DOMAIN form = 1..Len(form)
      BY DEF Composed, ComposedOf
    <3>2. ASSUME NEW word \in Octets, \A c \in ToSet(word) : c \notin Special,
                 NEW i \in 1..Len(word)
          PROVE  word[i] \notin Special
      <4>1. i \in DOMAIN word
        BY DEF Octets
      <4> QED
        BY <3>2, <4>1 DEF ToSet
    <3>3. /\ \A c \in ToSet(form[k].name) : c \notin Special
          /\ \A c \in ToSet(form[k].value) : c \notin Special
      BY <3>1, Zenon DEF Plain
    <3> QED
      BY <2>1, <3>2, <3>3, Zenon
  <2> HIDE DEF a, n, v
  <2>4. a + n <= len + 1 /\ a + n + 1 \in Nat /\ a + n + 1 >= 1 /\ (a + n + 1) + v <= len + 1
    BY <1>1, <2>1
  <2>5. Spells(str, a, form[k].name)
    BY <1>3, <2>1, <2>2, <2>3, <2>4, Zenon DEF n
  <2>6. Spells(str, a + n + 1, form[k].value)
    BY <1>3, <2>1, <2>2, <2>3, <2>4, Zenon DEF v
  <2> QED
    BY <2>5, <2>6, Zenon DEF a, n
<1> QED
  BY <1>2, <1>4, Zenon DEF Says

\* A text that goes on behind a separator still has the argument in it.
LEMMA StillStands ==
    ASSUME NEW str \in Seq(Nat), NEW longer \in Seq(Nat), NEW e \in Argument,
           StandsIn(str, e), Len(str) < Len(longer),
           \A p \in 1..Len(str) : longer[p] = str[p], longer[Len(str) + 1] = Amp
    PROVE  StandsIn(longer, e)
<1> DEFINE a == e.from
           n == Len(e.name)
           v == Len(e.value)
           len == Len(str)
<1>1. /\ a \in Nat /\ n \in Nat /\ v \in Nat /\ len \in Nat /\ Len(longer) \in Nat
      /\ len < Len(longer)
  BY DEF Argument, Octets
<1>2. a >= 1 /\ e.name # <<>> /\ Ending(e) <= len /\ Ending(e) = a + n + v
  BY Zenon DEF StandsIn, Ending
<1> HIDE DEF a, n, v, len
<1>3. /\ \A i \in 1..n : a + i - 1 \in 1..len
      /\ a + n \in 1..len
      /\ \A i \in 1..v : (a + n + 1) + i - 1 \in 1..len
      /\ a = 1 \/ a - 1 \in 1..len
      /\ Ending(e) \in 1..len /\ Ending(e) <= Len(longer)
      /\ Ending(e) = len \/ Ending(e) + 1 \in 1..len
  BY <1>1, <1>2
<1>4. Writes(longer, a, e.name) /\ Writes(longer, a + n + 1, e.value)
  <2>1. Writes(str, a, e.name) /\ Writes(str, a + n + 1, e.value)
    BY Zenon DEF StandsIn, a, n
  <2> QED
    BY <1>3, <2>1, Zenon DEF Writes, len, n, v
<1>5. longer[a + n] = Equal
  BY <1>3, Zenon DEF StandsIn, len, a, n
<1>6. a = 1 \/ longer[a - 1] = Amp
  BY <1>3, Zenon DEF StandsIn, len, a
<1>7. longer[Ending(e) + 1] = Amp
  BY <1>3, Zenon DEF StandsIn, len
<1> QED
  BY <1>2, <1>3, <1>4, <1>5, <1>6, <1>7, Zenon DEF StandsIn, a, n

\* The text after AddArgument: what was there, a separator if it was something,
\* and the argument.
JoinedAs(all, str, sep, name, value) ==
    LET a == Len(str) + Len(sep) + 1
    IN  /\ all \in Seq(Nat)
        /\ Len(all) = a + Len(name) + Len(value)
        /\ \A p \in 1..Len(str) : all[p] = str[p]
        /\ \A i \in 1..Len(sep) : all[Len(str) + i] = sep[i]
        /\ \A i \in 1..Len(name) : all[a + i - 1] = name[i]
        /\ all[a + Len(name)] = Equal
        /\ \A i \in 1..Len(value) : all[(a + Len(name) + 1) + i - 1] = value[i]

LEMMA Joins ==
    ASSUME NEW str \in Seq(Nat), NEW sep \in Seq(Nat), NEW name \in Seq(Nat),
           NEW value \in Seq(Nat)
    PROVE  JoinedAs(str \o sep \o name \o <<Equal>> \o value, str, sep, name, value)
<1>1. <<Equal>> \in Seq(Nat) /\ Len(<<Equal>>) = 1 /\ <<Equal>>[1] = Equal
  BY DEF Equal
<1>2. ASSUME NEW s \in Seq(Nat), NEW t \in Seq(Nat)
      PROVE  /\ s \o t \in Seq(Nat) /\ Len(s \o t) = Len(s) + Len(t)
             /\ Len(s) \in Nat /\ Len(t) \in Nat
             /\ \A p \in 1..Len(s) : (s \o t)[p] = s[p]
             /\ \A i \in 1..Len(t) : (s \o t)[Len(s) + i] = t[i]
  <2>1. /\ s \o t \in Seq(Nat) /\ Len(s \o t) = Len(s) + Len(t)
        /\ \A i \in 1..Len(s) + Len(t) : (s \o t)[i] = IF i <= Len(s) THEN s[i] ELSE t[i - Len(s)]
    BY ConcatProperties
  <2>2. Len(s) \in Nat /\ Len(t) \in Nat
    OBVIOUS
  <2>3. \A m \in Nat, n \in Nat :
           /\ \A p \in 1..m : p \in 1..m + n /\ p <= m
           /\ \A i \in 1..n : m + i \in 1..m + n /\ ~(m + i <= m) /\ (m + i) - m = i
    OBVIOUS
  <2> QED
    BY <2>1, <2>2, <2>3, Zenon
<1> DEFINE s2 == str \o sep
           s3 == s2 \o name
           s4 == s3 \o <<Equal>>
           s5 == s4 \o value
<1>3. /\ s2 \in Seq(Nat) /\ Len(s2) = Len(str) + Len(sep) /\ Len(str) \in Nat /\ Len(sep) \in Nat
      /\ \A p \in 1..Len(str) : s2[p] = str[p]
      /\ \A i \in 1..Len(sep) : s2[Len(str) + i] = sep[i]
  BY <1>2, Zenon
<1> HIDE DEF s2
<1>4. /\ s3 \in Seq(Nat) /\ Len(s3) = Len(s2) + Len(name) /\ Len(name) \in Nat
      /\ \A p \in 1..Len(s2) : s3[p] = s2[p]
      /\ \A i \in 1..Len(name) : s3[Len(s2) + i] = name[i]
  BY <1>2, <1>3, Zenon
<1> HIDE DEF s3
<1>5. /\ s4 \in Seq(Nat) /\ Len(s4) = Len(s3) + 1
      /\ \A p \in 1..Len(s3) : s4[p] = s3[p]
      /\ s4[Len(s3) + 1] = Equal
  <2>1. /\ s3 \o <<Equal>> \in Seq(Nat) /\ Len(s3 \o <<Equal>>) = Len(s3) + Len(<<Equal>>)
        /\ \A p \in 1..Len(s3) : (s3 \o <<Equal>>)[p] = s3[p]
        /\ \A i \in 1..Len(<<Equal>>) : (s3 \o <<Equal>>)[Len(s3) + i] = <<Equal>>[i]
    BY <1>1, <1>2, <1>4, Zenon
  <2>2. 1 \in 1..1
    OBVIOUS
  <2>3. (s3 \o <<Equal>>)[Len(s3) + 1] = <<Equal>>[1]
    BY <1>1, <2>1, <2>2
  <2> QED
    BY <1>1, <2>1, <2>3
<1> HIDE DEF s4
<1>6. /\ s5 \in Seq(Nat) /\ Len(s5) = Len(s4) + Len(value) /\ Len(value) \in Nat
      /\ \A p \in 1..Len(s4) : s5[p] = s4[p]
      /\ \A i \in 1..Len(value) : s5[Len(s4) + i] = value[i]
  BY <1>2, <1>5, Zenon
<1> DEFINE a == Len(str) + Len(sep) + 1
           n == Len(name)
<1>7. Len(s2) = a - 1 /\ Len(s3) = a + n - 1 /\ Len(s4) = a + n /\ a \in Nat /\ a >= 1 /\ n \in Nat
  BY <1>3, <1>4, <1>5
<1>8. \A p \in 1..Len(s2) : p \in 1..Len(s3) /\ p \in 1..Len(s4) /\ s5[p] = s2[p]
  <2>1. \A p \in 1..Len(s2) : p \in 1..Len(s3) /\ p \in 1..Len(s4)
    BY <1>7
  <2> QED
    BY <1>4, <1>5, <1>6, <2>1, Zenon
<1>9. \A p \in 1..Len(str) : p \in 1..Len(s2)
  BY <1>3
<1>10. \A i \in 1..Len(sep) : Len(str) + i \in 1..Len(s2)
  BY <1>3
<1>11. \A i \in 1..n : a + i - 1 = Len(s2) + i /\ a + i - 1 \in 1..Len(s3) /\ a + i - 1 \in 1..Len(s4)
  BY <1>7
<1>12. a + n = Len(s3) + 1 /\ a + n \in 1..Len(s4)
  BY <1>7
<1>13. \A i \in 1..Len(value) : (a + n + 1) + i - 1 = Len(s4) + i
  BY <1>6, <1>7
<1> HIDE DEF s5, a, n
<1>14. \A p \in 1..Len(str) : s5[p] = str[p]
  BY <1>3, <1>8, <1>9, Zenon
<1>15. \A i \in 1..Len(sep) : s5[Len(str) + i] = sep[i]
  BY <1>3, <1>8, <1>10, Zenon
<1>16. \A i \in 1..n : s5[a + i - 1] = name[i]
  BY <1>4, <1>5, <1>6, <1>11, Zenon DEF n
<1>17. s5[a + n] = Equal
  BY <1>5, <1>6, <1>12, Zenon
<1>18. \A i \in 1..Len(value) : s5[(a + n + 1) + i - 1] = value[i]
  BY <1>6, <1>13, Zenon
<1>19. Len(s5) = a + n + Len(value)
  BY <1>6, <1>7
<1> QED
  <2>1. JoinedAs(s5, str, sep, name, value)
    BY <1>6, <1>14, <1>15, <1>16, <1>17, <1>18, <1>19, Zenon DEF JoinedAs, a, n
  <2> QED
    BY <2>1, Zenon DEF s2, s3, s4, s5

\* The client adds an argument at the end.
LEMMA AddsArgument ==
    ASSUME Composed, method \in {"GET", "POST"},
           NEW name \in Octets, NEW value \in Octets, name # <<>>, AddArgument(name, value)
    PROVE  ComposedOf(encoded', form')
<1> DEFINE len == Len(encoded)
           a == len + Len(Separator) + 1
           e == [name |-> name, value |-> value, from |-> a]
           n == Len(name)
           v == Len(value)
<1>1. /\ encoded \in Seq(Nat) /\ form \in Seq(Argument) /\ (form = <<>> => encoded = <<>>)
      /\ \A k \in 1..Len(form) : StandsIn(encoded, form[k])
      /\ \A p \in 1..len :
            encoded[p] = Amp \/ \E k \in 1..Len(form) : form[k].from <= p /\ p <= Ending(form[k])
      /\ \A k \in 1..Len(form), j \in 1..Len(form) : j < k => Ending(form[j]) < form[k].from
  BY Zenon DEF Composed, ComposedOf
<1>2. len \in Nat /\ n \in Nat /\ v \in Nat /\ Len(form) \in Nat
  BY <1>1 DEF Octets
<1>3. Separator \in Seq(Nat) /\ (form = <<>> => Len(Separator) = 0)
      /\ (form # <<>> => Len(Separator) = 1 /\ Separator[1] = Amp)
  BY DEF Separator, Amp
<1>4. ASSUME NEW word \in Octets
      PROVE  /\ Escaped(word) \in Seq(Nat) /\ Len(Escaped(word)) = Len(word)
             /\ \A i \in 1..Len(word) : Escaped(word)[i] = Escape(word[i])
  <2>1. \A c \in 0..255 : Escape(c) \in Nat
    BY EscapeMeans
  <2>2. \A i \in 1..Len(word) : Escape(word[i]) \in Nat
    BY <2>1, OctetsAre, Zenon
  <2>3. Len(word) \in Nat
    BY DEF Octets
  <2>4. \A m \in Nat : \A t \in [1..m -> Nat] : t \in Seq(Nat) /\ Len(t) = m
    BY SeqDef
  <2>5. Escaped(word) \in [1..Len(word) -> Nat]
    BY <2>2 DEF Escaped
  <2> QED
    BY <2>3, <2>4, <2>5, Zenon DEF Escaped
<1>5. /\ encoded' = encoded \o Separator \o Escaped(name) \o <<Equal>> \o Escaped(value)
      /\ form' = Append(form, e)
  BY Zenon DEF AddArgument
<1>6. /\ encoded' \in Seq(Nat) /\ Len(encoded') = a + n + v
      /\ \A p \in 1..len : encoded'[p] = encoded[p]
      /\ \A i \in 1..Len(Separator) : encoded'[len + i] = Separator[i]
      /\ \A i \in 1..n : encoded'[a + i - 1] = Escape(name[i])
      /\ encoded'[a + n] = Equal
      /\ \A i \in 1..v : encoded'[(a + n + 1) + i - 1] = Escape(value[i])
  <2>1. PICK s, t : s = Escaped(name) /\ t = Escaped(value)
    OBVIOUS
  <2>2. /\ s \in Seq(Nat) /\ Len(s) = n /\ \A i \in 1..n : s[i] = Escape(name[i])
        /\ t \in Seq(Nat) /\ Len(t) = v /\ \A i \in 1..v : t[i] = Escape(value[i])
    BY <1>4, <2>1, Zenon
  <2>3. encoded' = encoded \o Separator \o s \o <<Equal>> \o t
    BY <1>5, <2>1, Zenon
  <2>4. /\ encoded' \in Seq(Nat) /\ Len(encoded') = a + Len(s) + Len(t)
        /\ \A p \in 1..len : encoded'[p] = encoded[p]
        /\ \A i \in 1..Len(Separator) : encoded'[len + i] = Separator[i]
        /\ \A i \in 1..Len(s) : encoded'[a + i - 1] = s[i]
        /\ encoded'[a + Len(s)] = Equal
        /\ \A i \in 1..Len(t) : encoded'[(a + Len(s) + 1) + i - 1] = t[i]
    <3>1. encoded \in Seq(Nat) /\ Separator \in Seq(Nat) /\ s \in Seq(Nat) /\ t \in Seq(Nat)
      BY <1>1, <1>3, <2>2, Zenon
    <3>2. JoinedAs(encoded \o Separator \o s \o <<Equal>> \o t, encoded, Separator, s, t)
      BY <3>1, Joins, Zenon
    <3> QED
      BY <2>3, <3>2, Zenon DEF JoinedAs
  <2> QED
    BY <2>2, <2>4, Zenon
<1>7. e.name = name /\ e.value = value /\ e.from = a /\ Ending(e) = a + n + v
  BY DEF Ending
<1>8. n # 0 /\ a \in Nat /\ a >= 1 /\ Len(encoded') = a + n + v /\ len < a
  <2>1. n # 0
    BY DEF Octets
  <2>2. Len(Separator) \in Nat
    BY <1>3
  <2> QED
    BY <1>2, <1>6, <2>1, <2>2
<1>9. form # <<>> => len + 1 < a /\ a - 1 = len + 1 /\ encoded'[len + 1] = Amp
  <2> SUFFICES ASSUME form # <<>>
               PROVE  len + 1 < a /\ a - 1 = len + 1 /\ encoded'[len + 1] = Amp
    OBVIOUS
  <2>1. Len(Separator) = 1 /\ Separator[1] = Amp
    BY <1>3
  <2>2. 1 \in 1..Len(Separator) /\ len + 1 < a /\ a - 1 = len + 1
    BY <1>2, <2>1
  <2> QED
    BY <1>6, <2>1, <2>2, Zenon
<1>10. form = <<>> => a = 1 /\ len = 0 /\ Len(form) = 0
  BY <1>1, <1>3
<1>11. e \in Argument
  BY <1>8 DEF Argument
<1> HIDE DEF e, a, len, n, v
<1>12. /\ form' \in Seq(Argument) /\ Len(form') = Len(form) + 1 /\ form' # <<>>
       /\ \A k \in 1..Len(form) : form'[k] = form[k]
       /\ form'[Len(form) + 1] = e
  <2>1. form \in Seq(Argument)
    BY <1>1
  <2>2. /\ Append(form, e) \in Seq(Argument) /\ Len(Append(form, e)) = Len(form) + 1
        /\ \A k \in 1..Len(form) : Append(form, e)[k] = form[k]
        /\ Append(form, e)[Len(form) + 1] = e
    BY <1>11, <2>1, AppendProperties
  <2>3. Append(form, e) # <<>>
    BY <1>2, <2>2
  <2> QED
    BY <1>5, <2>2, <2>3, Zenon
<1>13. \A k \in 1..Len(form') : k \in 1..Len(form) \/ k = Len(form) + 1
  BY <1>2, <1>12
<1>14. StandsIn(encoded', e)
  <2>1. Writes(encoded', a, name) /\ Writes(encoded', a + n + 1, value)
    BY <1>6, Zenon DEF Writes, n, v
  <2>2. a = 1 \/ encoded'[a - 1] = Amp
    BY <1>9, <1>10
  <2>3. Ending(e) <= Len(encoded') /\ Ending(e) = Len(encoded')
    BY <1>2, <1>7, <1>8
  <2> QED
    BY <1>6, <1>7, <1>8, <2>1, <2>2, <2>3, Zenon DEF StandsIn, n
<1>15. ASSUME NEW k \in 1..Len(form)
       PROVE  StandsIn(encoded', form[k]) /\ Ending(form[k]) < a
  <2>1. form # <<>> /\ form[k] \in Argument
    BY <1>1
  <2>2. StandsIn(encoded, form[k]) /\ Ending(form[k]) <= len /\ Ending(form[k]) \in Nat
    BY ArgumentOf, Zenon DEF len
  <2>3. len < Len(encoded')
    BY <1>2, <1>8
  <2>4. StandsIn(encoded', form[k])
    BY <1>1, <1>6, <1>9, <2>1, <2>2, <2>3, StillStands, Zenon DEF len
  <2>5. Ending(form[k]) < a
    BY <1>2, <1>8, <2>2
  <2> QED
    BY <2>4, <2>5
<1>16. \A k \in 1..Len(form') : StandsIn(encoded', form'[k])
  BY <1>12, <1>13, <1>14, <1>15, Zenon
<1>17. \A p \in 1..Len(encoded') : p \in 1..len \/ (form # <<>> /\ p = len + 1)
                                       \/ (a <= p /\ p <= Ending(e))
  <2>1. form = <<>> => a = 1
    BY <1>10
  <2>2. form # <<>> => a - 1 = len + 1
    BY <1>9
  <2> QED
    BY <1>2, <1>7, <1>8, <2>1, <2>2
<1>18. /\ \A k \in 1..Len(form) : k \in 1..Len(form')
       /\ Len(form) + 1 \in 1..Len(form')
  BY <1>2, <1>12
<1>19. ASSUME NEW p \in 1..Len(encoded')
       PROVE  encoded'[p] = Amp
                  \/ \E k \in 1..Len(form') : form'[k].from <= p /\ p <= Ending(form'[k])
  <2>1. CASE p \in 1..len
    BY <1>1, <1>6, <1>12, <1>18, <2>1, Zenon
  <2>2. CASE form # <<>> /\ p = len + 1
    BY <1>9, <2>2
  <2>3. CASE a <= p /\ p <= Ending(e)
    BY <1>7, <1>12, <1>18, <2>3, Zenon
  <2> QED
    BY <1>17, <2>1, <2>2, <2>3, Zenon
<1>20. ASSUME NEW k \in 1..Len(form'), NEW j \in 1..Len(form'), j < k
       PROVE  Ending(form'[j]) < form'[k].from
  <2>1. j \in 1..Len(form)
    BY <1>2, <1>12, <1>20
  <2>2. CASE k \in 1..Len(form)
    BY <1>1, <1>12, <1>20, <2>1, <2>2, Zenon
  <2>3. CASE k = Len(form) + 1
    BY <1>7, <1>12, <1>15, <2>1, <2>3, Zenon
  <2> QED
    BY <1>13, <2>2, <2>3, Zenon
<1> QED
  BY <1>6, <1>12, <1>16, <1>19, <1>20, Zenon DEF ComposedOf

\* What the client has composed stays so: only its method counts.
LEMMA ComposedNext ==
    ASSUME ComposedOf(encoded', form'), method' = method
    PROVE  Composed'
<1>1. \A c : Escape(c)' = Escape(c)
  BY Zenon DEF Escape
<1>2. ASSUME NEW str, NEW e, StandsIn(str, e) PROVE StandsIn(str, e)'
  BY <1>1, <1>2, Zenon DEF StandsIn, Writes
<1> QED
  BY <1>2, Zenon DEF Composed, ComposedOf

\* The client composes nothing first.
LEMMA ArgsStart == ArgumentsInit => ArgsIInv
<1> SUFFICES ASSUME ArgumentsInit PROVE ArgsIInv
  OBVIOUS
<1>1. form = <<>> /\ encoded = <<>> /\ state = "client" /\ method \in {"GET", "POST"}
  BY DEF ArgumentsInit
<1>2. Composed
  BY <1>1 DEF Composed, ComposedOf
<1> QED
  BY <1>1, <1>2, Zenon DEF ArgsIInv

\* Reading the arguments gives those of the form.
LEMMA ArgsRead ==
    ASSUME ArgsIInv, ReadPost \/ ReadGet
    PROVE  (method = "GET" => Plain) => state' = "read" /\ Result(args')
<1>1. Composed
  BY DEF ArgsIInv
<1>2. CASE ReadPost
  <2>1. Says(encoded) /\ ParseArguments(encoded)
    BY <1>1, <1>2, BodySays DEF ReadPost
  <2> QED
    BY <1>1, <2>1, ParsedIs
<1>3. CASE ReadGet
  <2> SUFFICES ASSUME Plain PROVE state' = "read" /\ Result(args')
    BY <1>3 DEF ReadGet
  <2> DEFINE str == Unescape(<<47, Query>> \o encoded)
             at == CHOOSE i \in 1..Len(str) :
                      str[i] = Query /\ \A j \in 1..i - 1 : str[j] # Query
             rear == SubSeq(str, at + 1, Len(str))
             len == Len(encoded)
  <2>1. method = "GET" /\ ParseArguments(rear)
    BY <1>3, Zenon DEF ReadGet
  <2>2. len \in Nat
    BY <1>1 DEF Composed, ComposedOf
  <2>3. /\ str \in Seq(Nat) /\ Len(str) = len + 2 /\ str[1] # Query /\ str[2] = Query
        /\ \A p \in 1..len : str[p + 2] = encoded[p] % 256
    BY <1>1, <2>1, TargetIs, Zenon
  <2> HIDE DEF str
  <2>4. rear \in Seq(Nat) /\ Len(rear) = len /\ \A p \in 1..len : rear[p] = str[p + 2]
    BY <2>2, <2>3, SplitsAt, Zenon
  <2> HIDE DEF rear
  <2>5. Says(rear)
    BY <1>1, <2>1, <2>3, <2>4, QuerySays
  <2> QED
    BY <1>1, <2>1, <2>5, ParsedIs
<1> QED
  BY <1>2, <1>3

\* Every step of a request preserves the invariant.
LEMMA ArgsStep == ArgsIInv /\ [ArgumentsNext]_arguments => ArgsIInv'
<1> SUFFICES ASSUME ArgsIInv, [ArgumentsNext]_arguments PROVE ArgsIInv'
  OBVIOUS
<1>1. Composed /\ method \in {"GET", "POST"}
  BY DEF ArgsIInv
<1>2. CASE Compose
  <2>1. PICK n \in 1..MaxArgName, v \in 0..MaxText :
                \E name \in [1..n -> Chars], value \in [1..v -> Chars] : AddArgument(name, value)
    BY <1>2, Zenon DEF Compose
  <2>2. PICK name \in [1..n -> Chars], value \in [1..v -> Chars] : AddArgument(name, value)
    BY <2>1
  <2>3. name \in Octets /\ value \in Octets /\ name # <<>>
    <3>1. \A m \in Nat : \A t \in [1..m -> Chars] : t \in Octets /\ Len(t) = m
      <4>1. \A m \in Nat : \A t \in [1..m -> Chars] : t \in [1..m -> 0..255]
        BY ArgumentsAssumption
      <4>2. \A m \in Nat : \A t \in [1..m -> 0..255] : t \in Seq(0..255) /\ Len(t) = m
        BY SeqDef
      <4> QED
        BY <4>1, <4>2, Zenon DEF Octets
    <3>2. n \in Nat /\ n # 0 /\ v \in Nat
      BY <2>1, ArgumentsAssumption
    <3>3. name \in Octets /\ value \in Octets /\ Len(name) = n
      BY <2>2, <3>1, <3>2, Zenon
    <3> QED
      BY <3>2, <3>3
  <2>4. method' = method /\ state' = state /\ state = "client"
    BY <1>2, <2>2, Zenon DEF AddArgument, Compose
  <2>5. Composed'
    BY <1>1, <2>2, <2>3, <2>4, AddsArgument, ComposedNext
  <2> QED
    BY <1>1, <2>4, <2>5, Zenon DEF ArgsIInv
<1>3. CASE ReadPost \/ ReadGet
  <2>1. method' = method /\ form' = form /\ encoded' = encoded
    BY <1>3, Zenon DEF ReadPost, ReadGet, request
  <2>2. Composed'
    BY <1>1, <2>1, ComposedNext, Zenon DEF Composed
  <2>3. (method = "GET" => Plain) => state' = "read" /\ Result(args')
    BY <1>3, ArgsRead
  <2>4. (Plain' <=> Plain) /\ (Result(args)' <=> Result(args'))
    <3>1. Plain' <=> Plain
      BY <2>1, SMT DEF Plain
    <3>2. Result(args)' <=> Result(args')
      BY <2>1, SMT DEF Result
    <3> QED
      BY <3>1, <3>2
  <2>5. "read" # "undefined"
    OBVIOUS
  <2> QED
    BY <1>1, <2>1, <2>2, <2>3, <2>4, <2>5, Zenon DEF ArgsIInv
<1>4. CASE RequestReceived \/ UNCHANGED arguments
  <2>1. /\ method' = method /\ form' = form /\ encoded' = encoded /\ args' = args
        /\ state' = "client" => state = "client"
        /\ state = "client" => state' = "client"
        /\ state' = "undefined" => state = "undefined"
    <3>1. CASE RequestReceived
      <4>1. method' = method /\ form' = form /\ encoded' = encoded /\ args' = args
        BY <3>1, Zenon DEF RequestReceived, request
      <4>2. state = "read" /\ (state' = "refused" \/ state' = "let in")
        BY <3>1, Zenon DEF RequestReceived
      <4> QED
        BY <4>1, <4>2, Zenon
    <3>2. CASE UNCHANGED arguments
      BY <3>2, Zenon DEF arguments, request
    <3> QED
      BY <1>4, <3>1, <3>2
  <2>2. Composed'
    BY <1>1, <2>1, ComposedNext, Zenon DEF Composed
  <2>3. (Plain' <=> Plain) /\ (Result(args)' <=> Result(args))
    <3>1. Plain' <=> Plain
      BY <2>1, SMT DEF Plain
    <3>2. Result(args)' <=> Result(args)
      BY <2>1, SMT DEF Result
    <3> QED
      BY <3>1, <3>2
  <2> QED
    BY <1>1, <2>1, <2>2, <2>3, Zenon DEF ArgsIInv
<1> QED
  BY <1>2, <1>3, <1>4 DEF ArgumentsNext

\* For names, values and forms of every length and of any characters, the
\* handler gets the arguments of a request, the last value under each name: all
\* those of a posted form, and those of a query that needs no second escape.
THEOREM ReadsArguments == ArgumentsSpec => []ArgsExact
<1>1. ArgumentsInit => ArgsIInv
  BY ArgsStart
<1>2. ArgsIInv /\ [ArgumentsNext]_arguments => ArgsIInv'
  BY ArgsStep
<1>3. ArgsIInv => ArgsExact
  BY Zenon DEF ArgsIInv, ArgsExact, Result
<1> QED
  BY <1>1, <1>2, <1>3, PTL DEF ArgumentsSpec

-----------------------------------------------------------------------------
(* The names of files. *)

\* What stands behind a place of a text.
LEMMA Behind ==
    ASSUME NEW S, NEW f \in Seq(S), NEW len \in Nat, len = Len(f), NEW n \in 0..len
    PROVE  /\ SubSeq(f, n + 1, len) \in Seq(S) /\ Len(SubSeq(f, n + 1, len)) = len - n
           /\ \A i \in 1..len - n : SubSeq(f, n + 1, len)[i] = f[n + i]
<1>1. /\ n + 1 \in Int /\ len \in Int /\ \A i \in n + 1..len : i \in 1..len
      /\ (IF n + 1 <= len THEN len - (n + 1) + 1 ELSE 0) = len - n
      /\ len - (n + 1) + 1 = len - n
  OBVIOUS
<1>2. \A i \in 1..len : f[i] \in S
  BY ElementOfSeq
<1>3. \A i \in n + 1..len : f[i] \in S
  BY <1>1, <1>2
<1>4. /\ SubSeq(f, n + 1, len) \in Seq(S)
      /\ Len(SubSeq(f, n + 1, len)) = IF n + 1 <= len THEN len - (n + 1) + 1 ELSE 0
      /\ \A i \in 1..len - (n + 1) + 1 : SubSeq(f, n + 1, len)[i] = f[n + 1 + i - 1]
  BY <1>1, <1>3, SubSeqProperties
<1>5. \A i \in 1..len - n : n + 1 + i - 1 = n + i
  OBVIOUS
<1> QED
  BY <1>1, <1>4, <1>5

\* Behind a place behind a place.
LEMMA BehindTwice ==
    ASSUME NEW S, NEW f \in Seq(S), NEW len \in Nat, len = Len(f),
           NEW n \in 0..len, NEW m \in 0..len - n
    PROVE  SubSeq(SubSeq(f, n + 1, len), m + 1, len - n) = SubSeq(f, n + m + 1, len)
<1>1. PICK g \in Seq(S) : /\ g = SubSeq(f, n + 1, len) /\ Len(g) = len - n
                          /\ \A i \in 1..len - n : g[i] = f[n + i]
  <2>1. /\ SubSeq(f, n + 1, len) \in Seq(S) /\ Len(SubSeq(f, n + 1, len)) = len - n
        /\ \A i \in 1..len - n : SubSeq(f, n + 1, len)[i] = f[n + i]
    BY Behind
  <2> QED
    BY <2>1, Zenon
<1>2. PICK h \in Seq(S) : /\ h = SubSeq(g, m + 1, len - n) /\ Len(h) = len - n - m
                          /\ \A i \in 1..len - n - m : h[i] = g[m + i]
  <2>a. len - n \in Nat
    OBVIOUS
  <2>1. PICK k \in Nat : k = len - n /\ k = Len(g) /\ m \in 0..k
    BY <1>1, <2>a, Zenon
  <2>2. /\ SubSeq(g, m + 1, k) \in Seq(S) /\ Len(SubSeq(g, m + 1, k)) = k - m
        /\ \A i \in 1..k - m : SubSeq(g, m + 1, k)[i] = g[m + i]
    BY <1>1, <2>1, Behind
  <2> QED
    BY <2>1, <2>2, Zenon
<1>3. PICK e \in Seq(S) : /\ e = SubSeq(f, n + m + 1, len) /\ Len(e) = len - (n + m)
                          /\ \A i \in 1..len - (n + m) : e[i] = f[n + m + i]
  <2>1. PICK k \in 0..len : k = n + m
    OBVIOUS
  <2>2. /\ SubSeq(f, k + 1, len) \in Seq(S) /\ Len(SubSeq(f, k + 1, len)) = len - k
        /\ \A i \in 1..len - k : SubSeq(f, k + 1, len)[i] = f[k + i]
    BY <2>1, Behind
  <2> QED
    BY <2>1, <2>2, Zenon
<1>4. Len(h) = Len(e)
  BY <1>2, <1>3
<1>5. ASSUME NEW i \in 1..Len(h) PROVE h[i] = e[i]
  <2>1. i \in 1..len - n - m
    BY <1>2, <1>5
  <2>a. i \in 1..len - (n + m) /\ m + i \in 1..len - n /\ n + (m + i) = n + m + i
    BY <2>1
  <2>2. h[i] = g[m + i] /\ g[m + i] = f[n + (m + i)] /\ e[i] = f[n + m + i]
    BY <1>1, <1>2, <1>3, <2>1, <2>a
  <2> QED
    BY <2>a, <2>2
<1>6. h = e
  BY <1>2, <1>3, <1>4, <1>5, SeqEqual
<1> QED
  BY <1>1, <1>2, <1>3, <1>6

\* rfind and find_last_of, and what follows the place they find.
LEMMA FromIs ==
    ASSUME NEW S, NEW f \in Seq(S), NEW seps, NEW len \in Nat, len = Len(f)
    PROVE  \E n \in 0..len : /\ From(f, seps) = SubSeq(f, n + 1, len)
                             /\ n = 0 \/ f[n] \in seps
                             /\ \A i \in n + 1..len : f[i] \notin seps
<1> DEFINE places == {i \in 1..len : f[i] \in seps}
<1>1. CASE places = {}
  <2>1. From(f, seps) = SubSeq(f, 0 + 1, len)
    BY <1>1 DEF From, SelectLastInSeq
  <2> QED
    BY <1>1, <2>1
<1>2. CASE places # {}
  <2> DEFINE back == {k \in Nat : len - k \in places}
  <2>1. PICK j \in places : TRUE
    BY <1>2
  <2>2. len - j \in Nat /\ len - (len - j) = j
    BY <2>1
  <2>3. len - j \in back
    BY <2>1, <2>2
  <2> HIDE DEF places
  <2>4. PICK k \in back : \A l \in back : ~(<<l, k>> \in OpToRel(<, Nat))
    <3>1. back \in SUBSET Nat /\ back # {}
      BY <2>3
    <3> HIDE DEF back
    <3> QED
      BY <3>1, WFMin, NatLessThanWellFounded, Zenon
  <2>5. len - k \in places /\ k \in Nat
    BY <2>4
  <2> USE DEF places
  <2>6. ASSUME NEW i \in places PROVE len - k >= i
    <3>1. len - i \in back
      BY <2>6
    <3>2. ~(len - i < k)
      BY <2>4, <2>5, <3>1 DEF OpToRel
    <3> QED
      BY <2>5, <2>6, <3>2
  <2>7. PICK n \in places : n = Max(places) /\ \A i \in places : n >= i
    BY <2>5, <2>6 DEF Max
  <2>8. From(f, seps) = SubSeq(f, n + 1, len)
    <3>1. From(f, seps) = SubSeq(f, Max(places) + 1, len)
      BY <1>2, Zenon DEF From, SelectLastInSeq
    <3> HIDE DEF places
    <3>2. n = Max(places)
      BY <2>7
    <3> QED
      BY <3>1, <3>2
  <2>9. n \in 0..len /\ f[n] \in seps /\ \A i \in n + 1..len : f[i] \notin seps
    <3>1. n \in 1..len /\ f[n] \in seps
      BY <2>7
    <3>2. ASSUME NEW i \in n + 1..len, f[i] \in seps PROVE FALSE
      <4>1. i \in places /\ ~(n >= i)
        BY <3>1, <3>2
      <4> QED
        BY <2>7, <4>1, Zenon
    <3> QED
      BY <3>1, <3>2
  <2> QED
    BY <2>8, <2>9
<1> QED
  BY <1>1, <1>2

FileChars == {"e"} \cup Separators

\* SaveUpload keeps the last part of a file's name, which names no directory.
LEMMA FileNameIs ==
    ASSUME NEW f \in Seq(FileChars)
    PROVE  /\ FileName(f) \in Seq(FileChars)
           /\ ToSet(FileName(f)) \cap Separators = {}
           /\ BaseName(FileName(f), f)
<1>1. PICK len \in Nat : len = Len(f)
  BY LenProperties
<1>2. PICK n \in 0..len : /\ GetValue(f) = SubSeq(f, n + 1, len)
                          /\ n = 0 \/ f[n] \in Separators
  <2>1. PICK seps \in SUBSET Separators : GetValue(f) = From(f, seps)
    BY DEF GetValue, Separators
  <2>2. \E n \in 0..len : /\ From(f, seps) = SubSeq(f, n + 1, len)
                          /\ n = 0 \/ f[n] \in seps
                          /\ \A i \in n + 1..len : f[i] \notin seps
    BY <1>1, FromIs
  <2> QED
    BY <2>1, <2>2
<1>3. PICK g \in Seq(FileChars) : /\ g = GetValue(f) /\ Len(g) = len - n
                                  /\ \A i \in 1..len - n : g[i] = f[n + i]
  <2>1. /\ SubSeq(f, n + 1, len) \in Seq(FileChars) /\ Len(SubSeq(f, n + 1, len)) = len - n
        /\ \A i \in 1..len - n : SubSeq(f, n + 1, len)[i] = f[n + i]
    BY <1>1, Behind
  <2> QED
    BY <1>2, <2>1, Zenon
<1>4. PICK k \in Nat : k = len - n /\ k = Len(g)
  <2>1. len - n \in Nat
    OBVIOUS
  <2> QED
    BY <1>3, <2>1, Zenon
<1>5. PICK m \in 0..k : /\ From(g, Separators) = SubSeq(g, m + 1, k)
                        /\ m = 0 \/ g[m] \in Separators
                        /\ \A i \in m + 1..k : g[i] \notin Separators
  BY <1>3, <1>4, FromIs
<1>6. PICK h \in Seq(FileChars) : /\ h = FileName(f) /\ h = SubSeq(g, m + 1, k)
                                  /\ Len(h) = k - m
                                  /\ \A i \in 1..k - m : h[i] = g[m + i]
  <2>1. /\ SubSeq(g, m + 1, k) \in Seq(FileChars) /\ Len(SubSeq(g, m + 1, k)) = k - m
        /\ \A i \in 1..k - m : SubSeq(g, m + 1, k)[i] = g[m + i]
    BY <1>3, <1>4, Behind
  <2>2. FileName(f) = SubSeq(g, m + 1, k)
    BY <1>3, <1>5, Zenon DEF FileName
  <2> QED
    BY <2>1, <2>2, Zenon
<1>7. ToSet(h) \cap Separators = {}
  <2>1. DOMAIN h = 1..k - m
    BY <1>6, LenProperties
  <2>2. \A i \in 1..k - m : m + i \in m + 1..k
    BY <1>4, <1>5
  <2> QED
    BY <1>5, <1>6, <2>1, <2>2 DEF ToSet
<1>8. BaseName(h, f)
  <2>1. h = SubSeq(f, n + m + 1, len)
    <3>1. SubSeq(SubSeq(f, n + 1, len), m + 1, len - n) = SubSeq(f, n + m + 1, len)
      BY <1>1, <1>4, BehindTwice
    <3> QED
      BY <1>2, <1>3, <1>4, <1>6, <3>1, Zenon
  <2>2. n + m \in 0..len
    BY <1>4
  <2>3. n + m = 0 \/ f[n + m] \in Separators
    <3>1. CASE m = 0
      BY <1>2, <3>1
    <3>2. CASE m # 0
      <4>1. m \in 1..len - n
        BY <1>4, <3>2
      <4> QED
        BY <1>3, <1>5, <3>2, <4>1
    <3> QED
      BY <3>1, <3>2
  <2> QED
    BY <1>1, <2>1, <2>2, <2>3 DEF BaseName
<1> QED
  BY <1>6, <1>7, <1>8, Zenon

-----------------------------------------------------------------------------
(* The form before the file. *)

\* What SaveUpload and the client have in common as long as no later line of a
\* value has looked like a field or a file.
InStep ==
    /\ AreFields(form_args, fields)
    /\ place = "boundary" => client = "part"
    /\ place = "look" => client \in {"header", "more"}
    /\ place = "skip to value" => client = "blank" /\ field_name = current
    /\ place = "value" => client = "value" /\ field_name = current
    /\ place = "skip to data" => client \in {"type", "file blank"} /\ BaseName(filename, file)
    /\ place = "data" => client = "done" /\ BaseName(filename, file)
    /\ place # "astray"

Counted == crlf => tot_bytes = sent_bytes

NoDirectory == ToSet(filename) \cap Separators = {}

FormIInv == FormTypeOK /\ Counted /\ NoDirectory /\ (plain => InStep)

\* The lines of a form, and what they carry.
LEMMA FormLineIs ==
    ASSUME NEW line \in FormLines
    PROVE  /\ LineLength(line) \in Nat /\ Count(line) = LineLength(line) + 2
           /\ line.kind = "text" \/ line.kind = "name" \/ line.kind = "filename"
           /\ line.kind = "name" => line.text \in FieldNames
           /\ line.kind = "filename" => line.text \in Seq(FileChars)
           /\ line = Empty \/ line = Boundary \/ line = Text("type") => line.kind = "text"
           /\ Empty # Boundary /\ Empty # Text("type") /\ Boundary # Text("type")
<1>1. LineLength(line) \in Nat /\ Count(line) = LineLength(line) + 2
  BY DEF LineLength, Count
<1>2. \A f \in FileNames : f \in Seq(FileChars)
  <2> SUFFICES ASSUME NEW f \in FileNames PROVE f \in Seq(FileChars)
    OBVIOUS
  <2>1. MaxFile \in Nat
    BY UploadFormAssumption
  <2>2. PICK m \in 0..MaxFile : f \in [1..m -> FileChars]
    BY DEF FileNames, SeqOf, FileChars
  <2>3. m \in Nat
    BY <2>1, <2>2
  <2> QED
    BY <2>2, <2>3, SeqDef
<1>3. \/ \E t \in Words \cup {"empty", "boundary", "type"} : line = Text(t)
      \/ \E n \in FieldNames : line = FieldLine(n)
      \/ \E f \in FileNames : line = FileLine(f)
  BY DEF FormLines, Empty, Boundary
<1>4. CASE \E t \in Words \cup {"empty", "boundary", "type"} : line = Text(t)
  <2>1. line.kind = "text"
    BY <1>4 DEF Text
  <2> QED
    BY <1>1, <2>1 DEF Empty, Boundary, Text
<1>5. CASE \E n \in FieldNames : line = FieldLine(n)
  <2>1. line.kind = "name" /\ line.text \in FieldNames
    BY <1>5 DEF FieldLine
  <2> QED
    BY <1>1, <2>1 DEF Empty, Boundary, Text
<1>6. CASE \E f \in FileNames : line = FileLine(f)
  <2>1. line.kind = "filename" /\ line.text \in FileNames
    BY <1>6 DEF FileLine
  <2> QED
    BY <1>1, <1>2, <2>1 DEF Empty, Boundary, Text
<1> QED
  BY <1>3, <1>4, <1>5, <1>6

\* What the client may send.
LEMMA SendsIs ==
    ASSUME NEW line, Sends(line)
    PROVE  /\ crlf' = crlf /\ client' \in ClientStates
           /\ sent_bytes' = sent_bytes + LineLength(line) + IF crlf THEN 2 ELSE 1
           /\ client = "value" \/ fields' = fields
           /\ (client = "header" /\ line.kind = "filename") \/ file' = file
           /\ (client = "header" /\ line.kind = "name") \/ current' = current
           /\ \/ /\ client \in {"part", "more"} /\ line = Boundary /\ client' = "header"
                 /\ plain' = plain
              \/ /\ client = "header" /\ line.kind = "name" /\ client' = "blank"
                 /\ current' = line.text /\ plain' = plain
              \/ /\ client = "header" /\ line.kind = "filename" /\ client' = "type"
                 /\ file' = line.text /\ plain' = plain
              \/ client = "blank" /\ line = Empty /\ client' = "value" /\ plain' = plain
              \/ client = "type" /\ line = Text("type") /\ client' = "file blank" /\ plain' = plain
              \/ client = "file blank" /\ line = Empty /\ client' = "done" /\ plain' = plain
              \/ /\ client = "value" /\ client' = "more" /\ plain' = plain
                 /\ fields' = Append(fields, [name |-> current, value |-> line])
              \/ client = "more" /\ client' = "more" /\ plain' = (plain /\ line.kind = "text")
           /\ lines' = lines \/ lines' = 0 \/ lines' = lines + 1
BY DEF Sends, SendsBoundary, SendsField, SendsFile, SendsHeaders, SendsValue, Goes, ClientStates

\* The client has every kind of its state after a line.
LEMMA SendsTypes ==
    ASSUME FormTypeOK, NEW line \in FormLines, Sends(line)
    PROVE  /\ crlf' \in BOOLEAN /\ client' \in ClientStates /\ plain' \in BOOLEAN
           /\ lines' \in Nat /\ sent_bytes' \in Nat
           /\ current' \in FieldNames \cup {NoName}
           /\ fields' \in Seq([name : FieldNames \cup {NoName}, value : FormLines])
           /\ file' \in Seq(FileChars)
<1> DEFINE Field == [name : FieldNames \cup {NoName}, value : FormLines]
<1>1. /\ crlf \in BOOLEAN /\ plain \in BOOLEAN /\ lines \in Nat /\ sent_bytes \in Nat
      /\ current \in FieldNames \cup {NoName} /\ fields \in Seq(Field) /\ file \in Seq(FileChars)
  BY DEF FormTypeOK, FileChars
<1>2. crlf' \in BOOLEAN /\ client' \in ClientStates /\ plain' \in BOOLEAN
  <2>1. crlf' = crlf /\ client' \in ClientStates
    BY SendsIs
  <2>2. plain' = plain \/ plain' = (plain /\ line.kind = "text")
    BY SendsIs
  <2>3. (plain /\ line.kind = "text") \in BOOLEAN
    BY Zenon
  <2> QED
    BY <1>1, <2>1, <2>2, <2>3, Zenon
<1>3. lines' \in Nat
  <2>1. lines' = lines \/ lines' = 0 \/ lines' = lines + 1
    BY SendsIs
  <2>2. lines + 1 \in Nat /\ 0 \in Nat
    BY <1>1
  <2> QED
    BY <1>1, <2>1, <2>2, Zenon
<1>4. sent_bytes' \in Nat
  <2>1. sent_bytes' = sent_bytes + LineLength(line) + IF crlf THEN 2 ELSE 1
    BY SendsIs
  <2>2. LineLength(line) \in Nat
    BY FormLineIs
  <2> QED
    BY <1>1, <2>1, <2>2
<1>5. current' \in FieldNames \cup {NoName} /\ file' \in Seq(FileChars)
  <2>1. /\ line.kind = "name" => line.text \in FieldNames
        /\ line.kind = "filename" => line.text \in Seq(FileChars)
    BY FormLineIs
  <2>2. current' = current \/ (line.kind = "name" /\ current' = line.text)
    BY SendsIs
  <2>3. file' = file \/ (line.kind = "filename" /\ file' = line.text)
    BY SendsIs
  <2> QED
    BY <1>1, <2>1, <2>2, <2>3, Zenon
<1>6. fields' \in Seq(Field)
  <2>1. fields' = fields \/ fields' = Append(fields, [name |-> current, value |-> line])
    BY SendsIs
  <2>2. [name |-> current, value |-> line] \in Field
    BY <1>1
  <2>3. Append(fields, [name |-> current, value |-> line]) \in Seq(Field)
    BY <1>1, <2>2, AppendProperties
  <2> QED
    BY <1>1, <2>1, <2>3, Zenon
<1> QED
  BY <1>2, <1>3, <1>4, <1>5, <1>6

\* Every step of SaveUpload keeps the types, the count and the file's name.
LEMMA FormTypesStep ==
    FormTypeOK /\ Counted /\ NoDirectory /\ [FormNext]_upload
        => FormTypeOK' /\ Counted' /\ NoDirectory'
<1> SUFFICES ASSUME FormTypeOK, Counted, NoDirectory, [FormNext]_upload
             PROVE  FormTypeOK' /\ Counted' /\ NoDirectory'
  OBVIOUS
<1>1. /\ field_name \in FieldNames \cup {NoName} /\ tot_bytes \in Nat /\ sent_bytes \in Nat
      /\ filename \in Seq(FileChars) /\ place \in Reading \cup {"data", "refused", "astray"}
  BY DEF FormTypeOK, FileChars
<1>2. ASSUME NEW line \in FormLines, NEW s \in Reading \cup {"data", "refused", "astray"},
             ReadLine(line, s),
             field_name' = field_name \/ field_name' \in FieldNames,
             \/ filename' = filename
             \/ \E f \in Seq(FileChars) : filename' = FileName(f)
      PROVE  FormTypeOK' /\ Counted' /\ NoDirectory'
  <2>1. Sends(line) /\ tot_bytes' = tot_bytes + Count(line) /\ place' = s
    BY <1>2 DEF ReadLine
  <2>2. /\ LineLength(line) \in Nat /\ Count(line) = LineLength(line) + 2
    BY FormLineIs
  <2>3. Counted'
    <3>1. /\ crlf' = crlf
          /\ sent_bytes' = sent_bytes + LineLength(line) + IF crlf THEN 2 ELSE 1
      BY <2>1, SendsIs
    <3>2. ASSUME crlf PROVE tot_bytes' = sent_bytes'
      <4>1. tot_bytes = sent_bytes
        BY <3>2 DEF Counted
      <4>2. sent_bytes' = sent_bytes + LineLength(line) + 2
        BY <3>1, <3>2
      <4>3. sent_bytes + LineLength(line) + 2 = sent_bytes + (LineLength(line) + 2)
        BY <1>1, <2>2
      <4> QED
        BY <2>1, <2>2, <4>1, <4>2, <4>3
    <3> QED
      BY <3>1, <3>2 DEF Counted
  <2>4. filename' \in Seq(FileChars) /\ NoDirectory'
    <3>1. CASE filename' = filename
      BY <1>1, <3>1 DEF NoDirectory
    <3>2. CASE \E f \in Seq(FileChars) : filename' = FileName(f)
      <4>1. PICK f \in Seq(FileChars) : filename' = FileName(f)
        BY <3>2
      <4>2. FileName(f) \in Seq(FileChars) /\ ToSet(FileName(f)) \cap Separators = {}
        BY FileNameIs
      <4> QED
        BY <4>1, <4>2, Zenon DEF NoDirectory
    <3> QED
      BY <1>2, <3>1, <3>2
  <2>5. tot_bytes' \in Nat
    BY <1>1, <2>1, <2>2
  <2>6. field_name' \in FieldNames \cup {NoName}
    BY <1>1, <1>2
  <2>7. FormTypeOK'
    <3>1. /\ crlf' \in BOOLEAN /\ client' \in ClientStates /\ plain' \in BOOLEAN
          /\ lines' \in Nat /\ sent_bytes' \in Nat
          /\ current' \in FieldNames \cup {NoName}
          /\ fields' \in Seq([name : FieldNames \cup {NoName}, value : FormLines])
          /\ file' \in Seq(FileChars)
      BY <2>1, SendsTypes
    <3> QED
      BY <1>2, <2>1, <2>4, <2>5, <2>6, <3>1, Zenon DEF FormTypeOK, FileChars
  <2> QED
    BY <2>3, <2>4, <2>7
<1>3. ASSUME NEW line \in FormLines, ReadBoundary(line)
      PROVE  FormTypeOK' /\ Counted' /\ NoDirectory'
  BY <1>2, <1>3 DEF ReadBoundary, Reading
<1>4. ASSUME NEW line \in FormLines, LookAtFile(line)
      PROVE  FormTypeOK' /\ Counted' /\ NoDirectory'
  <2>1. line.text \in Seq(FileChars)
    BY <1>4, FormLineIs DEF LookAtFile
  <2> QED
    BY <1>2, <1>4, <2>1 DEF LookAtFile, Reading
<1>5. ASSUME NEW line \in FormLines, LookAtField(line)
      PROVE  FormTypeOK' /\ Counted' /\ NoDirectory'
  <2>1. line.text \in FieldNames
    BY <1>5, FormLineIs DEF LookAtField
  <2> QED
    BY <1>2, <1>5, <2>1 DEF LookAtField, Reading
<1>6. ASSUME NEW line \in FormLines, LookAtOther(line)
      PROVE  FormTypeOK' /\ Counted' /\ NoDirectory'
  BY <1>2, <1>6 DEF LookAtOther, Reading
<1>7. ASSUME NEW line \in FormLines, SkipLines(line)
      PROVE  FormTypeOK' /\ Counted' /\ NoDirectory'
  BY <1>2, <1>7 DEF SkipLines, Reading
<1>8. ASSUME NEW line \in FormLines, ReadValue(line)
      PROVE  FormTypeOK' /\ Counted' /\ NoDirectory'
  BY <1>2, <1>8 DEF ReadValue, Reading
<1>9. CASE ReadLineFails
  <2>1. /\ UNCHANGED sender /\ field_name' = field_name /\ filename' = filename
        /\ tot_bytes' = tot_bytes /\ place' \in {"astray", "refused"}
    BY <1>9 DEF ReadLineFails
  <2> QED
    BY <2>1, Zenon DEF FormTypeOK, Counted, NoDirectory, sender
<1>10. CASE UNCHANGED upload
  BY <1>10 DEF FormTypeOK, Counted, NoDirectory, upload, sender
<1> QED
  BY <1>3, <1>4, <1>5, <1>6, <1>7, <1>8, <1>9, <1>10 DEF FormNext

\* A field that is sent and stored under its own name keeps the arguments true.
LEMMA FieldStored ==
    ASSUME FormTypeOK, AreFields(form_args, fields), NEW line \in FormLines,
           fields' = Append(fields, [name |-> current, value |-> line]),
           form_args' = [n \in DOMAIN form_args \cup {current} |->
                            IF n = current THEN line ELSE form_args[n]]
    PROVE  AreFields(form_args', fields')
<1> DEFINE Field == [name : FieldNames \cup {NoName}, value : FormLines]
<1>1. fields \in Seq(Field) /\ [name |-> current, value |-> line] \in Field
  BY DEF FormTypeOK
<1>2. PICK len \in Nat : len = Len(fields)
  BY <1>1, LenProperties
<1>3. PICK new \in Seq(Field) :
         /\ new = fields' /\ Len(new) = len + 1
         /\ \A i \in 1..len : new[i] = fields[i]
         /\ new[len + 1].name = current /\ new[len + 1].value = line
  <2>1. PICK fld \in Field : fld = [name |-> current, value |-> line]
    BY <1>1
  <2>2. /\ Append(fields, fld) \in Seq(Field) /\ Len(Append(fields, fld)) = len + 1
        /\ \A i \in 1..len : Append(fields, fld)[i] = fields[i]
        /\ Append(fields, fld)[len + 1] = fld
    BY <1>1, <1>2, AppendProperties
  <2>3. fld.name = current /\ fld.value = line
    BY <2>1
  <2> QED
    BY <2>1, <2>2, <2>3, Zenon
<1>4. PICK all : all = form_args'
  OBVIOUS
<1>5. /\ DOMAIN all = DOMAIN form_args \cup {current} /\ all[current] = line
      /\ \A n \in DOMAIN form_args : n # current => all[n] = form_args[n]
  BY <1>4
<1>6. /\ DOMAIN form_args = {fields[i].name : i \in 1..len}
      /\ \A i \in 1..len :
            \/ form_args[fields[i].name] = fields[i].value
            \/ \E j \in i + 1..len : fields[j].name = fields[i].name
  BY <1>2, Zenon DEF AreFields
<1>7. DOMAIN all = {new[i].name : i \in 1..len + 1}
  <2>1. ASSUME NEW n \in DOMAIN all PROVE \E i \in 1..len + 1 : n = new[i].name
    <3>1. CASE n = current
      <4>1. len + 1 \in 1..len + 1
        OBVIOUS
      <4> QED
        BY <1>3, <3>1, <4>1, Zenon
    <3>2. CASE n \in DOMAIN form_args
      <4>1. PICK i \in 1..len : n = fields[i].name
        BY <1>6, <3>2
      <4>2. i \in 1..len + 1
        OBVIOUS
      <4> QED
        BY <1>3, <4>1, <4>2, Zenon
    <3> QED
      BY <1>5, <2>1, <3>1, <3>2
  <2>2. ASSUME NEW i \in 1..len + 1 PROVE new[i].name \in DOMAIN all
    <3>1. CASE i = len + 1
      BY <1>3, <1>5, <3>1
    <3>2. CASE i # len + 1
      <4>1. i \in 1..len
        BY <3>2
      <4> QED
        BY <1>3, <1>5, <1>6, <4>1
    <3> QED
      BY <3>1, <3>2
  <2> QED
    BY <2>1, <2>2
<1>8. ASSUME NEW i \in 1..len + 1
      PROVE  \/ all[new[i].name] = new[i].value
             \/ \E j \in i + 1..len + 1 : new[j].name = new[i].name
  <2>1. CASE i = len + 1
    BY <1>3, <1>5, <2>1
  <2>2. CASE i # len + 1 /\ new[i].name = current
    <3>1. len + 1 \in i + 1..len + 1
      BY <2>2
    <3> QED
      BY <1>3, <2>2, <3>1
  <2>3. CASE i # len + 1 /\ new[i].name # current
    <3>1. i \in 1..len /\ new[i] = fields[i]
      BY <1>3, <2>3
    <3>2. CASE form_args[fields[i].name] = fields[i].value
      <4>1. fields[i].name \in DOMAIN form_args
        BY <1>6, <3>1
      <4> QED
        BY <1>5, <2>3, <3>1, <3>2, <4>1
    <3>3. CASE \E j \in i + 1..len : fields[j].name = fields[i].name
      <4>1. PICK j \in i + 1..len : fields[j].name = fields[i].name
        BY <3>3
      <4>2. j \in i + 1..len + 1 /\ j \in 1..len
        BY <4>1
      <4>3. new[j] = fields[j]
        BY <1>3, <4>2
      <4> QED
        BY <3>1, <4>1, <4>2, <4>3
    <3> QED
      BY <1>6, <3>1, <3>2, <3>3
  <2> QED
    BY <2>1, <2>2, <2>3
<1> QED
  <2>1. /\ DOMAIN all = {new[i].name : i \in 1..Len(new)}
        /\ \A i \in 1..Len(new) :
              \/ all[new[i].name] = new[i].value
              \/ \E j \in i + 1..Len(new) : new[j].name = new[i].name
    <3>1. Len(new) = len + 1
      BY <1>3
    <3>2. DOMAIN all = {new[i].name : i \in 1..Len(new)}
      BY <1>7, <3>1
    <3>3. \A i \in 1..Len(new) :
             \/ all[new[i].name] = new[i].value
             \/ \E j \in i + 1..Len(new) : new[j].name = new[i].name
      BY <1>8, <3>1
    <3> QED
      BY <3>2, <3>3, Zenon
  <2>2. AreFields(all, new)
    BY <2>1, Zenon DEF AreFields
  <2> QED
    BY <1>3, <1>4, <2>2, Zenon

\* SaveUpload and the client stay in step.
LEMMA InStepStep ==
    FormTypeOK /\ (plain => InStep) /\ [FormNext]_upload => (plain' => InStep')
<1> SUFFICES ASSUME FormTypeOK, plain => InStep, [FormNext]_upload, plain'
             PROVE  InStep'
  OBVIOUS
<1>1. ASSUME NEW line \in FormLines, Sends(line) PROVE plain
  <2>1. plain' = plain \/ plain' = (plain /\ line.kind = "text")
    BY <1>1, SendsIs
  <2> QED
    BY <2>1
<1>2. ASSUME NEW line \in FormLines, NEW s, ReadLine(line, s)
      PROVE  /\ InStep /\ place' = s /\ Sends(line)
             /\ client = "value" \/ fields' = fields
             /\ (client = "header" /\ line.kind = "filename") \/ file' = file
             /\ (client = "header" /\ line.kind = "name") \/ current' = current
  <2>1. Sends(line) /\ place' = s
    BY <1>2 DEF ReadLine
  <2>2. InStep
    BY <1>1, <2>1
  <2> QED
    BY <2>1, <2>2, SendsIs
<1>3. ASSUME NEW line \in FormLines, ReadBoundary(line) PROVE InStep'
  <2>1. /\ InStep /\ place' = "look" /\ Sends(line) /\ fields' = fields /\ client = "part"
        /\ form_args' = form_args
    BY <1>2, <1>3 DEF ReadBoundary, InStep
  <2>2. client' = "header"
    BY <2>1, SendsIs
  <2> QED
    BY <2>1, <2>2 DEF InStep
<1>4. ASSUME NEW line \in FormLines, LookAtFile(line) PROVE InStep'
  <2>1. /\ InStep /\ Sends(line) /\ client \in {"header", "more"} /\ fields' = fields
        /\ line.kind = "filename" /\ form_args' = form_args
        /\ place' = "refused" \/ (place' = "skip to data" /\ filename' = FileName(line.text))
    BY <1>2, <1>4, Zenon DEF LookAtFile, InStep
  <2>2. client = "header"
    <3>1. client # "more"
      <4>1. SUFFICES ASSUME client = "more" PROVE FALSE
        OBVIOUS
      <4>2. line = Boundary \/ plain' = (plain /\ line.kind = "text")
        BY <2>1, <4>1, SendsIs
      <4>3. line = Boundary => line.kind = "text"
        BY FormLineIs
      <4> QED
        BY <2>1, <4>2, <4>3
    <3> QED
      BY <2>1, <3>1
  <2>3. client' = "type" /\ file' = line.text
    <3>1. line # Boundary
      BY <2>1, FormLineIs
    <3> QED
      BY <2>1, <2>2, <3>1, SendsIs
  <2>4. BaseName(FileName(line.text), line.text)
    BY <2>1, FormLineIs, FileNameIs
  <2>5. place' = "skip to data" => BaseName(filename', file')
    BY <2>1, <2>3, <2>4
  <2> QED
    BY <2>1, <2>3, <2>5 DEF InStep
<1>5. ASSUME NEW line \in FormLines, LookAtField(line) PROVE InStep'
  <2>1. /\ InStep /\ Sends(line) /\ client \in {"header", "more"} /\ fields' = fields
        /\ line.kind = "name" /\ form_args' = form_args /\ field_name' = line.text
        /\ place' = "refused" \/ place' = "skip to value"
    BY <1>2, <1>5, Zenon DEF LookAtField, InStep
  <2>2. line # Boundary
    BY <2>1, FormLineIs
  <2>3. client' = "blank" /\ current' = line.text
    <3>1. client # "more"
      <4>1. SUFFICES ASSUME client = "more" PROVE FALSE
        OBVIOUS
      <4>2. plain' = (plain /\ line.kind = "text")
        BY <2>1, <2>2, <4>1, SendsIs
      <4> QED
        BY <2>1, <4>2
    <3> QED
      BY <2>1, <2>2, <3>1, SendsIs
  <2> QED
    BY <2>1, <2>3 DEF InStep
<1>6. ASSUME NEW line \in FormLines, LookAtOther(line) PROVE InStep'
  <2>1. /\ InStep /\ Sends(line) /\ client \in {"header", "more"} /\ fields' = fields
        /\ line.kind = "text" /\ form_args' = form_args /\ place' = "look"
    BY <1>2, <1>6, Zenon DEF LookAtOther, InStep
  <2>2. client' \in {"header", "more"}
    BY <2>1, SendsIs
  <2> QED
    BY <2>1, <2>2 DEF InStep
<1>7. ASSUME NEW line \in FormLines, SkipLines(line) PROVE InStep'
  <2>1. /\ InStep /\ Sends(line) /\ form_args' = form_args
        /\ field_name' = field_name /\ filename' = filename
        /\ \/ place = "skip to value" /\ place' = IF line = Empty THEN "value" ELSE place
           \/ place = "skip to data" /\ place' = IF line = Empty THEN "data" ELSE place
    BY <1>2, <1>7, Zenon DEF SkipLines
  <2>2. Empty # Boundary /\ Empty # Text("type")
    BY FormLineIs
  <2>3. CASE place = "skip to value"
    <3>1. client = "blank" /\ field_name = current
      BY <2>1, <2>3 DEF InStep
    <3>2. client' = "value" /\ line = Empty /\ fields' = fields /\ current' = current
      BY <2>1, <3>1, SendsIs
    <3>3. place' = "value"
      BY <2>1, <2>3, <3>2
    <3> QED
      BY <2>1, <3>1, <3>2, <3>3 DEF InStep
  <2>4. CASE place = "skip to data"
    <3>1. client \in {"type", "file blank"} /\ BaseName(filename, file)
      BY <2>1, <2>4 DEF InStep
    <3>2. /\ fields' = fields /\ file' = file
          /\ \/ client' = "file blank" /\ line = Text("type")
             \/ client' = "done" /\ line = Empty
      BY <2>1, <3>1, SendsIs
    <3>3. \/ client' = "file blank" /\ place' = "skip to data"
          \/ client' = "done" /\ place' = "data"
      BY <2>1, <2>2, <2>4, <3>2
    <3>4. BaseName(filename', file')
      BY <2>1, <3>1, <3>2
    <3> QED
      BY <2>1, <3>2, <3>3, <3>4 DEF InStep
  <2> QED
    BY <2>1, <2>3, <2>4
<1>8. ASSUME NEW line \in FormLines, ReadValue(line) PROVE InStep'
  <2>1. /\ InStep /\ Sends(line) /\ place' = "look" /\ client = "value" /\ field_name = current
        /\ form_args' = [n \in DOMAIN form_args \cup {field_name} |->
                            IF n = field_name THEN line ELSE form_args[n]]
    BY <1>2, <1>8, Zenon DEF ReadValue, InStep
  <2>2. client' = "more" /\ fields' = Append(fields, [name |-> current, value |-> line])
    BY <2>1, SendsIs
  <2>3. form_args' = [n \in DOMAIN form_args \cup {current} |->
                         IF n = current THEN line ELSE form_args[n]]
    BY <2>1, Zenon
  <2>4. AreFields(form_args, fields)
    BY <2>1 DEF InStep
  <2>5. AreFields(form_args', fields')
    BY <2>2, <2>3, <2>4, FieldStored
  <2> QED
    BY <2>1, <2>2, <2>5 DEF InStep
<1>9. CASE ReadLineFails
  <2>1. /\ UNCHANGED sender /\ form_args' = form_args /\ place \in Reading
        /\ place' = IF client = "done" THEN "astray" ELSE "refused"
    BY <1>9 DEF ReadLineFails
  <2>2. plain /\ fields' = fields
    BY <2>1 DEF sender
  <2>3. client # "done" /\ AreFields(form_args, fields)
    BY <2>1, <2>2 DEF InStep, Reading
  <2> QED
    BY <2>1, <2>2, <2>3 DEF InStep
<1>10. CASE UNCHANGED upload
  BY <1>10 DEF InStep, upload, sender
<1> QED
  BY <1>3, <1>4, <1>5, <1>6, <1>7, <1>8, <1>9, <1>10 DEF FormNext

\* Nothing has been read.
LEMMA FormStart == FormInit => FormIInv
<1> SUFFICES ASSUME FormInit PROVE FormIInv
  OBVIOUS
<1>1. <<>> \in Seq(FileChars) /\ ToSet(<<>>) = {}
  BY DEF ToSet
<1>2. FormTypeOK
  <2>1. /\ crlf \in BOOLEAN /\ client \in ClientStates /\ plain \in BOOLEAN
        /\ lines \in Nat /\ sent_bytes \in Nat /\ tot_bytes \in Nat
        /\ current \in FieldNames \cup {NoName} /\ field_name \in FieldNames \cup {NoName}
        /\ place \in Reading
    BY DEF FormInit, ClientStates, Reading
  <2>2. /\ fields \in Seq([name : FieldNames \cup {NoName}, value : FormLines])
        /\ file \in Seq({"e"} \cup Separators) /\ filename \in Seq({"e"} \cup Separators)
    BY DEF FormInit
  <2> QED
    BY <2>1, <2>2 DEF FormTypeOK
<1>3. Counted /\ NoDirectory
  BY <1>1 DEF FormInit, Counted, NoDirectory
<1>4. InStep
  <2>1. AreFields(<<>>, <<>>)
    BY DEF AreFields
  <2> QED
    BY <2>1 DEF FormInit, InStep
<1> QED
  BY <1>2, <1>3, <1>4 DEF FormIInv

\* What the client and SaveUpload have keeps its type.
THEOREM FormTypes == FormSpec => []FormTypeOK
<1>1. FormInit => FormIInv
  BY FormStart
<1>2. FormIInv /\ [FormNext]_upload => FormIInv'
  BY FormTypesStep, InStepStep, Zenon DEF FormIInv
<1>3. FormIInv => FormTypeOK
  BY DEF FormIInv
<1> QED
  BY <1>1, <1>2, <1>3, PTL DEF FormSpec

\* SaveUpload finds the data of the file where they begin, counts what stands
\* before them, and takes the fields and the name of the file as they were
\* sent, for any number of fields, lines and names.
THEOREM ReadsForm == FormSpec => []FormExact
<1>1. FormInit => FormIInv
  BY FormStart
<1>2. FormIInv /\ [FormNext]_upload => FormIInv'
  BY FormTypesStep, InStepStep, Zenon DEF FormIInv
<1>3. FormIInv => FormExact
  <2> SUFFICES ASSUME FormIInv PROVE FormExact
    OBVIOUS
  <2>1. (crlf => tot_bytes = sent_bytes) /\ ToSet(filename) \cap Separators = {}
    BY DEF FormIInv, Counted, NoDirectory
  <2>2. plain => InStep
    BY DEF FormIInv
  <2> QED
    BY <2>1, <2>2 DEF FormExact, InStep
<1> QED
  BY <1>1, <1>2, <1>3, PTL DEF FormSpec

=============================================================================
