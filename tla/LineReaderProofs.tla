-------------------------- MODULE LineReaderProofs --------------------------
(***************************************************************************)
(* Proofs about LineReader.  What a call has taken so far has no end of    *)
(* line in it, so that the first end of line in the buffer is the first    *)
(* one of the stream behind the place where the call began.                *)
(***************************************************************************)
EXTENDS LineReader, WellFoundedInduction, TLAPS

\* A call has not taken an end of line, and why it has not returned.
Busy ==
    pc # "idle" => \A i \in from + 1..taken : stream[i] # "lf"

\* The time that a call has spent.
Timing ==
    /\ waited <= clock
    /\ pc = "wait" => nonblocking /\ clock - waited < (1 + parts) * TimeOut
    /\ pc = "read" => (nonblocking => clock < TimeOut)

IInv ==
    /\ TypeOK /\ Busy /\ Timing
    /\ LineExact /\ FailsForCause /\ InTime

-----------------------------------------------------------------------------
(* Lines. *)

LEMMA FirstIs ==
    ASSUME NEW ends \in SUBSET Nat, ends # {}
    PROVE  First(ends) \in ends /\ \A j \in ends : First(ends) <= j
  <1>1. \E i \in ends : \A j \in ends : i <= j
    <2>1. PICK i \in ends : \A j \in ends : ~(<<j, i>> \in OpToRel(<, Nat))
      BY WFMin, NatLessThanWellFounded, Zenon
    <2>2. \A j \in ends : ~(j < i)
      BY <2>1 DEF OpToRel
    <2> QED  BY <2>2
  <1> QED  BY <1>1 DEF First

\* FindEOL looks for the first LF, and for a CR before it.
LEMMA EndOfLine ==
    ASSUME stream \in Seq(Bytes), from \in Nat,
           NEW n \in Nat, from + n <= Len(stream)
    PROVE  \/ /\ FindEOL(n).len = -1
              /\ \A i \in from + 1..from + n : stream[i] # "lf"
           \/ \E e \in 1..n :
                 /\ stream[from + e] = "lf"
                 /\ \A i \in from + 1..from + e - 1 : stream[i] # "lf"
                 /\ FindEOL(n).size = e
                 /\ FindEOL(n).len =
                      IF e > 1 /\ stream[from + e - 1] = "cr" THEN e - 2 ELSE e - 1
  <1> DEFINE ends == {i \in 1..n : Buf(n)[i] = "lf"}
             e == First(ends)
  <1>1. \A i \in 1..n : Buf(n)[i] = stream[from + i]
    BY DEF Buf
  <1>2. CASE ends = {}
    <2>1. FindEOL(n).len = -1
      BY <1>2 DEF FindEOL, NoLine
    <2>2. ASSUME NEW i \in from + 1..from + n PROVE stream[i] # "lf"
      <3>1. i - from \in 1..n /\ from + (i - from) = i
        OBVIOUS
      <3>2. Buf(n)[i - from] # "lf"
        BY <1>2, <3>1
      <3> QED  BY <1>1, <3>1, <3>2
    <2> QED  BY <2>1, <2>2
  <1>3. CASE ends # {}
    <2>1. e \in ends /\ \A j \in ends : e <= j
      <3>1. ends \in SUBSET Nat
        OBVIOUS
      <3> HIDE DEF ends
      <3> QED  BY <1>3, <3>1, FirstIs
    <2>2. FindEOL(n) = LineTo(e, e > 1 /\ Buf(n)[e - 1] = "cr")
      BY <1>3 DEF FindEOL
    <2> HIDE DEF e
    <2>3. e \in 1..n /\ stream[from + e] = "lf"
      BY <1>1, <2>1
    <2>4. ASSUME NEW i \in from + 1..from + e - 1 PROVE stream[i] # "lf"
      <3>1. i - from \in 1..n /\ from + (i - from) = i /\ i - from < e
        BY <2>3
      <3>2. i - from \notin ends
        BY <2>1, <2>3, <3>1
      <3>3. Buf(n)[i - from] # "lf"
        BY <3>1, <3>2
      <3> QED  BY <1>1, <3>1, <3>3
    <2>5. e > 1 => Buf(n)[e - 1] = stream[from + e - 1]
      BY <1>1, <2>3
    <2>6. /\ FindEOL(n).size = e
          /\ FindEOL(n).len =
               IF e > 1 /\ Buf(n)[e - 1] = "cr" THEN e - 2 ELSE e - 1
      BY <2>2 DEF LineTo
    <2> QED  BY <2>3, <2>4, <2>5, <2>6
  <1> QED  BY <1>2, <1>3

\* The first end of line of the stream behind a position.
LEMMA NextEnd ==
    ASSUME stream \in Seq(Bytes), NEW p \in Nat, NEW e \in Nat \ {0},
           p + e <= Len(stream), stream[p + e] = "lf",
           \A i \in p + 1..p + e - 1 : stream[i] # "lf"
    PROVE  EndsAfter(p) # {} /\ First(EndsAfter(p)) = p + e
  <1>1. p + e \in EndsAfter(p)
    BY DEF EndsAfter
  <1>2. EndsAfter(p) \in SUBSET Nat
    BY DEF EndsAfter
  <1>3. \A i \in EndsAfter(p) : p + e <= i
    BY DEF EndsAfter
  <1>4. First(EndsAfter(p)) \in EndsAfter(p) /\ First(EndsAfter(p)) <= p + e
    BY <1>1, <1>2, FirstIs
  <1>5. p + e <= First(EndsAfter(p)) /\ First(EndsAfter(p)) \in Nat
    BY <1>2, <1>3, <1>4
  <1> QED  BY <1>1, <1>4, <1>5

-----------------------------------------------------------------------------
(* The invariant. *)

LEMMA StreamSeq ==
    ASSUME NEW s \in Streams
    PROVE  s \in Seq(Bytes)
  BY LineReaderAssumption DEF Streams, SeqOf

LEMMA Initially == Init => IInv
  <1> SUFFICES ASSUME Init PROVE IInv
    OBVIOUS
  <1> USE LineReaderAssumption DEF Init
  <1>1. TypeOK
    <2>1. stream \in Seq(Bytes)
      BY StreamSeq
    <2>2. nonblocking \in BOOLEAN /\ closed \in BOOLEAN /\ result.ok \in BOOLEAN
      OBVIOUS
    <2>4. result.line \in Seq(Bytes)
      OBVIOUS
    <2>3. /\ arrived \in 0..Len(stream) /\ taken \in 0..arrived
          /\ from \in 0..taken /\ taken - from <= BufLen
          /\ waited \in 0..TimeOut /\ parts \in 0..MaxParts /\ clock \in Nat
      BY <2>1
    <2> QED  BY <2>2, <2>3, <2>4 DEF TypeOK
  <1>2. Busy /\ Timing /\ InTime
    BY DEF Busy, Timing, InTime
  <1>3. LineExact /\ FailsForCause
    BY DEF LineExact, FailsForCause
  <1> QED  BY <1>1, <1>2, <1>3 DEF IInv

\* A round of ReadLine that found n bytes more.
LEMMA PeekKeeps == IInv /\ Peek => IInv'
  <1> SUFFICES ASSUME IInv, Peek PROVE IInv'
    OBVIOUS
  <1> USE LineReaderAssumption
  <1>1. PICK n \in 1..BufLen - (taken - from) :
             Found(n) /\ Look(taken - from + n, clock < TimeOut)
    BY DEF Peek
  <1> DEFINE tot == taken - from + n
             eol == FindEOL(tot)
  <1>2. /\ stream \in Seq(Bytes) /\ stream \in Streams
        /\ arrived \in 0..Len(stream) /\ taken \in 0..arrived
        /\ from \in 0..taken /\ Len(stream) \in Nat
        /\ clock \in Nat /\ parts \in 0..MaxParts
        /\ nonblocking \in BOOLEAN /\ closed \in BOOLEAN
    BY StreamSeq DEF IInv, TypeOK
  <1>3. /\ pc \in {"read", "wait"} /\ n \in 1..arrived - taken
        /\ waited' = 0
        /\ UNCHANGED <<peer, from, parts, clock>>
    BY <1>1 DEF Found
  <1>4. /\ tot \in Nat /\ tot <= BufLen
        /\ from + tot = taken + n /\ from + tot <= arrived
        /\ from + tot <= Len(stream) /\ from \in Nat
    BY <1>2, <1>3
  <1>5. \A i \in from + 1..taken : stream[i] # "lf"
    BY <1>3 DEF IInv, Busy
  <1> HIDE DEF tot
  <1>6. CASE eol.len # -1
    <2>1. PICK e \in 1..tot :
             /\ stream[from + e] = "lf"
             /\ \A i \in from + 1..from + e - 1 : stream[i] # "lf"
             /\ eol.size = e
             /\ eol.len = IF e > 1 /\ stream[from + e - 1] = "cr" THEN e - 2 ELSE e - 1
      <3>1. \/ eol.len = -1
            \/ \E e \in 1..tot :
                 /\ stream[from + e] = "lf"
                 /\ \A i \in from + 1..from + e - 1 : stream[i] # "lf"
                 /\ eol.size = e
                 /\ eol.len = IF e > 1 /\ stream[from + e - 1] = "cr" THEN e - 2 ELSE e - 1
        BY <1>2, <1>4, EndOfLine
      <3> QED  BY <1>6, <3>1
    <2>2. /\ taken' = from + e /\ pc' = "idle"
          /\ result' = [ok |-> TRUE, line |-> Buf(eol.len)]
      BY <1>1, <1>6, <2>1 DEF Look, Return, tot
    <2>3. eol.len \in Nat /\ eol.len <= tot
      BY <1>4, <2>1
    <2>4. Buf(eol.len) = SubSeq(stream, from + 1, from + eol.len)
      BY DEF Buf
    <2>5. Buf(eol.len) \in Seq(Bytes)
      BY <1>2, <1>4, <2>3, <2>4
    <2>6. EndsAfter(from) # {} /\ First(EndsAfter(from)) = from + e
      <3>1. e \in Nat \ {0} /\ from + e <= Len(stream)
        BY <1>2, <1>4
      <3> QED  BY <1>2, <1>4, <2>1, <3>1, NextEnd
    <2>7. LineExact'
      <3> DEFINE E == First(EndsAfter(from))
      <3>1. /\ E = from + e /\ taken' = E
            /\ from + eol.len = IF E > from + 1 /\ stream[E - 1] = "cr"
                                  THEN E - 2 ELSE E - 1
        BY <1>2, <2>1, <2>2, <2>6
      <3>2. result'.line = IF E > from + 1 /\ stream[E - 1] = "cr"
                              THEN SubSeq(stream, from + 1, E - 2)
                              ELSE SubSeq(stream, from + 1, E - 1)
        BY <2>2, <2>4, <3>1
      <3>3. from' = from /\ stream' = stream /\ EndsAfter(from)' = EndsAfter(from)
        BY <1>3 DEF EndsAfter, peer
      <3>4. First(EndsAfter(from))' = E
        BY <3>3 DEF First
      <3> HIDE DEF E, eol
      <3> QED  BY <2>6, <3>1, <3>2, <3>3, <3>4, Zenon DEF LineExact
    <2>8. TypeOK'
      BY <1>2, <1>3, <1>4, <2>2, <2>5 DEF IInv, TypeOK, peer
    <2>9. Busy' /\ FailsForCause' /\ Timing'
      BY <1>2, <1>3, <2>2 DEF Busy, FailsForCause, Timing
    <2> QED  BY <1>3, <2>7, <2>8, <2>9 DEF IInv, InTime, peer
  <1>7. CASE eol.len = -1
    <2>1. \A i \in from + 1..from + tot : stream[i] # "lf"
      BY <1>2, <1>4, <1>7, EndOfLine
    <2>2. /\ taken' = from + tot
          /\ \/ clock < TimeOut /\ pc' = "read" /\ UNCHANGED result
             \/ /\ clock >= TimeOut /\ pc' = "idle"
                /\ result' = [ok |-> FALSE, line |-> Buf(tot)]
      BY <1>1, <1>2, <1>7 DEF Look, Return, tot
    <2>3. Buf(tot) \in Seq(Bytes)
      BY <1>2, <1>4 DEF Buf
    <2>4. TypeOK'
      <3>1. taken' \in 0..arrived /\ taken' - from <= BufLen /\ from \in 0..taken'
        BY <1>2, <1>4, <2>2
      <3>2. pc' \in {"idle", "read", "wait"}
        BY <2>2
      <3>3. result'.ok \in BOOLEAN /\ result'.line \in Seq(Bytes)
        <4>1. CASE result' = result
          BY <4>1 DEF IInv, TypeOK
        <4>2. CASE result' = [ok |-> FALSE, line |-> Buf(tot)]
          BY <2>3, <4>2
        <4> QED  BY <2>2, <4>1, <4>2
      <3>4. waited' \in 0..TimeOut /\ clock' \in Nat /\ parts' \in 0..MaxParts
        BY <1>2, <1>3
      <3>5. /\ nonblocking' \in BOOLEAN /\ closed' \in BOOLEAN
            /\ stream' \in Streams /\ stream' = stream /\ arrived' = arrived
            /\ from' = from
        BY <1>2, <1>3 DEF peer
      <3> QED  BY <1>2, <3>1, <3>2, <3>3, <3>4, <3>5 DEF TypeOK
    <2>5. Busy'
      BY <1>2, <1>3, <2>1, <2>2 DEF Busy, peer
    <2>6. Timing'
      BY <1>2, <1>3, <2>2 DEF Timing, peer
    <2>7. LineExact'
      BY <2>2 DEF LineExact
    <2>8. FailsForCause'
      BY <1>2, <1>3, <2>1, <2>2 DEF FailsForCause, peer
    <2> QED  BY <1>3, <2>4, <2>5, <2>6, <2>7, <2>8 DEF IInv, InTime, peer
  <1> QED  BY <1>6, <1>7

\* ReadLine gives up: what it took has no end of line.
LEMMA GivingUp ==
    ASSUME IInv, pc \in {"read", "wait"}, pc' = "idle",
           result' = [ok |-> FALSE, line |-> Buf(taken - from)],
           UNCHANGED <<peer, taken, from, waited, parts, clock>>,
           closed \/ taken - from = BufLen \/ clock >= TimeOut
    PROVE  IInv'
  <1> USE LineReaderAssumption DEF IInv, peer
  <1>1. /\ stream \in Seq(Bytes) /\ from \in Nat /\ taken \in Nat
        /\ from <= taken /\ taken <= Len(stream) /\ Len(stream) \in Nat
    BY StreamSeq DEF TypeOK
  <1>2. Buf(taken - from) \in Seq(Bytes)
    BY <1>1 DEF Buf
  <1>3. result'.ok \in BOOLEAN /\ result'.line \in Seq(Bytes)
    BY <1>2
  <1>4. TypeOK'
    BY <1>3 DEF TypeOK
  <1>5. Busy' /\ LineExact'
    BY DEF Busy, LineExact
  <1>6. Timing' /\ InTime'
    BY DEF Timing, InTime
  <1>7. FailsForCause'
    BY DEF FailsForCause, Busy
  <1> QED  BY <1>4, <1>5, <1>6, <1>7

LEMMA GivesUp == IInv /\ (BufferFull \/ PollTimeOut \/ EndOfStream) => IInv'
  <1>1. ASSUME IInv, BufferFull PROVE IInv'
    <2>1. taken - from = BufLen
      BY <1>1 DEF BufferFull
    <2> QED  BY <1>1, <2>1, GivingUp DEF BufferFull, Return
  <1>2. ASSUME IInv, PollTimeOut PROVE IInv'
    <2>1. clock >= TimeOut
      BY <1>2, LineReaderAssumption DEF PollTimeOut, IInv, Timing, TypeOK
    <2> QED  BY <1>2, <2>1, GivingUp DEF PollTimeOut, Return
  <1>3. ASSUME IInv, EndOfStream PROVE IInv'
    BY <1>3, GivingUp DEF EndOfStream, Return
  <1> QED  BY <1>1, <1>2, <1>3

LEMMA CallKeeps == IInv /\ Call => IInv'
  <1> SUFFICES ASSUME IInv, Call PROVE IInv'
    OBVIOUS
  <1> USE LineReaderAssumption DEF IInv, Call, peer
  <1>1. taken \in Nat
    BY StreamSeq DEF TypeOK
  <1>2. TypeOK'
    BY <1>1 DEF TypeOK
  <1>3. Busy' /\ LineExact' /\ FailsForCause'
    BY <1>1 DEF Busy, LineExact, FailsForCause
  <1>4. Timing' /\ InTime'
    BY DEF Timing, InTime
  <1> QED  BY <1>2, <1>3, <1>4

\* A second passes.  The wait of a ReadData begins in time.
LEMMA SecondKeeps == IInv /\ Second => IInv'
  <1> SUFFICES ASSUME IInv, Second PROVE IInv'
    OBVIOUS
  <1> USE LineReaderAssumption DEF IInv, Second, peer
  <1>1. TypeOK'
    BY DEF TypeOK
  <1>2. Busy' /\ LineExact' /\ FailsForCause'
    BY DEF Busy, LineExact, FailsForCause
  <1>3. clock \in Nat /\ waited \in Nat /\ parts \in Nat /\ TimeOut \in Nat
    BY DEF TypeOK
  <1>4. (2 + parts) * TimeOut = (1 + parts) * TimeOut + TimeOut
    BY <1>3
  <1>5. clock - waited < (1 + parts) * TimeOut /\ waited + 1 <= TimeOut
    BY <1>3 DEF Timing
  <1>6. (1 + parts) * TimeOut \in Nat
    BY <1>3
  <1>7. clock + 1 < (2 + parts) * TimeOut
    BY <1>3, <1>4, <1>5, <1>6
  <1>8. Timing' /\ InTime'
    BY <1>3, <1>5, <1>7 DEF Timing, InTime
  <1> QED  BY <1>1, <1>2, <1>8

\* Part of a record gives the client the whole time once more.
LEMMA PollAgainKeeps == IInv /\ PollAgain => IInv'
  <1> SUFFICES ASSUME IInv, PollAgain PROVE IInv'
    OBVIOUS
  <1> USE LineReaderAssumption DEF IInv, PollAgain, peer
  <1>1. TypeOK'
    BY DEF TypeOK
  <1>2. Busy' /\ LineExact' /\ FailsForCause'
    BY DEF Busy, LineExact, FailsForCause
  <1>3. /\ clock \in Nat /\ waited \in Nat /\ waited <= TimeOut
        /\ parts \in Nat /\ TimeOut \in Nat
    BY DEF TypeOK
  <1>4. /\ (2 + parts) * TimeOut = (1 + parts) * TimeOut + TimeOut
        /\ (2 + (parts + 1)) * TimeOut = (2 + parts) * TimeOut + TimeOut
        /\ 1 + (parts + 1) = 2 + parts
    BY <1>3
  <1>5. (1 + parts) * TimeOut \in Nat
    BY <1>3
  <1>6. clock < (2 + parts) * TimeOut
    BY <1>3, <1>4, <1>5 DEF Timing
  <1>7. Timing' /\ InTime'
    BY <1>3, <1>4, <1>5, <1>6 DEF Timing, InTime
  <1> QED  BY <1>1, <1>2, <1>7

LEMMA BlockKeeps == IInv /\ (Block \/ Blocked) => IInv'
  <1> SUFFICES ASSUME IInv, Block \/ Blocked PROVE IInv'
    OBVIOUS
  <1> USE LineReaderAssumption DEF IInv, Block, Blocked, peer
  <1>1. TypeOK'
    BY DEF TypeOK
  <1>2. Busy' /\ LineExact' /\ FailsForCause'
    BY DEF Busy, LineExact, FailsForCause
  <1>3. clock \in Nat /\ waited \in Nat /\ parts \in Nat /\ TimeOut \in Nat
    BY DEF TypeOK
  <1>4. (1 + parts) * TimeOut = parts * TimeOut + TimeOut /\ parts * TimeOut \in Nat
    BY <1>3
  <1>5. Timing' /\ InTime'
    BY <1>3, <1>4 DEF Timing, InTime
  <1> QED  BY <1>1, <1>2, <1>5

LEMMA PeerKeeps == IInv /\ (Arrive \/ PeerCloses) => IInv'
  <1> SUFFICES ASSUME IInv, Arrive \/ PeerCloses PROVE IInv'
    OBVIOUS
  <1> USE LineReaderAssumption DEF IInv, Arrive, PeerCloses, peer
  <1>1. Len(stream) \in Nat
    BY StreamSeq DEF TypeOK
  <1>2. TypeOK'
    <2>1. closed' \in BOOLEAN
      BY DEF TypeOK
    <2>2. arrived' \in 0..Len(stream) /\ taken \in 0..arrived'
      BY <1>1 DEF TypeOK
    <2> QED  BY <2>1, <2>2 DEF TypeOK
  <1>3. Busy' /\ FailsForCause'
    BY DEF Busy, FailsForCause
  <1>4. LineExact'
    BY DEF LineExact, EndsAfter, First
  <1>5. Timing' /\ InTime'
    BY DEF Timing, InTime
  <1> QED  BY <1>2, <1>3, <1>4, <1>5

LEMMA StutterKeeps == IInv /\ UNCHANGED vars => IInv'
  BY DEF IInv, TypeOK, Busy, Timing, LineExact, EndsAfter, First, FailsForCause,
         InTime, vars, peer

\* The invariant of ReadLine (base_sock.cpp) and the socket it reads.
THEOREM Invariance == Spec => []IInv
  <1>1. Init => IInv
    BY Initially
  <1>2. IInv /\ [Next]_vars => IInv'
    BY PeekKeeps, GivesUp, CallKeeps, SecondKeeps, PollAgainKeeps, BlockKeeps,
       PeerKeeps, StutterKeeps DEF Next, ReadLine
  <1> QED  BY <1>1, <1>2, PTL DEF Spec

\* The state keeps its type: the buffer of ReadLine is never overrun.
THEOREM TypeCorrect == Spec => []TypeOK
  <1>1. IInv => TypeOK
    BY DEF IInv
  <1> QED  BY <1>1, Invariance, PTL

\* For streams, buffers and times of every length: a line that ReadLine gives
\* is the next line of the stream, however its bytes arrived.
THEOREM Lines == Spec => []LineExact
  <1>1. IInv => LineExact
    BY DEF IInv
  <1> QED  BY <1>1, Invariance, PTL

\* ReadLine fails only when the client has closed, the buffer is full or time
\* is up.
THEOREM Failures == Spec => []FailsForCause
  <1>1. IInv => FailsForCause
    BY DEF IInv
  <1> QED  BY <1>1, Invariance, PTL

\* No client holds a call on a non-blocking socket longer than twice the
\* timeout, but for incomplete TLS records.
THEOREM Bounded == Spec => []InTime
  <1>1. IInv => InTime
    BY DEF IInv
  <1> QED  BY <1>1, Invariance, PTL
=============================================================================
