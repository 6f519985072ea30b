------------------------ MODULE ResponseWriterProofs ------------------------
(***************************************************************************)
(* Proofs about ResponseWriter.  The client's bytes stay in order because  *)
(* everything it has comes before the next byte that can go out: that of   *)
(* the record OpenSSL keeps, if there is one, or of WriteData's buffer.  A *)
(* record is that of the current piece, or belongs to a call that was given*)
(* up, and then a write has failed.                                        *)
(***************************************************************************)
EXTENDS ResponseWriter, SequenceTheorems, TLAPS

\* The parts of the response.
Layout ==
    /\ size = start + len + lines + to_read
    /\ pc # "done" => tot_bytes < len
    /\ pc = "done" => len = 0 /\ tot_bytes = 0 /\ lines = 0 /\ to_read = 0

\* A record is the rest of this piece, in the same buffer, or one of a call that
\* failed.
OwnRecord(rec) ==
    /\ rec.first = First + rec.before /\ rec.before + rec.count = Piece
    /\ rec.chunk = chunk /\ (chunk => rec.at = tot_bytes)
StaleRecord(rec) == failed /\ rec.first + rec.count <= start + 1

Kept ==
    pending # NoRecord =>
        /\ tls /\ pending.first > 0 /\ pending.count > 0
        /\ \/ pc # "done" /\ OwnRecord(pending)
           \/ StaleRecord(pending)

\* The place of the next byte that can go out.
Place == IF pending = NoRecord THEN First ELSE pending.first

Below(w, q) == \A k \in 1..Len(w) : w[k] < q

Sent ==
    /\ Below(wire, Place)
    /\ failed \/ Len(wire) = Place - 1

\* Time.  Without room, poll has taken this call's timeout, or that of a byte
\* that was read before, and not yet all of it.
Spent ==
    IF pc = "poll" /\ room = 0
       THEN clock + loops <= TimeOut * (calls + freed + 1)
       ELSE clock <= TimeOut * (calls + freed)

IInv == TypeOK /\ Layout /\ Kept /\ Sent /\ Spent

-----------------------------------------------------------------------------
(* Numbers and sequences. *)

LEMMA SmallerIs ==
    ASSUME NEW a \in Nat, NEW b \in Nat
    PROVE  Smaller(a, b) \in Nat /\ Smaller(a, b) <= a /\ Smaller(a, b) <= b
           /\ (Smaller(a, b) = a \/ Smaller(a, b) = b)
  BY DEF Smaller

LEMMA Later ==
    ASSUME NEW a \in Nat, NEW b \in Nat, a <= b
    PROVE  TimeOut * a <= TimeOut * b /\ TimeOut * (a + 1) = TimeOut * a + TimeOut
  <1>1. PICK d \in Nat : b = a + d
    <2>1. b - a \in Nat /\ b = a + (b - a)
      OBVIOUS
    <2> QED  BY <2>1
  <1>2. TimeOut * b = TimeOut * a + TimeOut * d /\ TimeOut * d >= 0
    BY <1>1, ResponseWriterAssumption
  <1> QED  BY <1>2, ResponseWriterAssumption

LEMMA Extended ==
    ASSUME NEW s \in Seq(Nat), NEW p \in Nat, NEW n \in Nat
    PROVE  /\ s \o Run(p, n) \in Seq(Nat) /\ Len(s \o Run(p, n)) = Len(s) + n
           /\ \A k \in 1..Len(s) : (s \o Run(p, n))[k] = s[k]
           /\ \A k \in Len(s) + 1..Len(s) + n : (s \o Run(p, n))[k] = p + (k - Len(s)) - 1
  <1>1. Run(p, n) \in Seq(Nat) /\ Len(Run(p, n)) = n
    <2>1. Run(p, n) \in [1..n -> Nat]
      BY DEF Run
    <2> QED  BY <2>1
  <1>2. \A k \in 1..n : Run(p, n)[k] = p + k - 1
    BY DEF Run
  <1>3. PICK r \in Seq(Nat) : r = Run(p, n)
    BY <1>1
  <1>4. /\ s \o r \in Seq(Nat) /\ Len(s \o r) = Len(s) + Len(r)
        /\ \A k \in 1..Len(s) + Len(r) :
              (s \o r)[k] = IF k <= Len(s) THEN s[k] ELSE r[k - Len(s)]
    BY ConcatProperties
  <1>5. Len(r) = n /\ \A k \in 1..n : r[k] = p + k - 1
    BY <1>1, <1>2, <1>3
  <1>6. ASSUME NEW k \in 1..Len(s) PROVE (s \o r)[k] = s[k]
    BY <1>4, <1>5
  <1>7. ASSUME NEW k \in Len(s) + 1..Len(s) + n PROVE (s \o r)[k] = p + (k - Len(s)) - 1
    <2>1. (s \o r)[k] = r[k - Len(s)] /\ k - Len(s) \in 1..n
      BY <1>4, <1>5
    <2> QED  BY <2>1, <1>5
  <1> QED  BY <1>3, <1>4, <1>5, <1>6, <1>7

\* The piece that is written has at least one byte and ends in the data.
LEMMA Pieces ==
    ASSUME TypeOK, Layout, pc # "done"
    PROVE  Piece \in Nat \ {0} /\ tot_bytes + Piece <= len /\ First + Piece <= start + len + 1
  BY SmallerIs, ResponseWriterAssumption DEF TypeOK, Layout, Piece, First, Smaller

-----------------------------------------------------------------------------
(* The steps that several actions share. *)

\* The types of what a call changes.
CallType ==
    /\ lines \in Nat /\ to_read \in Nat /\ start \in Nat /\ len \in Nat
    /\ chunk \in BOOLEAN /\ tot_bytes \in Nat /\ pc \in {"write", "poll", "done"}
    /\ loops \in 0..TimeOut /\ calls \in Nat

\* The next line or chunk, or the end.
LEMMA NextCallStep ==
    ASSUME TypeOK, Layout, pc # "done", NextCall, UNCHANGED kind
    PROVE  /\ CallType' /\ Layout'
           /\ start' = start + len /\ First' = start + len + 1
           /\ pc' # "poll" /\ calls' = calls + 1
  <1>1. /\ start' = start + len /\ tot_bytes' = 0 /\ loops' = 0 /\ calls' = calls + 1
        /\ size' = size /\ start' \in Nat /\ calls' \in Nat /\ 0 \in 0..TimeOut
    BY ResponseWriterAssumption DEF NextCall, TypeOK, kind
  <1>2. First' = start + len + 1
    BY <1>1 DEF First, TypeOK
  <1>3. CASE lines > 0 /\ lines' = lines - 1 /\ len' = 1 /\ pc' = "write"
             /\ UNCHANGED <<to_read, chunk>>
    <2>1. CallType'
      BY <1>1, <1>3 DEF CallType, TypeOK
    <2>2. Layout'
      BY <1>1, <1>3 DEF Layout, TypeOK
    <2> QED  BY <1>1, <1>2, <1>3, <2>1, <2>2
  <1>4. CASE /\ lines = 0 /\ to_read > 0 /\ UNCHANGED lines
             /\ len' = (IF file THEN Smaller(ChunkLen, to_read) ELSE to_read)
             /\ to_read' = to_read - len' /\ chunk' = file /\ pc' = "write"
    <2>1. len' \in Nat /\ 0 < len' /\ len' <= to_read
      BY <1>4, ResponseWriterAssumption DEF Smaller, TypeOK
    <2>2. CallType'
      BY <1>1, <1>4, <2>1 DEF CallType, TypeOK
    <2>3. Layout'
      BY <1>1, <1>4, <2>1 DEF Layout, TypeOK
    <2> QED  BY <1>1, <1>2, <1>4, <2>2, <2>3
  <1>5. CASE lines = 0 /\ to_read = 0 /\ pc' = "done" /\ len' = 0
             /\ UNCHANGED <<lines, to_read, chunk>>
    <2>1. CallType'
      BY <1>1, <1>5 DEF CallType, TypeOK
    <2>2. Layout'
      BY <1>1, <1>5 DEF Layout, TypeOK
    <2> QED  BY <1>1, <1>2, <1>5, <2>1, <2>2
  <1> QED  BY <1>3, <1>4, <1>5 DEF NextCall

\* n bytes of this call are written.
LEMMA WrittenStep ==
    ASSUME TypeOK, Layout, pc # "done", UNCHANGED kind,
           NEW n \in Nat, 0 < n, tot_bytes + n <= len, Written(n)
    PROVE  /\ CallType' /\ Layout'
           /\ First' = First + n /\ pc' # "poll" /\ calls' \in {calls, calls + 1}
  <1>1. CASE tot_bytes + n < len
    <2>1. /\ tot_bytes' = tot_bytes + n /\ pc' = "write" /\ loops' = 0
          /\ UNCHANGED <<call, calls>>
      BY <1>1 DEF Written
    <2>2. CallType' /\ Layout'
      BY <1>1, <2>1, ResponseWriterAssumption DEF CallType, Layout, TypeOK, call, kind
    <2> QED  BY <2>1, <2>2 DEF First, call, TypeOK
  <1>2. CASE tot_bytes + n = len
    BY <1>2, NextCallStep DEF Written, First, TypeOK
  <1> QED  BY <1>1, <1>2 DEF TypeOK

LEMMA PollStep ==
    ASSUME TypeOK, Layout, pc # "done", Poll, UNCHANGED kind
    PROVE  CallType' /\ Layout' /\ First' = First /\ pc' = "poll" /\ UNCHANGED <<call, calls>>
  BY ResponseWriterAssumption DEF Poll, CallType, Layout, First, TypeOK, call, kind

\* Time: a call that is over gains its timeout, and one that has found room has
\* not used that of the byte that was read.
LEMMA SpentOn ==
    ASSUME TypeOK, Spent, UNCHANGED <<clock, freed>>, pc' # "poll",
           \/ calls' = calls + 1
           \/ calls' = calls /\ ~(pc = "poll" /\ room = 0)
    PROVE  Spent'
  <1>1. /\ calls + freed \in Nat /\ clock \in Nat /\ loops \in Nat /\ TimeOut \in Nat
        /\ TimeOut * (calls + freed + 1) = TimeOut * (calls + freed) + TimeOut
    BY Later, ResponseWriterAssumption DEF TypeOK
  <1>2. CASE calls' = calls + 1
    <2>1. clock <= TimeOut * (calls + freed + 1)
      BY <1>1, ResponseWriterAssumption DEF Spent
    <2>2. calls' + freed' = calls + freed + 1
      BY <1>2 DEF TypeOK
    <2> QED  BY <2>1, <2>2 DEF Spent
  <1>3. CASE calls' = calls /\ ~(pc = "poll" /\ room = 0)
    BY <1>3 DEF Spent
  <1> QED  BY <1>2, <1>3

LEMMA SpentPolling ==
    ASSUME TypeOK, Spent, UNCHANGED <<clock, freed, calls>>, pc' = "poll",
           loops' = TimeOut, ~(pc = "poll" /\ room = 0)
    PROVE  Spent'
  <1>1. /\ calls + freed \in Nat /\ clock \in Nat /\ TimeOut \in Nat
        /\ TimeOut * (calls + freed + 1) = TimeOut * (calls + freed) + TimeOut
    BY Later, ResponseWriterAssumption DEF TypeOK
  <1>2. clock <= TimeOut * (calls + freed)
    BY DEF Spent
  <1>3. clock + TimeOut <= TimeOut * (calls + freed + 1)
    BY <1>1, <1>2, ResponseWriterAssumption
  <1> QED  BY <1>2, <1>3 DEF Spent

-----------------------------------------------------------------------------
(* What goes out. *)

\* n bytes of the response, from the place p on, behind all that went out: the
\* next ones, unless a write has failed.
Extends ==
    \E p, n \in 1..size :
        /\ wire' = wire \o Run(p, n)
        /\ p + n - 1 <= size
        /\ Below(wire, p)
        /\ failed \/ p = Len(wire) + 1

\* The bytes stay below q, the place of the next one.
LEMMA ExtendsStep ==
    ASSUME TypeOK, NEW p \in Nat \ {0}, NEW n \in Nat \ {0}, NEW q \in Nat,
           wire' = wire \o Run(p, n), p + n - 1 <= size, p + n <= q,
           Below(wire, p), failed \/ Len(wire) = p - 1, failed \/ p + n = q
    PROVE  /\ Extends /\ wire' \in Seq(Nat)
           /\ Below(wire', q)
           /\ failed \/ Len(wire') = q - 1
  <1>1. /\ wire' \in Seq(Nat) /\ Len(wire') = Len(wire) + n
        /\ \A k \in 1..Len(wire) : wire'[k] = wire[k]
        /\ \A k \in Len(wire) + 1..Len(wire) + n : wire'[k] = p + (k - Len(wire)) - 1
    <2>1. wire \in Seq(Nat) /\ p \in Nat /\ n \in Nat
      BY DEF TypeOK
    <2>2. /\ wire \o Run(p, n) \in Seq(Nat) /\ Len(wire \o Run(p, n)) = Len(wire) + n
          /\ \A k \in 1..Len(wire) : (wire \o Run(p, n))[k] = wire[k]
          /\ \A k \in Len(wire) + 1..Len(wire) + n :
                (wire \o Run(p, n))[k] = p + (k - Len(wire)) - 1
      BY <2>1, Extended
    <2> QED  BY <2>2, Zenon
  <1>2. Len(wire) \in Nat /\ size \in Nat
    BY DEF TypeOK
  <1>3. ASSUME NEW k \in 1..Len(wire') PROVE wire'[k] < q
    <2>1. CASE k \in 1..Len(wire)
      <3>1. wire'[k] = wire[k] /\ wire[k] < p /\ wire[k] \in Nat
        BY <1>1, <2>1 DEF TypeOK, Below
      <3> QED  BY <3>1
    <2>2. CASE k \in Len(wire) + 1..Len(wire) + n
      <3>1. wire'[k] = p + (k - Len(wire)) - 1
        BY <1>1, <2>2
      <3> QED  BY <3>1, <1>2, <2>2
    <2> QED  BY <1>1, <1>2, <2>1, <2>2
  <1>4. failed \/ Len(wire') = q - 1
    <2>1. SUFFICES ASSUME ~failed PROVE Len(wire') = q - 1
      OBVIOUS
    <2>2. Len(wire) = p - 1 /\ p + n = q /\ Len(wire') = Len(wire) + n
      BY <1>1, <2>1
    <2> QED  BY <2>2, <1>2
  <1>5. p \in 1..size /\ n \in 1..size
    BY <1>2
  <1>6. failed \/ p = Len(wire) + 1
    BY <1>2
  <1>7. Extends
    BY <1>5, <1>6 DEF Extends
  <1>8. Below(wire', q)
    BY <1>3 DEF Below
  <1> QED  BY <1>1, <1>4, <1>7, <1>8

\* Where a record ends: in this piece, or before it.
LEMMA RecordEnds ==
    ASSUME TypeOK, Layout, pc # "done", NEW rec \in Records,
           OwnRecord(rec) \/ StaleRecord(rec)
    PROVE  /\ rec.first + rec.count <= First + Piece
           /\ rec.first + rec.count <= start + len + 1 /\ rec.first + rec.count <= size + 1
           /\ \/ failed /\ rec.first + rec.count <= First
              \/ rec.first + rec.count = First + Piece /\ rec.before + rec.count = Piece
  <1>1. /\ rec.first \in Nat /\ rec.count \in Nat /\ rec.before \in Nat
    BY DEF Records
  <1>2. /\ size \in Nat /\ start \in Nat /\ len \in Nat /\ tot_bytes \in Nat
        /\ First = start + tot_bytes + 1 /\ start + len <= size
    BY DEF TypeOK, Layout, First
  <1>3. Piece \in Nat \ {0} /\ First + Piece <= start + len + 1
    BY Pieces
  <1>4. CASE OwnRecord(rec)
    <2>1. rec.first = First + rec.before /\ rec.before + rec.count = Piece
      BY <1>4 DEF OwnRecord
    <2> HIDE DEF First, Piece
    <2> QED  BY <1>1, <1>2, <1>3, <2>1
  <1>5. CASE StaleRecord(rec)
    <2>1. failed /\ rec.first + rec.count <= start + 1
      BY <1>5 DEF StaleRecord
    <2> QED  BY <1>1, <1>2, <1>3, <2>1
  <1> QED  BY <1>4, <1>5

\* Some of a record is taken; a record is made of the rest of a piece.
LEMMA RecordTaken ==
    ASSUME NEW rec \in Records, NEW n \in Nat, n < rec.left,
           pending' = [rec EXCEPT !.left = @ - n]
    PROVE  /\ pending' \in Records /\ pending'.first = rec.first
           /\ pending'.count = rec.count /\ pending'.before = rec.before
           /\ pending'.at = rec.at /\ pending'.chunk = rec.chunk
  <1>1. rec.left - n \in Nat
    BY DEF Records
  <1> QED  BY <1>1 DEF Records

LEMMA RecordRest ==
    ASSUME NEW rec \in Records, NEW p \in Nat, NEW n \in Nat, NEW d \in Nat,
           pending' = [rec EXCEPT !.first = p, !.count = n, !.left = n, !.before = d]
    PROVE  /\ pending' \in Records /\ pending'.first = p
           /\ pending'.count = n /\ pending'.before = d
           /\ pending'.at = rec.at /\ pending'.chunk = rec.chunk
  BY DEF Records

\* SSL_write works on a record, a new one or the one that is kept.
LEMMA FlushStep ==
    ASSUME TypeOK, Layout, Spent, pc # "done", tls, Ready, ~gone,
           NEW rec \in Records, rec.first > 0, rec.count > 0,
           OwnRecord(rec) \/ StaleRecord(rec),
           rec.before + rec.count <= Piece,
           chunk = rec.chunk, chunk => rec.at = tot_bytes,
           Below(wire, rec.first), failed \/ Len(wire) = rec.first - 1,
           Flush(rec), UNCHANGED <<kind, gone, failed, clock, freed>>
    PROVE  IInv' /\ (wire' = wire \/ Extends)
  <1> DEFINE done == rec.before + rec.count
  <1>1. /\ rec.first \in Nat /\ rec.count \in Nat /\ rec.left \in Nat /\ rec.before \in Nat
        /\ done \in Nat /\ room \in Nat /\ size \in Nat /\ start \in Nat /\ First \in Nat
        /\ Piece \in Nat \ {0} /\ First + Piece <= start + len + 1 /\ First >= start + 1
        /\ start + len <= size /\ tot_bytes + Piece <= len /\ Len(wire) \in Nat
        /\ len \in Nat
    <2>1. /\ rec.first \in Nat /\ rec.count \in Nat /\ rec.left \in Nat /\ rec.before \in Nat
          /\ rec.at \in Nat /\ rec.chunk \in BOOLEAN
      BY DEF Records
    <2>2. /\ room \in Nat /\ size \in Nat /\ start \in Nat /\ len \in Nat /\ tot_bytes \in Nat
          /\ Len(wire) \in Nat /\ start + len <= size
      BY DEF TypeOK, Layout
    <2>3. Piece \in Nat \ {0} /\ tot_bytes + Piece <= len /\ First + Piece <= start + len + 1
      BY Pieces
    <2> QED  BY <2>1, <2>2, <2>3 DEF First
  <1>2. /\ ~(pc = "poll" /\ room = 0) /\ UNCHANGED kind
        /\ gone' = gone /\ failed' = failed /\ clock' = clock /\ freed' = freed
    BY DEF Ready
  <1>3. CASE rec.left > room
    <2>1. /\ pending' = [rec EXCEPT !.left = @ - room]
          /\ room' = 0 /\ wire' = wire /\ (Poll \/ (failed /\ NextCall))
      BY <1>3 DEF Flush
    <2>2. /\ pending' \in Records /\ pending'.first = rec.first
          /\ pending'.count = rec.count /\ pending'.before = rec.before
          /\ pending'.at = rec.at /\ pending'.chunk = rec.chunk
      BY <2>1, <1>1, <1>3, RecordTaken
    <2>3. pending' # NoRecord /\ Place' = rec.first
      BY <2>2 DEF NoRecord, Place
    <2>4. Sent'
      BY <2>1, <2>3 DEF Sent
    <2>5. CASE Poll
      <3>1. CallType' /\ Layout' /\ First' = First /\ pc' = "poll" /\ UNCHANGED <<call, calls>>
        BY <2>5, <1>2, PollStep
      <3>2. TypeOK'
        <4>1. room' \in 0..Buffer
          BY <2>1, ResponseWriterAssumption
        <4> QED  BY <3>1, <4>1, <2>1, <2>2, <1>2 DEF TypeOK, CallType, kind
      <3>3. Piece' = Piece /\ start' = start /\ chunk' = chunk /\ tot_bytes' = tot_bytes
        BY <2>5 DEF Poll, Piece, call
      <3>4. Kept'
        BY <2>2, <3>1, <3>3, <1>2 DEF Kept, OwnRecord, StaleRecord, kind
      <3>5. Spent'
        BY <2>5, <3>1, <1>2, SpentPolling DEF Poll
      <3> QED  BY <2>1, <2>4, <3>1, <3>2, <3>4, <3>5 DEF IInv
    <2>6. CASE failed /\ NextCall
      <3>1. /\ CallType' /\ Layout' /\ start' = start + len
            /\ pc' # "poll" /\ calls' = calls + 1
        BY <2>6, <1>2, NextCallStep
      <3>2. TypeOK'
        <4>1. room' \in 0..Buffer
          BY <2>1, ResponseWriterAssumption
        <4> QED  BY <3>1, <4>1, <2>1, <2>2, <1>2 DEF TypeOK, CallType, kind
      <3>3. rec.first + rec.count <= start' + 1
        BY <3>1, <1>1, RecordEnds
      <3>4. Kept'
        BY <2>2, <2>6, <3>3, <1>2 DEF Kept, StaleRecord, kind
      <3>5. Spent'
        BY <3>1, SpentOn
      <3> QED  BY <2>1, <2>4, <3>1, <3>2, <3>4, <3>5 DEF IInv
    <2> QED  BY <2>1, <2>5, <2>6
  <1>4. CASE rec.left <= room
    <2>1. /\ wire' = wire \o Run(rec.first, rec.count) /\ room' = room - rec.left
          /\ IF done < Piece
                THEN /\ pending' = [rec EXCEPT !.first = First + done,
                           !.count = Piece - done, !.left = Piece - done, !.before = done]
                     /\ pc' = "write" /\ UNCHANGED <<call, tot_bytes, loops, calls>>
                ELSE pending' = NoRecord /\ Written(Piece)
      <3>1. ~(rec.left > room)
        BY <1>1, <1>4
      <3> QED  BY <3>1 DEF Flush
    <2>2. room' \in 0..Buffer
      <3>1. room \in 0..Buffer /\ Buffer \in Nat
        BY ResponseWriterAssumption DEF TypeOK
      <3>2. room' = room - rec.left /\ rec.left \in Nat
        BY <2>1, <1>1
      <3> QED  BY <3>1, <3>2, <1>4
    <2>3. rec.first + rec.count - 1 <= size
      BY <1>1, RecordEnds
    <2>4. CASE done < Piece
      <3>1. /\ pending' \in Records /\ pending'.first = First + done
            /\ pending'.count = Piece - done /\ pending'.before = done
            /\ pending'.at = rec.at /\ pending'.chunk = rec.chunk
        <4>1. First + done \in Nat /\ Piece - done \in Nat
          BY <2>4, <1>1
        <4>2. pending' = [rec EXCEPT !.first = First + done,
                  !.count = Piece - done, !.left = Piece - done, !.before = done]
          BY <2>1, <2>4
        <4> QED  BY <4>1, <4>2, <1>1, RecordRest
      <3>2. /\ pc' = "write" /\ UNCHANGED <<call, tot_bytes, loops, calls>>
            /\ start' = start /\ len' = len /\ chunk' = chunk /\ Piece' = Piece /\ First' = First
        BY <2>1, <2>4 DEF call, Piece, First
      <3>3. pending' # NoRecord /\ Place' = First + done
        BY <3>1, <2>4, <1>1 DEF NoRecord, Place
      <3>4. failed /\ rec.first + rec.count <= First + done
        BY <2>4, <1>1, RecordEnds
      <3>5. /\ Extends /\ wire' \in Seq(Nat)
            /\ Below(wire', First + done)
        <4>1. /\ rec.first \in Nat \ {0} /\ rec.count \in Nat \ {0} /\ First + done \in Nat
              /\ failed \/ rec.first + rec.count = First + done
          BY <1>1, <3>4
        <4>2. wire' = wire \o Run(rec.first, rec.count)
          BY <2>1
        <4> QED  BY ExtendsStep, <4>1, <4>2, <2>3, <3>4
      <3>6. Sent'
        BY <3>3, <3>4, <3>5 DEF Sent
      <3>7. TypeOK'
        BY <2>2, <3>1, <3>2, <3>5, <1>2 DEF TypeOK, kind, call
      <3>8. Layout'
        BY <3>2, <1>2 DEF Layout, kind, call
      <3>9. Kept'
        <4>1. /\ pending'.first > 0 /\ pending'.count > 0
              /\ pending'.before + pending'.count = Piece'
              /\ pending'.first = First' + pending'.before
          BY <3>1, <3>2, <2>4, <1>1
        <4>2. OwnRecord(pending)'
          BY <3>1, <3>2, <4>1, <2>1, <2>4 DEF OwnRecord
        <4> QED  BY <3>2, <4>1, <4>2, <1>2 DEF Kept, kind
      <3>10. Spent'
        BY <3>2, <1>2, SpentOn
      <3> QED  BY <3>5, <3>6, <3>7, <3>8, <3>9, <3>10 DEF IInv
    <2>5. CASE done = Piece
      <3>1. pending' = NoRecord /\ Written(Piece)
        BY <2>1, <2>5, <1>1
      <3>2. /\ CallType' /\ Layout' /\ First' = First + Piece
            /\ pc' # "poll" /\ calls' \in {calls, calls + 1}
        BY <3>1, <1>1, <1>2, WrittenStep
      <3>q. PICK q \in Nat : q = First + Piece
        BY <1>1
      <3>3. Place' = q
        BY <3>q, <3>1, <3>2 DEF Place
      <3>4. rec.first + rec.count <= q /\ (failed \/ rec.first + rec.count = q)
        BY <3>q, <2>5, <1>1, RecordEnds
      <3>5. /\ Extends /\ wire' \in Seq(Nat)
            /\ Below(wire', q)
            /\ failed \/ Len(wire') = q - 1
        <4>1. rec.first \in Nat \ {0} /\ rec.count \in Nat \ {0}
          BY <1>1
        <4>2. wire' = wire \o Run(rec.first, rec.count)
          BY <2>1
        <4> QED  BY ExtendsStep, <4>1, <4>2, <2>3, <3>4
      <3>6. Sent'
        BY <3>3, <3>5, <1>2 DEF Sent
      <3>7. TypeOK'
        BY <2>2, <3>1, <3>2, <3>5, <1>2 DEF TypeOK, CallType, kind, Records, NoRecord
      <3>8. Kept'
        BY <3>1 DEF Kept
      <3>9. Spent'
        BY <3>2, <1>2, SpentOn
      <3> QED  BY <3>2, <3>5, <3>6, <3>7, <3>8, <3>9 DEF IInv
    <2> QED  BY <2>4, <2>5, <1>1
  <1> QED  BY <1>3, <1>4, <1>1

\* ExchangeData fails, and the next call follows: the record that is kept is
\* that of a call which was given up.
LEMMA FailStep ==
    ASSUME TypeOK, Layout, Kept, Sent, pc # "done", Fail, clock' \in Nat,
           UNCHANGED <<kind, pending, wire, room, gone, freed>>
    PROVE  /\ TypeOK' /\ Layout' /\ Kept' /\ Sent' /\ wire' = wire
           /\ pc' # "poll" /\ calls' = calls + 1
  <1>1. /\ UNCHANGED kind /\ pending' = pending /\ wire' = wire /\ room' = room
        /\ gone' = gone /\ freed' = freed /\ failed' = TRUE /\ NextCall
    BY DEF Fail
  <1>2. /\ CallType' /\ Layout' /\ start' = start + len /\ First' = start + len + 1
        /\ pc' # "poll" /\ calls' = calls + 1
    BY <1>1, NextCallStep
  <1>3. TypeOK'
    BY <1>1, <1>2 DEF TypeOK, CallType, kind
  <1>4. CASE pending # NoRecord
    <2>1. PICK r \in Records : r = pending
      BY DEF TypeOK
    <2>2. OwnRecord(r) \/ StaleRecord(r)
      BY <1>4, <2>1 DEF Kept
    <2>3. pending.first + pending.count <= start' + 1
      BY <1>2, <2>1, <2>2, RecordEnds
    <2>4. Kept'
      BY <1>1, <1>4, <2>3 DEF Kept, StaleRecord, kind
    <2>5. Sent'
      BY <1>1, <1>4 DEF Sent, Place
    <2> QED  BY <1>1, <1>2, <1>3, <2>4, <2>5
  <1>5. CASE pending = NoRecord
    <2>1. Kept' /\ Place = First /\ Place' = start + len + 1
      BY <1>1, <1>2, <1>5 DEF Kept, Place
    <2>2. start \in Nat /\ len \in Nat /\ First \in Nat /\ First <= start + len + 1
      BY Pieces DEF TypeOK, First
    <2>3. Below(wire, start + len + 1)
      <3>1. ASSUME NEW k \in 1..Len(wire) PROVE wire[k] < start + len + 1
        <4>1. wire[k] \in Nat
          BY DEF TypeOK
        <4>2. wire[k] < First
          BY <2>1 DEF Sent, Below
        <4> QED  BY <4>1, <4>2, <2>2
      <3> QED  BY <3>1 DEF Below
    <2>4. Sent'
      BY <1>1, <2>1, <2>3 DEF Sent
    <2> QED  BY <1>1, <1>2, <1>3, <2>1, <2>4
  <1> QED  BY <1>4, <1>5

-----------------------------------------------------------------------------
(* The actions. *)

LEMMA SendStep ==
    ASSUME IInv, Send
    PROVE  IInv' /\ (wire' = wire \/ Extends)
  <1>1. /\ TypeOK /\ Layout /\ Kept /\ Sent /\ Spent /\ pc # "done" /\ Ready /\ ~gone /\ ~tls
        /\ ~(pc = "poll" /\ room = 0)
    BY DEF IInv, Send, Ready
  <1>2. /\ UNCHANGED kind /\ pending' = pending /\ gone' = gone /\ failed' = failed
        /\ clock' = clock /\ freed' = freed
    BY DEF Send
  <1>3. pending = NoRecord /\ Place = First
    BY <1>1 DEF Kept, Place
  <1>4. Kept'
    BY <1>2, <1>3 DEF Kept
  <1>5. Below(wire, First) /\ (failed \/ Len(wire) = First - 1)
    BY <1>1, <1>3 DEF Sent
  <1>6. /\ Piece \in Nat \ {0} /\ tot_bytes + Piece <= len /\ First + Piece <= start + len + 1
        /\ First \in Nat \ {0} /\ start + len <= size /\ size \in Nat /\ start \in Nat
        /\ len \in Nat /\ tot_bytes \in Nat /\ room \in 0..Buffer /\ Buffer \in Nat
    BY <1>1, Pieces, ResponseWriterAssumption DEF TypeOK, First, Layout
  <1>7. CASE \E n \in 1..Smaller(Piece, room) :
                /\ wire' = wire \o Run(First, n) /\ room' = room - n /\ Written(n)
    <2>1. PICK n \in 1..Smaller(Piece, room) :
                /\ wire' = wire \o Run(First, n) /\ room' = room - n /\ Written(n)
      BY <1>7
    <2>2. n \in Nat \ {0} /\ n <= Piece /\ n <= room
      <3>1. PICK m : m = Smaller(Piece, room)
        OBVIOUS
      <3>2. m \in Nat /\ m <= Piece /\ m <= room
        BY <3>1, <1>6, SmallerIs
      <3>3. n \in 1..m
        BY <2>1, <3>1
      <3> QED  BY <1>6, <3>2, <3>3
    <2>3. tot_bytes + n <= len /\ First + n - 1 <= size /\ room' \in 0..Buffer
      BY <1>6, <2>1, <2>2
    <2>4. /\ CallType' /\ Layout' /\ First' = First + n
          /\ pc' # "poll" /\ calls' \in {calls, calls + 1}
      BY <1>1, <1>2, <2>1, <2>2, <2>3, WrittenStep
    <2>5. PICK p \in Nat \ {0} : p = First
      BY <1>6
    <2>6. PICK q \in Nat : q = p + n
      BY <2>2
    <2>7. /\ Extends /\ wire' \in Seq(Nat) /\ Below(wire', q) /\ (failed \/ Len(wire') = q - 1)
      <3>1. /\ wire' = wire \o Run(p, n) /\ p + n - 1 <= size /\ p + n <= q /\ p + n = q
            /\ Below(wire, p) /\ (failed \/ Len(wire) = p - 1)
        BY <1>5, <2>1, <2>2, <2>3, <2>5, <2>6
      <3> QED  BY <1>1, <2>2, <3>1, ExtendsStep
    <2>8. Place' = q
      BY <1>2, <1>3, <2>4, <2>5, <2>6 DEF Place
    <2>9. Sent'
      BY <1>2, <2>7, <2>8 DEF Sent
    <2>10. TypeOK'
      BY <1>1, <1>2, <2>3, <2>4, <2>7 DEF TypeOK, CallType, kind
    <2>11. Spent'
      BY <1>1, <1>2, <2>4, SpentOn
    <2> QED  BY <1>4, <2>4, <2>7, <2>9, <2>10, <2>11 DEF IInv
  <1>8. CASE Poll /\ UNCHANGED <<wire, room>>
    <2>1. /\ CallType' /\ Layout' /\ First' = First /\ pc' = "poll" /\ UNCHANGED <<call, calls>>
      BY <1>1, <1>2, <1>8, PollStep
    <2>2. TypeOK'
      BY <1>1, <1>2, <1>8, <2>1 DEF TypeOK, CallType, kind
    <2>3. Sent'
      BY <1>1, <1>2, <1>3, <1>8, <2>1 DEF Sent, Place
    <2>4. Spent'
      BY <1>1, <1>2, <1>8, <2>1, SpentPolling DEF Poll
    <2> QED  BY <1>4, <1>8, <2>1, <2>2, <2>3, <2>4 DEF IInv
  <1> QED  BY <1>7, <1>8 DEF Send

LEMMA SslWriteStep ==
    ASSUME IInv, SslWrite
    PROVE  IInv' /\ (wire' = wire \/ Extends)
  <1>1. PICK r : r = [first |-> First, count |-> Piece, left |-> Piece, before |-> 0,
                      at |-> tot_bytes, chunk |-> chunk]
    OBVIOUS
  <1>2. /\ TypeOK /\ Layout /\ Sent /\ Spent /\ pc # "done" /\ Ready /\ ~gone /\ tls
        /\ pending = NoRecord /\ Flush(r) /\ UNCHANGED <<kind, gone, failed, clock, freed>>
    BY <1>1 DEF IInv, SslWrite, Ready
  <1>3. Piece \in Nat \ {0} /\ First \in Nat \ {0} /\ tot_bytes \in Nat /\ chunk \in BOOLEAN
    BY <1>2, Pieces DEF TypeOK, First
  <1>4. /\ r \in Records /\ r.first = First /\ r.count = Piece /\ r.before = 0
        /\ r.at = tot_bytes /\ r.chunk = chunk
    BY <1>1, <1>3 DEF Records
  <1>5. /\ r.first > 0 /\ r.count > 0 /\ r.before + r.count <= Piece /\ OwnRecord(r)
    BY <1>3, <1>4 DEF OwnRecord
  <1>6. Below(wire, r.first) /\ (failed \/ Len(wire) = r.first - 1)
    BY <1>2, <1>4 DEF Sent, Place
  <1> QED  BY <1>2, <1>4, <1>5, <1>6, FlushStep

LEMMA SslWriteAgainStep ==
    ASSUME IInv, SslWriteAgain
    PROVE  IInv' /\ (wire' = wire \/ Extends)
  <1>1. PICK r \in Records : r = pending
    BY DEF IInv, TypeOK
  <1>2. /\ TypeOK /\ Layout /\ Kept /\ Sent /\ Spent /\ pc # "done" /\ Ready /\ ~gone /\ tls
        /\ pending # NoRecord /\ Flush(r) /\ SameBuffer
        /\ UNCHANGED <<kind, gone, failed, clock, freed>>
    BY <1>1 DEF IInv, SslWriteAgain, Ready
  <1>3. /\ r.before + r.count <= Piece /\ chunk = r.chunk /\ (chunk => r.at = tot_bytes)
    BY <1>1, <1>2 DEF SameBuffer
  <1>4. r.first > 0 /\ r.count > 0 /\ (OwnRecord(r) \/ StaleRecord(r))
    BY <1>1, <1>2 DEF Kept
  <1>5. Below(wire, r.first) /\ (failed \/ Len(wire) = r.first - 1)
    BY <1>1, <1>2 DEF Sent, Place
  <1> QED  BY <1>2, <1>3, <1>4, <1>5, FlushStep

LEMMA FailSteps ==
    ASSUME IInv, SslWriteRefused \/ WriteFails \/ PollTimesOut
    PROVE  IInv' /\ wire' = wire
  <1>1. /\ TypeOK /\ Layout /\ Kept /\ Sent /\ Spent /\ pc # "done" /\ Fail
        /\ UNCHANGED <<kind, pending, wire, room, gone, freed>>
    BY DEF IInv, SslWriteRefused, WriteFails, PollTimesOut, Ready
  <1>2. clock' \in Nat
    BY DEF IInv, TypeOK, SslWriteRefused, WriteFails, PollTimesOut
  <1>3. /\ TypeOK' /\ Layout' /\ Kept' /\ Sent' /\ wire' = wire
        /\ pc' # "poll" /\ calls' = calls + 1
    BY <1>1, <1>2, FailStep
  <1>4. CASE SslWriteRefused \/ WriteFails
    <2>1. Spent'
      BY <1>1, <1>3, <1>4, SpentOn DEF SslWriteRefused, WriteFails
    <2> QED  BY <1>3, <2>1 DEF IInv
  <1>5. CASE PollTimesOut
    <2>1. /\ pc = "poll" /\ room = 0 /\ loops = 1 /\ clock' = clock + 1 /\ freed' = freed
      BY <1>5 DEF PollTimesOut
    <2>2. clock + 1 <= TimeOut * (calls + freed + 1)
      BY <1>1, <2>1 DEF Spent
    <2>3. calls' + freed' = calls + freed + 1
      BY <1>1, <1>3, <2>1 DEF TypeOK
    <2>4. Spent'
      BY <1>3, <2>1, <2>2, <2>3 DEF Spent
    <2> QED  BY <1>3, <2>4 DEF IInv
  <1> QED  BY <1>4, <1>5

\* What neither the response nor the bytes on their way depend on.
LEMMA QuietStep ==
    ASSUME Layout, Kept, Sent, UNCHANGED <<kind, call, tot_bytes, pc, pending, wire, failed>>
    PROVE  Layout' /\ Kept' /\ Sent'
  <1>1. /\ UNCHANGED <<lines, to_read, start, len, chunk, tls, size>>
        /\ First' = First /\ Piece' = Piece
    BY DEF First, Piece, call, kind
  <1>2. Layout'
    BY <1>1 DEF Layout
  <1>3. Kept'
    BY <1>1 DEF Kept, OwnRecord, StaleRecord
  <1>4. Sent'
    BY <1>1 DEF Sent, Place
  <1> QED  BY <1>2, <1>3, <1>4

LEMMA SecondStep ==
    ASSUME IInv, Second
    PROVE  IInv' /\ wire' = wire
  <1>1. /\ Layout' /\ Kept' /\ Sent' /\ wire' = wire
    BY QuietStep DEF IInv, Second
  <1>2. TypeOK'
    <2>1. loops' \in 0..TimeOut /\ clock' \in Nat
      BY ResponseWriterAssumption DEF IInv, Second, TypeOK
    <2> QED  BY <2>1 DEF IInv, Second, TypeOK, kind, call
  <1>3. Spent'
    <2>1. clock + loops <= TimeOut * (calls + freed + 1) /\ clock' + loops' = clock + loops
      BY DEF IInv, Second, Spent, TypeOK
    <2> QED  BY <2>1 DEF Second, Spent
  <1> QED  BY <1>1, <1>2, <1>3 DEF IInv

LEMMA ClientReadsStep ==
    ASSUME IInv, ClientReads
    PROVE  IInv' /\ wire' = wire
  <1>1. /\ Layout' /\ Kept' /\ Sent' /\ wire' = wire
    BY QuietStep DEF IInv, ClientReads
  <1>3. /\ room \in 0..Buffer /\ Buffer \in Nat /\ freed \in Nat /\ calls \in Nat
        /\ clock \in Nat /\ loops \in Nat
    BY ResponseWriterAssumption DEF IInv, TypeOK
  <1>2. PICK f \in Nat : freed' = f /\ freed + 1 <= f /\ room' \in 0..Buffer /\ room' > 0
    <2>1. PICK n \in 1..Buffer - room : room' = room + n /\ freed' = freed + n
      BY DEF ClientReads
    <2>2. n \in Nat /\ n > 0 /\ freed + n \in Nat /\ freed + 1 <= freed + n
      BY <1>3, <2>1
    <2>3. room' \in 0..Buffer /\ room' > 0
      BY <1>3, <2>1
    <2> QED  BY <2>1, <2>2, <2>3
  <1>4. room' > 0 /\ freed' \in Nat /\ room' \in 0..Buffer
    BY <1>2
  <1>5. TypeOK'
    BY <1>4 DEF IInv, ClientReads, TypeOK, kind, call
  <1>6. Spent'
    <2>1. calls' = calls /\ clock' = clock
      BY DEF ClientReads
    <2>2. PICK m \in Nat, n1 \in Nat : m = calls + freed /\ n1 = calls + f
      BY <1>3
    <2>3. m + 1 \in Nat /\ m + 1 <= n1 /\ m <= m
      BY <1>2, <1>3, <2>2
    <2>4. TimeOut * (m + 1) = TimeOut * m + TimeOut /\ TimeOut * (m + 1) <= TimeOut * n1
      BY <2>3, Later
    <2>5. PICK x \in Nat, y \in Nat, z \in Nat :
              x = TimeOut * m /\ y = TimeOut * (m + 1) /\ z = TimeOut * n1
      BY <2>3, ResponseWriterAssumption
    <2>6. clock <= y
      <3>1. calls + freed + 1 = m + 1 /\ TimeOut \in Nat
        BY <1>3, <2>2, ResponseWriterAssumption
      <3>2. clock + loops <= y \/ clock <= x
        BY <2>2, <2>5, <3>1 DEF IInv, Spent
      <3> QED  BY <1>3, <2>4, <2>5, <3>1, <3>2
    <2>7. clock' <= TimeOut * (calls' + freed')
      BY <1>2, <1>3, <2>1, <2>2, <2>4, <2>5, <2>6
    <2> QED  BY <1>4, <2>7 DEF Spent
  <1> QED  BY <1>1, <1>5, <1>6 DEF IInv

LEMMA ClientLeavesStep ==
    ASSUME IInv, ClientLeaves
    PROVE  IInv' /\ wire' = wire
  <1>1. /\ Layout' /\ Kept' /\ Sent' /\ wire' = wire
    BY QuietStep DEF IInv, ClientLeaves
  <1>2. TypeOK' /\ Spent'
    BY DEF IInv, ClientLeaves, TypeOK, Spent, kind, call
  <1> QED  BY <1>1, <1>2 DEF IInv

LEMMA StutterStep ==
    ASSUME IInv, UNCHANGED vars
    PROVE  IInv' /\ wire' = wire
  <1>1. /\ Layout' /\ Kept' /\ Sent' /\ wire' = wire
    BY QuietStep DEF IInv, vars
  <1>2. TypeOK' /\ Spent'
    BY DEF IInv, vars, TypeOK, Spent, kind, call
  <1> QED  BY <1>1, <1>2 DEF IInv

LEMMA Initially ==
    ASSUME Init
    PROVE  IInv
  <1>1. TypeOK /\ wire = <<>> /\ pending = NoRecord /\ First = 1
    <2>1. lines \in Nat /\ to_read \in Nat /\ size \in Nat /\ Buffer \in Nat /\ TimeOut \in Nat
      BY ResponseWriterAssumption DEF Init
    <2>2. NoRecord \in Records
      BY DEF Records, NoRecord
    <2>3. wire = <<>> /\ wire \in Seq(Nat) /\ start = 0 /\ tot_bytes = 0 /\ pending = NoRecord
      BY DEF Init
    <2>4. TypeOK
      <3>1. tls \in BOOLEAN /\ nonblocking \in BOOLEAN /\ file \in BOOLEAN
        BY DEF Init
      <3>2. /\ len = 1 /\ chunk = FALSE /\ pc = "write" /\ loops = 0 /\ room = Buffer
            /\ gone = FALSE /\ failed = FALSE /\ clock = 0 /\ calls = 0 /\ freed = 0
        BY DEF Init
      <3>3. room \in 0..Buffer /\ loops \in 0..TimeOut /\ pc \in {"write", "poll", "done"}
        BY <2>1, <3>2
      <3>4. pending \in Records
        BY <2>2, <2>3
      <3> HIDE DEF Records, NoRecord
      <3> QED  BY <2>1, <2>3, <3>1, <3>2, <3>3, <3>4 DEF TypeOK
    <2> QED  BY <2>3, <2>4 DEF First
  <1>2. Layout
    BY DEF Init, Layout
  <1>3. Kept /\ Sent
    BY <1>1 DEF Kept, Sent, Place, Below
  <1>4. Spent
    BY ResponseWriterAssumption DEF Init, Spent
  <1> QED  BY <1>1, <1>2, <1>3, <1>4 DEF IInv

\* Every step keeps the invariant, and sends bytes in order or none.
LEMMA Inductive ==
    ASSUME IInv, [Next]_vars
    PROVE  IInv' /\ (wire' = wire \/ Extends)
  BY SendStep, SslWriteStep, SslWriteAgainStep, FailSteps, SecondStep, ClientReadsStep,
     ClientLeavesStep, StutterStep DEF Next, WriteData

-----------------------------------------------------------------------------
(* Theorems. *)

\* In every state the parts of the response add up, the record OpenSSL keeps is
\* the current piece's or that of a call that failed, what the client has lies
\* before everything that can still go out, and the time of poll is accounted
\* for.
THEOREM Invariance == Spec => []IInv
  <1>1. IInv /\ [Next]_vars => IInv'
    BY Inductive
  <1> QED  BY <1>1, Initially, PTL DEF Spec

\* The counters of WriteData and ExchangeData, the record and the room in the
\* buffer keep their types, for every length of the response, its chunks and its
\* pieces.
THEOREM TypeCorrect == Spec => []TypeOK
  <1>1. IInv => TypeOK
    BY DEF IInv
  <1> QED  BY <1>1, Invariance, PTL

\* A client that reads nothing holds a worker for one timeout per line and per
\* chunk, and no longer: WriteData polls for the whole time in each call, since
\* its callers do not look at what it returns.
THEOREM Bounded == Spec => []InTime
  <1>1. IInv => InTime
    <2>1. SUFFICES ASSUME IInv PROVE InTime
      OBVIOUS
    <2>2. /\ calls + freed \in Nat /\ clock \in Nat /\ loops \in Nat
      BY <2>1 DEF IInv, TypeOK
    <2>3. TimeOut * (calls + freed + 1) = TimeOut * (calls + freed) + TimeOut
      BY <2>2, Later
    <2>4. PICK x \in Nat, y \in Nat :
              x = TimeOut * (calls + freed) /\ y = TimeOut * (calls + freed + 1)
      BY <2>2, ResponseWriterAssumption
    <2>5. clock + loops <= y \/ clock <= x
      BY <2>1, <2>4 DEF IInv, Spent
    <2>6. clock <= y
      BY <2>2, <2>3, <2>4, <2>5, ResponseWriterAssumption
    <2> QED  BY <2>4, <2>6 DEF InTime
  <1> QED  BY <1>1, Invariance, PTL

\* At the end all of the response has gone out, or a write has failed.
LEMMA AtTheEnd ==
    ASSUME IInv', pc' = "done"
    PROVE  (Len(wire) = size \/ failed)'
  <1>1. TypeOK' /\ Layout' /\ Kept' /\ Sent'
    BY DEF IInv
  <1>2. size' = start' /\ First' = start' + 1
    <2>1. PICK a \in Nat, b \in Nat : start' = a /\ size' = b
      BY <1>1 DEF TypeOK
    <2>2. len' = 0 /\ lines' = 0 /\ to_read' = 0 /\ tot_bytes' = 0
      BY <1>1 DEF Layout
    <2> QED  BY <1>1, <2>1, <2>2 DEF Layout, First
  <1>3. PICK a \in Nat : size' = a
    BY <1>1 DEF TypeOK
  <1>4. CASE pending' = NoRecord
    <2>1. Place' = a + 1
      BY <1>2, <1>3, <1>4 DEF Place
    <2>2. failed' \/ Len(wire') = a
      BY <1>1, <1>3, <2>1 DEF Sent
    <2> QED  BY <1>3, <2>2
  <1>5. CASE pending' # NoRecord
    BY <1>1, <1>5 DEF Kept, StaleRecord
  <1> QED  BY <1>4, <1>5

\* A step is taken only while the response is written.
LEMMA Steps ==
    ASSUME IInv, Next
    PROVE  /\ pc # "done" /\ size' = size /\ (failed' = failed \/ failed' = TRUE)
  BY DEF Next, WriteData, Send, SslWrite, SslWriteAgain, SslWriteRefused, WriteFails,
         Second, PollTimesOut, ClientReads, ClientLeaves, Ready, Fail, kind

LEMMA StreamStep ==
    ASSUME IInv, [Next]_vars
    PROVE  [Stream!BNext]_<<size, wire, failed, pc = "done">>
  <1>1. IInv' /\ (wire' = wire \/ Extends)
    BY Inductive
  <1>2. CASE UNCHANGED vars
    BY <1>2 DEF vars, kind
  <1>3. CASE Next
    <2>1. pc # "done" /\ size' = size /\ (failed' = failed \/ failed' = TRUE)
      BY <1>3, Steps
    <2>2. failed \in BOOLEAN /\ failed' \in BOOLEAN
      BY <1>1 DEF IInv, TypeOK
    <2>3. (pc = "done")' => Stream!Finish
      <3>1. SUFFICES ASSUME pc' = "done" PROVE Stream!Finish
        OBVIOUS
      <3>2. (Len(wire) = size \/ failed)'
        BY <1>1, <3>1, AtTheEnd
      <3> QED  BY <2>1, <3>1, <3>2 DEF Stream!Finish
    <2>4. (wire' = wire /\ failed' = failed) \/ Stream!Break \/ Stream!Deliver
      <3>1. CASE wire' = wire
        BY <2>1, <3>1 DEF Stream!Break
      <3>2. CASE Extends
        <4>1. PICK p \in 1..size, n \in 1..size :
                  /\ wire' = wire \o Run(p, n) /\ p + n - 1 <= size
                  /\ Below(wire, p) /\ (failed \/ p = Len(wire) + 1)
          BY <3>2 DEF Extends
        <4>2. Run(p, n) = Stream!Run(p, n)
          BY DEF Run, Stream!Run
        <4>3. p = Len(wire) + 1 \/ failed'
          BY <2>1, <4>1
        <4>4. \A k \in 1..Len(wire) : wire[k] < p
          BY <4>1 DEF Below
        <4> QED  BY <2>1, <4>1, <4>2, <4>3, <4>4 DEF Stream!Deliver
      <3> QED  BY <1>1, <3>1, <3>2
    <2>5. CASE (pc = "done")'
      BY <2>1, <2>3, <2>4, <2>5 DEF Stream!BNext
    <2>6. CASE ~(pc = "done")'
      BY <2>1, <2>4, <2>6 DEF Stream!BNext
    <2> QED  BY <2>5, <2>6
  <1> QED  BY <1>2, <1>3

\* The writer is a stream: whatever is cut, kept and tried again on the way, the
\* client gets the bytes of the response in order, none twice, without a gap
\* until a write has failed, and all of them if none has.
THEOREM Refinement == Spec => ImplementsByteStream
  <1>1. Init => Stream!BInit
    <2>1. SUFFICES ASSUME Init PROVE Stream!BInit
      OBVIOUS
    <2>2. size \in Nat
      BY <2>1, Initially DEF IInv, TypeOK
    <2> QED  BY <2>1, <2>2 DEF Init, Stream!BInit
  <1>2. IInv /\ [Next]_vars => [Stream!BNext]_<<size, wire, failed, pc = "done">>
    BY StreamStep
  <1> QED  BY <1>1, <1>2, Invariance, PTL DEF Spec, ImplementsByteStream, Stream!BSpec

-----------------------------------------------------------------------------
(* How long a response can take: the calls, and the bytes that the client    *)
(* makes room for, are no more than the bytes of the response.               *)

\* What the socket has taken, whether it is still in the send buffer (with room
\* for r bytes more) or was read (f), is what the client has (w) and what is
\* out of a record of c bytes, of which x are left.
Balanced(r, f, w, c, x) == Buffer + f + x = w + c + r

\* Every call writes a byte at least, and the bytes the client has are different
\* ones of the response.
Counted ==
    /\ calls <= start
    /\ \A k \in 1..Len(wire) : wire[k] >= k
    /\ Balanced(room, freed, Len(wire), pending.count, pending.left)

\* A worker is held at most for one timeout per byte and call.
HeldAtMost == clock <= TimeOut * (2 * size + 1)

\* A step leaves the call alone or ends it, when it had a byte to write.
LEMMA CallsStep ==
    ASSUME IInv, calls <= start, [Next]_vars
    PROVE  calls' <= start'
  <1>1. calls \in Nat /\ start \in Nat /\ len \in Nat /\ (pc # "done" => len >= 1)
    BY DEF IInv, TypeOK, Layout
  <1>2. Poll => UNCHANGED <<calls, start>>
    BY DEF Poll, call
  <1>3. NextCall => calls' = calls + 1 /\ start' = start + len
    BY DEF NextCall
  <1>4. ASSUME NEW n, Written(n)
        PROVE  UNCHANGED <<calls, start>> \/ (calls' = calls + 1 /\ start' = start + len)
    BY <1>3, <1>4 DEF Written, call
  <1>5. ASSUME NEW rec, Flush(rec)
        PROVE  UNCHANGED <<calls, start>> \/ (calls' = calls + 1 /\ start' = start + len)
    BY <1>2, <1>3, <1>4, <1>5, Zenon DEF Flush, call
  <1>6. CASE UNCHANGED vars
    BY <1>6 DEF vars, call
  <1>7. CASE Next
    <2>1. pc # "done"
      BY <1>7, Steps
    <2>2. UNCHANGED <<calls, start>> \/ (calls' = calls + 1 /\ start' = start + len)
      <3>1. CASE Send
        BY <3>1, <1>2, <1>4, Zenon DEF Send
      <3>2. CASE SslWrite
        BY <3>2, <1>5, Zenon DEF SslWrite
      <3>3. CASE SslWriteAgain
        BY <3>3, <1>5, Zenon DEF SslWriteAgain
      <3>4. CASE SslWriteRefused \/ WriteFails \/ PollTimesOut
        BY <3>4, <1>3, Zenon DEF SslWriteRefused, WriteFails, PollTimesOut, Fail
      <3>5. CASE Second \/ ClientReads \/ ClientLeaves
        BY <3>5 DEF Second, ClientReads, ClientLeaves, call
      <3> QED  BY <1>7, <3>1, <3>2, <3>3, <3>4, <3>5 DEF Next, WriteData
    <2> QED  BY <1>1, <2>1, <2>2
  <1> QED  BY <1>6, <1>7

\* What goes out comes behind what the client has.
LEMMA AscendsStep ==
    ASSUME IInv, \A k \in 1..Len(wire) : wire[k] >= k, [Next]_vars
    PROVE  \A k \in 1..Len(wire') : wire'[k] >= k
  <1>1. wire' = wire \/ Extends
    BY Inductive
  <1>2. ASSUME Extends PROVE \A k \in 1..Len(wire') : wire'[k] >= k
    <2>1. PICK p \in 1..size, n \in 1..size :
              wire' = wire \o Run(p, n) /\ p + n - 1 <= size /\ Below(wire, p)
      BY <1>2 DEF Extends
    <2>2. p \in Nat /\ n \in Nat /\ wire \in Seq(Nat) /\ Len(wire) \in Nat
      BY DEF IInv, TypeOK
    <2>3. /\ Len(wire') = Len(wire) + n
          /\ \A k \in 1..Len(wire) : wire'[k] = wire[k]
          /\ \A k \in Len(wire) + 1..Len(wire) + n : wire'[k] = p + (k - Len(wire)) - 1
      <3>1. /\ Len(wire \o Run(p, n)) = Len(wire) + n
            /\ \A k \in 1..Len(wire) : (wire \o Run(p, n))[k] = wire[k]
            /\ \A k \in Len(wire) + 1..Len(wire) + n :
                  (wire \o Run(p, n))[k] = p + (k - Len(wire)) - 1
        BY <2>2, Extended
      <3> QED  BY <2>1, <3>1, Zenon
    <2>4. Len(wire) < p
      <3>1. CASE Len(wire) = 0
        BY <2>2, <3>1
      <3>2. CASE Len(wire) # 0
        <4>1. Len(wire) \in 1..Len(wire) /\ wire[Len(wire)] \in Nat
          BY <2>2, <3>2
        <4>2. wire[Len(wire)] >= Len(wire) /\ wire[Len(wire)] < p
          BY <2>1, <4>1 DEF Below
        <4> QED  BY <2>2, <4>1, <4>2
      <3> QED  BY <3>1, <3>2
    <2>5. ASSUME NEW k \in 1..Len(wire') PROVE wire'[k] >= k
      <3>1. CASE k \in 1..Len(wire)
        BY <2>3, <3>1
      <3>2. CASE k \in Len(wire) + 1..Len(wire) + n
        <4>1. wire'[k] = p + (k - Len(wire)) - 1
          BY <2>3, <3>2
        <4> QED  BY <2>2, <2>4, <3>2, <4>1
      <3> QED  BY <2>2, <2>3, <2>5, <3>1, <3>2
    <2> QED  BY <2>5
  <1> QED  BY <1>1, <1>2

LEMMA Balance ==
    ASSUME NEW r \in Nat, NEW f \in Nat, NEW w \in Nat, NEW c \in Nat, NEW x \in Nat,
           Balanced(r, f, w, c, x)
    PROVE  /\ Balanced(0, f, w, c, x - r)
           /\ \A m \in Nat : Balanced(r - x, f, w + c, m, m)
           /\ \A n \in Nat : Balanced(r - n, f, w + n, c, x) /\ Balanced(r + n, f + n, w, c, x)
           /\ c = x => \A m \in Nat : Balanced(r, f, w, m, m)
  BY ResponseWriterAssumption DEF Balanced

\* The bytes that the socket has taken of a record.
LEMMA FlushTakes ==
    ASSUME TypeOK, Layout, pc # "done", NEW rec \in Records, rec.first > 0,
           Flush(rec), UNCHANGED freed,
           OwnRecord(rec) \/ StaleRecord(rec),
           Balanced(room, freed, Len(wire), rec.count, rec.left)
    PROVE  Balanced(room', freed', Len(wire'), pending'.count, pending'.left)
  <1>1. /\ rec.first \in Nat /\ rec.count \in Nat /\ rec.left \in Nat /\ rec.before \in Nat
        /\ room \in Nat /\ freed \in Nat /\ Buffer \in Nat /\ Len(wire) \in Nat
        /\ wire \in Seq(Nat)
    BY ResponseWriterAssumption DEF Records, TypeOK
  <1>2. CASE rec.left > room
    <2>1. pending' = [rec EXCEPT !.left = @ - room] /\ room' = 0 /\ wire' = wire
      BY <1>2 DEF Flush
    <2>2. pending'.left = rec.left - room /\ pending'.count = rec.count
      BY <2>1 DEF Records
    <2>3. room' = 0 /\ wire' = wire /\ freed' = freed
      BY <2>1
    <2>4. Balanced(0, freed, Len(wire), rec.count, rec.left - room)
      BY <1>1, Balance
    <2> QED  BY <2>2, <2>3, <2>4, Zenon
  <1>3. CASE ~(rec.left > room)
    <2>1. wire' = wire \o Run(rec.first, rec.count) /\ room' = room - rec.left
      BY <1>3 DEF Flush
    <2>2. Len(wire') = Len(wire) + rec.count
      <3>1. Len(wire \o Run(rec.first, rec.count)) = Len(wire) + rec.count
        BY <1>1, Extended
      <3> QED  BY <2>1, <3>1, Zenon
    <2>3. pending'.count = pending'.left /\ pending'.count \in Nat
      <3>1. CASE rec.before + rec.count < Piece
        <4>1. pending' = [rec EXCEPT !.first = First + (rec.before + rec.count),
                 !.count = Piece - (rec.before + rec.count),
                 !.left = Piece - (rec.before + rec.count),
                 !.before = rec.before + rec.count]
          BY <1>3, <3>1 DEF Flush
        <4>2. pending'.count = Piece - (rec.before + rec.count) /\ pending'.left = pending'.count
          BY <4>1 DEF Records
        <4>3. Piece \in Nat
          BY Pieces
        <4>4. PICK m : m = Piece - (rec.before + rec.count)
          OBVIOUS
        <4>5. m \in Nat
          BY <1>1, <3>1, <4>3, <4>4
        <4> QED  BY <4>2, <4>4, <4>5
      <3>2. CASE ~(rec.before + rec.count < Piece)
        <4>1. pending' = NoRecord
          BY <1>3, <3>2 DEF Flush
        <4> QED  BY <4>1 DEF NoRecord
      <3> QED  BY <3>1, <3>2
    <2>4. freed' = freed /\ room' = room - rec.left
      BY <2>1
    <2>5. PICK m \in Nat : pending'.count = m /\ pending'.left = m
      BY <2>3
    <2>6. Balanced(room - rec.left, freed, Len(wire) + rec.count, m, m)
      BY <1>1, Balance
    <2> QED  BY <2>2, <2>4, <2>5, <2>6, Zenon
  <1> QED  BY <1>2, <1>3

LEMMA RoomStep ==
    ASSUME IInv, Balanced(room, freed, Len(wire), pending.count, pending.left), [Next]_vars
    PROVE  Balanced(room', freed', Len(wire'), pending'.count, pending'.left)
  <1>1. /\ TypeOK /\ Layout /\ Kept
        /\ room \in Nat /\ freed \in Nat /\ Buffer \in Nat /\ Len(wire) \in Nat
        /\ wire \in Seq(Nat) /\ First \in Nat \ {0}
        /\ pending \in Records /\ pending.count \in Nat /\ pending.left \in Nat
    BY ResponseWriterAssumption DEF IInv, TypeOK, First, Records
  <1>2. NoRecord.count = 0 /\ NoRecord.left = 0
    BY DEF NoRecord
  <1>3. CASE Send
    <2>1. pending' = pending /\ freed' = freed /\ pc # "done" /\ ~tls
      BY <1>3 DEF Send, Ready
    <2>2. CASE \E n \in 1..Smaller(Piece, room) : wire' = wire \o Run(First, n) /\ room' = room - n
      <3>1. PICK n \in 1..Smaller(Piece, room) : wire' = wire \o Run(First, n) /\ room' = room - n
        BY <2>2
      <3>2. n \in Nat
        <4>1. PICK m : m = Smaller(Piece, room)
          OBVIOUS
        <4>2. m \in Nat
          BY <4>1, <1>1, <2>1, Pieces, SmallerIs
        <4> QED  BY <3>1, <4>1, <4>2
      <3>3. Len(wire') = Len(wire) + n
        <4>1. First \in Nat
          BY <1>1
        <4>2. Len(wire \o Run(First, n)) = Len(wire) + n
          BY <1>1, <3>2, <4>1, Extended
        <4> QED  BY <3>1, <4>2, Zenon
      <3>4. pending' = pending /\ freed' = freed /\ room' = room - n
        BY <2>1, <3>1
      <3>5. Balanced(room - n, freed, Len(wire) + n, pending.count, pending.left)
        BY <1>1, <3>2, Balance
      <3> QED  BY <3>3, <3>4, <3>5, Zenon
    <2>3. CASE UNCHANGED <<wire, room>>
      BY <2>1, <2>3, Zenon
    <2> QED  BY <1>3, <2>2, <2>3, Zenon DEF Send
  <1>4. CASE SslWrite
    <2>1. PICK r : r = [first |-> First, count |-> Piece, left |-> Piece, before |-> 0,
                        at |-> tot_bytes, chunk |-> chunk]
      OBVIOUS
    <2>2. pc # "done" /\ pending = NoRecord /\ Flush(r) /\ UNCHANGED freed
      BY <1>4, <2>1 DEF SslWrite, Ready
    <2>3. Piece \in Nat \ {0} /\ tot_bytes \in Nat /\ chunk \in BOOLEAN
      BY <1>1, <2>2, Pieces DEF TypeOK
    <2>4. /\ r \in Records /\ r.first = First /\ r.count = Piece /\ r.before = 0
          /\ r.left = Piece /\ r.at = tot_bytes /\ r.chunk = chunk
      BY <1>1, <2>1, <2>3 DEF Records
    <2>5. r.first > 0 /\ OwnRecord(r)
      BY <1>1, <2>3, <2>4 DEF OwnRecord
    <2>6. Balanced(room, freed, Len(wire), r.count, r.left)
      <3>1. Balanced(room, freed, Len(wire), 0, 0)
        BY <1>2, <2>2, Zenon
      <3>2. Balanced(room, freed, Len(wire), Piece, Piece)
        BY <1>1, <2>3, <3>1, Balance
      <3> QED  BY <2>4, <3>2, Zenon
    <2> QED  BY <1>1, <2>2, <2>4, <2>5, <2>6, FlushTakes
  <1>5. CASE SslWriteAgain
    <2>1. PICK r \in Records : r = pending
      BY <1>1
    <2>2. pc # "done" /\ Flush(r) /\ UNCHANGED freed /\ pending # NoRecord
      BY <1>5, <2>1 DEF SslWriteAgain, Ready
    <2>3. r.first > 0 /\ (OwnRecord(r) \/ StaleRecord(r))
      BY <1>1, <2>1, <2>2 DEF Kept
    <2>4. Balanced(room, freed, Len(wire), r.count, r.left)
      BY <2>1, Zenon
    <2> QED  BY <1>1, <2>2, <2>3, <2>4, FlushTakes
  <1>6. CASE SslWriteRefused \/ WriteFails \/ PollTimesOut \/ Second \/ ClientLeaves
    <2>1. UNCHANGED <<room, freed, wire, pending>>
      BY <1>6 DEF SslWriteRefused, WriteFails, PollTimesOut, Second, ClientLeaves
    <2> QED  BY <2>1, Zenon
  <1>7. CASE ClientReads
    <2>1. PICK n \in 1..Buffer - room : room' = room + n /\ freed' = freed + n
      BY <1>7 DEF ClientReads
    <2>2. wire' = wire /\ pending' = pending
      BY <1>7 DEF ClientReads
    <2>3. Balanced(room + n, freed + n, Len(wire), pending.count, pending.left)
      <3>1. n \in Nat
        BY <1>1
      <3> QED  BY <1>1, <3>1, Balance
    <2> QED  BY <2>1, <2>2, <2>3, Zenon
  <1>8. CASE UNCHANGED vars
    <2>1. UNCHANGED <<room, freed, wire, pending>>
      BY <1>8 DEF vars
    <2> QED  BY <2>1, Zenon
  <1> QED  BY <1>3, <1>4, <1>5, <1>6, <1>7, <1>8 DEF Next, WriteData

\* What the client has read is no more than the response.
LEMMA FreedBounded ==
    ASSUME IInv, Counted
    PROVE  freed <= size /\ calls <= size
  <1>1. /\ size \in Nat /\ start \in Nat /\ start <= size /\ calls <= start /\ calls \in Nat
        /\ room \in 0..Buffer /\ freed \in Nat /\ Buffer \in Nat
        /\ wire \in Seq(Nat) /\ Len(wire) \in Nat /\ First \in Nat \ {0} /\ First <= size + 1
        /\ pending \in Records
    BY ResponseWriterAssumption DEF IInv, TypeOK, Layout, First, Counted
  <1>2. /\ pending.first \in Nat /\ pending.count \in Nat /\ pending.left \in Nat
    BY <1>1 DEF Records
  <1>3. Place \in Nat \ {0} /\ Below(wire, Place)
    BY <1>1, <1>2 DEF IInv, Sent, Kept, Place
  <1>4. Len(wire) < Place
    <2>1. CASE Len(wire) # 0
      <3>1. Len(wire) \in 1..Len(wire) /\ wire[Len(wire)] \in Nat
        BY <1>1, <2>1
      <3>2. wire[Len(wire)] >= Len(wire) /\ wire[Len(wire)] < Place
        BY <1>3, <3>1 DEF Below, Counted
      <3> QED  BY <1>1, <1>3, <3>1, <3>2
    <2> QED  BY <1>3, <2>1
  <1>5. CASE pending = NoRecord
    <2>1. pending.count = 0 /\ pending.left = 0 /\ Place = First
      BY <1>5 DEF NoRecord, Place
    <2>2. Balanced(room, freed, Len(wire), 0, 0)
      BY <2>1, Zenon DEF Counted
    <2> QED  BY <1>1, <1>4, <2>1, <2>2 DEF Balanced
  <1>6. CASE pending # NoRecord
    <2>1. Place = pending.first
      BY <1>6 DEF Place
    <2>2. pending.first + pending.count <= size + 1
      <3>1. CASE pc # "done"
        <4>1. OwnRecord(pending) \/ StaleRecord(pending)
          BY <1>6 DEF IInv, Kept
        <4> QED  BY <1>1, <3>1, <4>1, RecordEnds DEF IInv
      <3>2. CASE pc = "done"
        <4>1. pending.first + pending.count <= start + 1
          BY <1>6, <3>2 DEF IInv, Kept, StaleRecord
        <4> QED  BY <1>1, <1>2, <4>1
      <3> QED  BY <3>1, <3>2
    <2>3. Balanced(room, freed, Len(wire), pending.count, pending.left)
      BY Zenon DEF Counted
    <2>4. PICK f \in Nat, c \in Nat, x \in Nat, w \in Nat :
              /\ pending.first = f /\ pending.count = c /\ pending.left = x
              /\ Len(wire) = w
      BY <1>1, <1>2
    <2>5. Balanced(room, freed, w, c, x) /\ w < f /\ f + c <= size + 1
      BY <1>4, <2>1, <2>2, <2>3, <2>4
    <2> QED  BY <1>1, <2>5 DEF Balanced
  <1> QED  BY <1>5, <1>6

\* Poll never waits longer for a response of size bytes, in lines and chunks of
\* any number, than a timeout for each byte twice over: once for the call that
\* has it, once for the room that the client has made for it
\* (base_sock.cpp, WriteData and ExchangeData).
THEOREM ResponseInTime == Spec => []HeldAtMost
  <1>1. Init => Counted
    <2>1. SUFFICES ASSUME Init PROVE Counted
      OBVIOUS
    <2>2. /\ calls = 0 /\ start = 0 /\ wire = <<>> /\ room = Buffer /\ freed = 0
          /\ pending.count = 0 /\ pending.left = 0
      BY <2>1 DEF Init, NoRecord
    <2>3. Balanced(Buffer, 0, 0, 0, 0)
      BY ResponseWriterAssumption DEF Balanced
    <2>4. Len(wire) = 0
      BY <2>2
    <2>5. Balanced(room, freed, Len(wire), pending.count, pending.left)
      BY <2>2, <2>3, <2>4, Zenon
    <2> QED  BY <2>2, <2>4, <2>5 DEF Counted
  <1>2. IInv /\ Counted /\ [Next]_vars => Counted'
    BY CallsStep, AscendsStep, RoomStep DEF Counted
  <1>3. IInv /\ InTime /\ Counted => HeldAtMost
    <2>1. SUFFICES ASSUME IInv, InTime, Counted PROVE HeldAtMost
      OBVIOUS
    <2>2. /\ calls \in Nat /\ freed \in Nat /\ size \in Nat /\ clock \in Nat
      BY <2>1 DEF IInv, TypeOK
    <2>3. PICK a \in Nat, b \in Nat : a = calls + freed + 1 /\ b = 2 * size + 1
      BY <2>2
    <2>4. a <= b
      BY <2>1, <2>2, <2>3, FreedBounded
    <2>5. TimeOut * a <= TimeOut * b
      BY <2>4, Later
    <2>6. clock <= TimeOut * a
      BY <2>1, <2>3 DEF InTime
    <2>7. TimeOut * a \in Nat /\ TimeOut * b \in Nat
      BY ResponseWriterAssumption
    <2>8. clock <= TimeOut * b
      BY <2>2, <2>5, <2>6, <2>7
    <2> QED  BY <2>3, <2>8 DEF HeldAtMost
  <1> QED  BY <1>1, <1>2, <1>3, Bounded, Invariance, PTL DEF Spec
=============================================================================
