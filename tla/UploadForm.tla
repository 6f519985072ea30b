----------------------------- MODULE UploadForm -----------------------------
(***************************************************************************)
(* The part of a multipart form before the data of its file: SkipLines,    *)
(* GetValue and the first half of SaveUpload (common/http_srv.cpp).  What  *)
(* ReadLine does is LineReader's subject, and the data are UploadData's.   *)
(*                                                                         *)
(* A line is a record: the field that it names, the file that it names, or *)
(* a text.  Its length is 0 for the empty line and 1 for every other one.  *)
(* The client makes up its form line by line, as SaveUpload reads it.      *)
(***************************************************************************)
EXTENDS Integers, SequencesExt

CONSTANTS
    FieldNames, NoName,     \* of fields; NoName is the empty one
    Words,      \* lines that are not empty and name nothing
    MaxFields,  \* bound: the fields before the file
    MaxLines,   \* bound: the lines of a field's value
    MaxFile,    \* bound: the length of a file name
    MaxOdd      \* bound: the same, in a line of a value that looks like it

ASSUME UploadFormAssumption == {MaxFields, MaxLines, MaxFile, MaxOdd} \subseteq Nat

VARIABLES
    crlf,       \* the client's lines end with CR and LF, as they should
    client,     \* what it sends next: see ClientStates
    current,    \* the name of its latest field
    lines,      \* of that field's value
    fields,     \* those it has sent, with the first line of each value
    file,       \* the name it has sent of the file
    plain,      \* no line of a value but the first one has looked like a field
    sent_bytes,
    place,      \* where SaveUpload calls ReadLine next, or how it goes on
    field_name,
    form_args,  \* _request_args
    filename,   \* x-httpsrv-filename
    tot_bytes

sender == <<crlf, client, current, lines, fields, file, plain, sent_bytes>>
upload == <<sender, place, field_name, form_args, filename, tot_bytes>>

-----------------------------------------------------------------------------
(* The client. *)

Text(t) == [kind |-> "text", text |-> t]
FieldLine(n) == [kind |-> "name", text |-> n]
FileLine(f) == [kind |-> "filename", text |-> f]
Empty == Text("empty")
Boundary == Text("boundary")

ClientStates ==
    {"part",        \* the boundary before the first part
     "header",      \* the line that names a field or the file
     "blank", "value",              \* of a field
     "more",        \* another line of the value, or the next boundary
     "type", "file blank", "done"}  \* of the file

Separators == {"slash", "backslash"}

\* "e" stands for every other character.
FileNames == SeqOf({"e"} \cup Separators, MaxFile)

FormLines ==
    {Empty, Boundary, Text("type")} \cup {Text(w) : w \in Words}
        \cup {FieldLine(n) : n \in FieldNames} \cup {FileLine(f) : f \in FileNames}

LineLength(line) == IF line = Empty THEN 0 ELSE 1

Goes(s) == client' = s /\ UNCHANGED crlf

SendsBoundary(line) ==
    /\ client \in {"part", "more"} /\ line = Boundary
    /\ Goes("header")
    /\ UNCHANGED <<current, lines, fields, file, plain>>

SendsField(line) ==
    /\ client = "header" /\ line.kind = "name" /\ Len(fields) < MaxFields
    /\ Goes("blank") /\ current' = line.text /\ lines' = 0
    /\ UNCHANGED <<fields, file, plain>>

SendsFile(line) ==
    /\ client = "header" /\ line.kind = "filename"
    /\ Goes("type") /\ file' = line.text
    /\ UNCHANGED <<current, lines, fields, plain>>

SendsHeaders(line) ==
    /\ \/ client = "blank" /\ line = Empty /\ Goes("value")
       \/ client = "type" /\ line = Text("type") /\ Goes("file blank")
       \/ client = "file blank" /\ line = Empty /\ Goes("done")
    /\ UNCHANGED <<current, lines, fields, file, plain>>

\* A line of a value may be any text, also one that looks like a field.
SendsValue(line) ==
    /\ line \notin {Boundary, Text("type")} /\ lines < MaxLines
    /\ line.kind = "filename" => Len(line.text) <= MaxOdd
    /\ \/ /\ client = "value"
          /\ fields' = Append(fields, [name |-> current, value |-> line])
          /\ UNCHANGED plain
       \/ /\ client = "more"
          /\ plain' = (plain /\ line.kind = "text")
          /\ UNCHANGED fields
    /\ Goes("more") /\ lines' = lines + 1
    /\ UNCHANGED <<current, file>>

Sends(line) ==
    /\ sent_bytes' =
           sent_bytes + LineLength(line) + IF crlf THEN 2 ELSE 1
    /\ \/ SendsBoundary(line) \/ SendsField(line) \/ SendsFile(line)
       \/ SendsHeaders(line) \/ SendsValue(line)

-----------------------------------------------------------------------------
(* The server. *)

FormInit ==
    /\ crlf \in BOOLEAN /\ client = "part" /\ current = NoName /\ lines = 0
    /\ fields = <<>> /\ file = <<>> /\ plain = TRUE /\ sent_bytes = 0
    /\ place = "boundary" /\ field_name = NoName /\ form_args = <<>>
    /\ filename = <<>> /\ tot_bytes = 0

\* Fault: the end of a line is not counted.
CountText(line) == LineLength(line)

\* line.length() + 2, whatever the line ends with.
Count(line) == LineLength(line) + 2

\* A line is read and counted, and the next one is to be read at s.
ReadLine(line, s) ==
    /\ Sends(line)
    /\ tot_bytes' = tot_bytes + Count(line)
    /\ place' = s

\* GetValue takes what follows the last slash, or the last backslash if there
\* is no slash, and SaveUpload then what follows the last of either.
From(f, separators) ==
    SubSeq(f, SelectLastInSeq(f, LAMBDA c : c \in separators) + 1, Len(f))

GetValue(f) == From(f, IF "slash" \in ToSet(f) THEN {"slash"} ELSE {"backslash"})
FileName(f) == From(GetValue(f), Separators)

\* The first line must be the boundary.
ReadBoundary(line) ==
    /\ place = "boundary"
    /\ ReadLine(line, "look")
    /\ UNCHANGED <<field_name, form_args, filename>>

\* A line is read and looked at.  It may name the file; without a name for it
\* the form is refused.
LookAtFile(line) ==
    /\ place = "look" /\ line.kind = "filename"
    /\ IF GetValue(line.text) = <<>>
          THEN ReadLine(line, "refused") /\ UNCHANGED filename
          ELSE ReadLine(line, "skip to data") /\ filename' = FileName(line.text)
    /\ UNCHANGED <<field_name, form_args>>

\* Or a field, whose name may not be empty either.
LookAtField(line) ==
    /\ place = "look" /\ line.kind = "name"
    /\ ReadLine(line, IF line.text = NoName THEN "refused" ELSE "skip to value")
    /\ field_name' = line.text
    /\ UNCHANGED <<form_args, filename>>

LookAtOther(line) ==
    /\ place = "look" /\ line.kind = "text"
    /\ ReadLine(line, "look")
    /\ UNCHANGED <<field_name, form_args, filename>>

\* Up to the empty line.
SkipLines(line) ==
    /\ \/ /\ place = "skip to value"
          /\ ReadLine(line, IF line = Empty THEN "value" ELSE place)
       \/ /\ place = "skip to data"
          /\ ReadLine(line, IF line = Empty THEN "data" ELSE place)
    /\ UNCHANGED <<field_name, form_args, filename>>

\* The value is one line.
ReadValue(line) ==
    /\ place = "value"
    /\ ReadLine(line, "look")
    /\ form_args' = [n \in DOMAIN form_args \cup {field_name} |->
                        IF n = field_name THEN line ELSE form_args[n]]
    /\ UNCHANGED <<field_name, filename>>

\* The lines are over, or the client stops sending: what ReadLine then finds is
\* the data of the file, or nothing.
Reading == {"boundary", "look", "skip to value", "skip to data", "value"}

ReadLineFails ==
    /\ place \in Reading
    /\ place' = IF client = "done" THEN "astray" ELSE "refused"
    /\ UNCHANGED <<sender, field_name, form_args, filename, tot_bytes>>

FormNext ==
    \/ \E line \in FormLines :
          \/ ReadBoundary(line)
          \/ LookAtFile(line) \/ LookAtField(line) \/ LookAtOther(line)
          \/ SkipLines(line) \/ ReadValue(line)
    \/ ReadLineFails

FormSpec == FormInit /\ [][FormNext]_upload

-----------------------------------------------------------------------------
(* Properties. *)

\* What the client and SaveUpload have.
FormTypeOK ==
    /\ crlf \in BOOLEAN /\ client \in ClientStates /\ plain \in BOOLEAN
    /\ lines \in Nat /\ sent_bytes \in Nat /\ tot_bytes \in Nat
    /\ current \in FieldNames \cup {NoName} /\ field_name \in FieldNames \cup {NoName}
    /\ fields \in Seq([name : FieldNames \cup {NoName}, value : FormLines])
    /\ file \in Seq({"e"} \cup Separators)
    /\ filename \in Seq({"e"} \cup Separators)
    /\ place \in Reading \cup {"data", "refused", "astray"}

\* The arguments are the fields; of those with one name, the last one.
AreFields(all, list) ==
    /\ DOMAIN all = {list[i].name : i \in 1..Len(list)}
    /\ \A i \in 1..Len(list) :
          \/ all[list[i].name] = list[i].value
          \/ \E j \in i + 1..Len(list) : list[j].name = list[i].name

\* b is what follows the last separator in the file name f.
BaseName(b, f) ==
    \E n \in 0..Len(f) : /\ b = SubSeq(f, n + 1, Len(f))
                         /\ n = 0 \/ f[n] \in Separators

\* When SaveUpload comes to the data of the file, tot_bytes, which decides how
\* much is read after them, is what the client has sent before them, if its
\* lines end as they should; the name of the file names no directory; and,
\* unless a later line of a value looks like a field or a file, the lines have
\* been read to their end, the name is the last part of the one sent and the
\* arguments are the form's fields, with the first line of each value.  Only
\* such a line can make SaveUpload read the file for lines.
FormExact ==
    /\ place = "data" =>
          /\ crlf => tot_bytes = sent_bytes
          /\ ToSet(filename) \cap Separators = {}
          /\ plain => client = "done" /\ BaseName(filename, file)
                    /\ AreFields(form_args, fields)
    /\ place = "astray" => ~plain
=============================================================================
