----------------------------- MODULE Credentials -----------------------------
(***************************************************************************)
(* A user name and a password on their way from the client, through the    *)
(* header field Authorization, to the comparison with those the server was *)
(* started with: Tools::Base64 (common/tools.cpp), GetAuthentication       *)
(* (common/http_srv.cpp) and the comparison in RequestReceived             *)
(* (server.cpp).  Module Arguments has the request that they belong to.    *)
(*                                                                         *)
(* A text is a sequence of bytes.  A Base64 text is a sequence of the      *)
(* places that its characters have in base64_chars; Pad is "=".            *)
(***************************************************************************)
EXTENDS Integers, SequencesExt

CONSTANTS
    Bytes,      \* the bytes that names and passwords are made of
    MaxBytes    \* bound: their length

ASSUME CredentialsAssumption == Bytes \subseteq 0..255 /\ MaxBytes \in Nat

VARIABLES
    auth_user, auth_pwd,    \* of the server
    offered,    \* by the client: a name and a password, or nothing
    username, password      \* in ReadRequest

credentials == <<auth_user, auth_pwd, offered, username, password>>

Colon == 58
Pad == 64
Nothing == [user |-> <<>>, password |-> <<>>, sent |-> FALSE]

-----------------------------------------------------------------------------
(* Base64. *)

\* Where the code fills a group that is too short.
Filled(seq, i, fill) == IF i <= Len(seq) THEN seq[i] ELSE fill

\* char_array_4, for a group of three bytes of which k come before it.
Four(bytes, k) ==
    LET b(i) == Filled(bytes, k + i, 0)
    IN  <<b(1) \div 4, ((b(1) % 4) * 16) + (b(2) \div 16),
          ((b(2) % 16) * 4) + (b(3) \div 64), b(3) % 64>>

\* A group of i bytes gives i + 1 characters, and Pad up to four.
Encode(bytes) ==
    [c \in 1..4 * ((Len(bytes) + 2) \div 3) |->
        LET k == 3 * ((c - 1) \div 4)
            i == (c - 1) % 4
        IN  IF i <= Len(bytes) - k THEN Four(bytes, k)[i + 1] ELSE Pad]

\* char_array_3, for a group of four characters of which k come before it, in
\* eight bits; find gives 255 for the characters that are not there.
Three(chars, k) ==
    LET c(i) == Filled(chars, k + i, 255)
    IN  <<(((c(1) * 4) % 256) + ((c(2) \div 16) % 4)) % 256,
          (((c(2) % 16) * 16) + ((c(3) \div 4) % 16)) % 256,
          (((c(3) % 4) * 64) + c(4)) % 256>>

\* Up to the first character that is not one of base64_chars.  The last group
\* of i characters gives i - 1 bytes.
Decode(text) ==
    LET n == CHOOSE i \in 0..Len(text) :
                 /\ \A j \in 1..i : text[j] # Pad
                 /\ i = Len(text) \/ text[i + 1] = Pad
    IN  [b \in 1..(3 * n) \div 4 |->
            Three(SubSeq(text, 1, n), 4 * ((b - 1) \div 3))[((b - 1) % 3) + 1]]

-----------------------------------------------------------------------------

Texts == SeqOf(Bytes, MaxBytes)

Offers == [user : Texts, password : Texts, sent : {TRUE}] \cup {Nothing}

NotRead == username = <<>> /\ password = <<>>

\* What follows "Basic ".
Authorization == Encode(offered.user \o <<Colon>> \o offered.password)

Colons(auth) == {i \in 1..Len(auth) : auth[i] = Colon}

\* Fault: the last colon is taken.
SplitLast(auth) == CHOOSE i \in Colons(auth) : \A j \in Colons(auth) : j <= i

\* auth.find(':')
Split(auth) == CHOOSE i \in Colons(auth) : \A j \in Colons(auth) : i <= j

GetAuthentication ==
    LET auth == Decode(Authorization)
    IN  /\ IF offered.sent /\ Colons(auth) # {}
              THEN /\ username' = SubSeq(auth, 1, Split(auth) - 1)
                   /\ password' = SubSeq(auth, Split(auth) + 1, Len(auth))
              ELSE UNCHANGED <<username, password>>
        /\ UNCHANGED <<auth_user, auth_pwd, offered>>

\* An empty user name asks for nothing.
Refused == auth_user # <<>> /\ (username # auth_user \/ password # auth_pwd)
=============================================================================
