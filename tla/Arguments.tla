------------------------------ MODULE Arguments ------------------------------
(***************************************************************************)
(* What a request says, as ReadRequest hands it to RequestReceived: its    *)
(* arguments and its credentials.  TokenIterator (common/tools.h),         *)
(* Unescape and ParseArguments (common/http_srv.cpp) read the arguments,   *)
(* from the body of a posted form or from what follows "?" in the request  *)
(* line; module Credentials has the rest.                                  *)
(*                                                                         *)
(* A text is a sequence of characters, and a character its code.  The      *)
(* client encodes a form as application/x-www-form-urlencoded asks for; of *)
(* what it sends, 256 + c stands for the three characters %XX that mean c. *)
(***************************************************************************)
EXTENDS Credentials, FiniteSets

CONSTANTS
    Chars,      \* characters of names and values
    Safe,       \* those that the client sends as they are
    MaxArgName, \* bound: the length of a name
    MaxText     \* bound: the length of what is sent

Nul == 0
Space == 32
PercentSign == 37
Amp == 38
PlusSign == 43
Equal == 61
Query == 63

ASSUME ArgumentsAssumption ==
    /\ Chars \subseteq 0..255 /\ Safe \subseteq 0..255
    /\ Safe \cap {Nul, Space, PercentSign, Amp, PlusSign, Equal, Query} = {}
    /\ MaxArgName \in Nat /\ MaxText \in Nat

VARIABLES
    method,     \* "GET" or "POST"
    form,       \* the arguments of the request: a name, a value, and the place
                \* from which they are in encoded
    encoded,    \* what the client has made of them
    args,       \* _request_args
    state       \* "client", "read", "let in", "refused", "undefined"

request == <<method, form, encoded>>
arguments == <<request, args, state, credentials>>

-----------------------------------------------------------------------------
(* The client. *)

Escape(c) ==
    IF method = "POST" /\ c = Space THEN PlusSign
    ELSE IF c \in Safe THEN c ELSE 256 + c

Escaped(str) == [i \in 1..Len(str) |-> Escape(str[i])]

Separator == IF form = <<>> THEN <<>> ELSE <<Amp>>

\* The client adds an argument to the form: name=value, or &name=value.
AddArgument(name, value) ==
    /\ encoded' = encoded \o Separator \o Escaped(name) \o <<Equal>> \o Escaped(value)
    /\ form' = Append(form, [name |-> name, value |-> value,
                             from |-> Len(encoded) + Len(Separator) + 1])
    /\ UNCHANGED <<method, args, state, credentials>>

\* To keep the two apart, a request has arguments or credentials.
Compose ==
    /\ state = "client" /\ auth_user = <<>> /\ auth_pwd = <<>> /\ offered = Nothing
    /\ \E n \in 1..MaxArgName, v \in 0..MaxText :
          /\ Len(encoded) + Len(Separator) + n + 1 + v <= MaxText
          /\ \E name \in [1..n -> Chars], value \in [1..v -> Chars] : AddArgument(name, value)

-----------------------------------------------------------------------------
(* The server. *)

\* What a loop over a TokenIterator gives: the stretches between delimiters,
\* none of them empty, each as its first and its last place.  The text of the
\* iterator is a C string: it ends before the first NUL.
Tokens(str, delimiters) ==
    LET n == Len(str)
        Ends(p) == str[p] \in delimiters \cup {Nul}
    IN  {r \in (1..n) \X (1..n) :
            /\ r[1] <= r[2] /\ \A p \in r[1]..r[2] : ~Ends(p)
            /\ r[1] = 1 \/ Ends(r[1] - 1)
            /\ r[2] = n \/ Ends(r[2] + 1)
            /\ \A p \in 1..r[1] : str[p] # Nul}

\* isxdigit, and the value of the digit.
HexDigits == (48..57) \cup (65..70) \cup (97..102)
HexValue(c) == IF c <= 57 THEN c - 48 ELSE (c - 55) % 32

\* Where a percent sign and two digits are.
Escapes(str) ==
    {p \in 1..Len(str) - 2 :
        str[p] = PercentSign /\ str[p + 1] \in HexDigits /\ str[p + 2] \in HexDigits}

\* Each becomes one character.  What an escape stands for is not looked at
\* again, and what is none stays.
Percent(str) ==
    LET escapes == Escapes(str)
        kept == {p \in 1..Len(str) : p - 1 \notin escapes /\ p - 2 \notin escapes}
        Place(i) == CHOOSE p \in kept : Cardinality({q \in kept : q <= p}) = i
        Char(p) == IF p \in escapes
                      THEN (16 * HexValue(str[p + 1])) + HexValue(str[p + 2])
                      ELSE str[p] % 256
    IN  [i \in 1..Cardinality(kept) |-> Char(Place(i))]

Plus(str) ==
    IF method = "POST"
       THEN [i \in 1..Len(str) |-> IF str[i] = PlusSign THEN Space ELSE str[i]]
       ELSE str

\* Fault: the escapes are replaced before the plus signs.
UnescapePlusLast(str) == Plus(Percent(str))

\* In a posted form the plus signs are replaced, and then the escapes.
Unescape(str) == Percent(Plus(str))

\* The stretch of a token, and the first and the last of some tokens.
Part(str, token) == SubSeq(str, token[1], token[2])
First(tokens) == CHOOSE r \in tokens : \A s \in tokens : r[1] <= s[1]
Final(tokens) == CHOOSE r \in tokens : \A s \in tokens : s[1] <= r[1]

\* items: what "=" separates in an argument, which may be nothing.  They are a
\* name and a value, or a name only.
Items(arg) == Tokens(arg, {Equal})
Name(arg) == Unescape(Part(arg, First(Items(arg))))
Value(arg) ==
    IF Cardinality(Items(arg)) = 2 THEN Unescape(Part(arg, Final(Items(arg)))) ELSE <<>>

\* The arguments of all sections; the last one of a name gives its value.  An
\* argument without a name ("=") has no items, and reading items[0] is
\* undefined behaviour.
ParseArguments(parameters) ==
    LET list == Tokens(parameters, {Query, Amp})
        Arg(r) == Part(parameters, r)
        Named(k) == {r \in list : Name(Arg(r)) = k}
    IN  IF \E r \in list : Items(Arg(r)) = {}
           THEN state' = "undefined" /\ UNCHANGED args
           ELSE /\ state' = "read"
                /\ args' = [k \in {Name(Arg(r)) : r \in list} |-> Value(Arg(Final(Named(k))))]

\* A server with a user name is asked with GET.
ArgumentsInit ==
    /\ form = <<>> /\ encoded = <<>>
    /\ \/ method = "POST" /\ auth_user = <<>> /\ auth_pwd = <<>> /\ offered = Nothing
       \/ method = "GET" /\ auth_user \in Texts /\ auth_pwd \in Texts /\ offered \in Offers
    /\ args = <<>> /\ NotRead /\ state = "client"

\* The body of the form is parsed as it came.
ReadPost ==
    /\ state = "client" /\ method = "POST"
    /\ ParseArguments(encoded)
    /\ GetAuthentication
    /\ UNCHANGED request

\* The whole request target, arguments included, is unescaped before it is
\* split at "?", and the arguments once more after that.
ReadGet ==
    /\ state = "client" /\ method = "GET"
    /\ LET page == Unescape(<<47, Query>> \o encoded)
           args_pos == CHOOSE i \in 1..Len(page) :
                          page[i] = Query /\ \A j \in 1..i - 1 : page[j] # Query
       IN  ParseArguments(SubSeq(page, args_pos + 1, Len(page)))
    /\ GetAuthentication
    /\ UNCHANGED request

RequestReceived ==
    /\ state = "read"
    /\ state' = IF Refused THEN "refused" ELSE "let in"
    /\ UNCHANGED <<request, args, credentials>>

ArgumentsNext == Compose \/ ReadPost \/ ReadGet \/ RequestReceived

ArgumentsSpec == ArgumentsInit /\ [][ArgumentsNext]_arguments

-----------------------------------------------------------------------------
(* Properties. *)

\* Characters with a meaning of their own that the second unescaping of a
\* query finds, or that split or end it because the first one has put them
\* there.
Special == {Nul, Amp, Equal, Query, PercentSign}

Plain ==
    \A k \in DOMAIN form :
        \A c \in ToSet(form[k].name) \cup ToSet(form[k].value) : c \notin Special

\* The handler gets the arguments of the request, under each name the last
\* value: those of every posted form, and those of a query unless they contain
\* an escaped character that separates arguments or begins an escape.
ArgsExact ==
    state # "client" /\ (method = "GET" => Plain) =>
        /\ state # "undefined"
        /\ DOMAIN args = {form[k].name : k \in DOMAIN form}
        /\ \A k \in DOMAIN form :
              args[form[k].name] = form[k].value
                  \/ \E j \in k + 1..Len(form) : form[j].name = form[k].name

\* A server with a user name lets exactly those in who offer that name and its
\* password, whatever bytes they are made of.  Nobody gets in with a name that
\* contains a colon, and the sent text alone does not tell such a name from a
\* shorter one with a longer password.
CredentialsExact ==
    auth_user # <<>> =>
        LET known == offered = [user |-> auth_user, password |-> auth_pwd, sent |-> TRUE]
        IN  /\ state = "refused" /\ known => Colon \in ToSet(auth_user)
            /\ state = "let in" =>
                  \/ known /\ Colon \notin ToSet(auth_user)
                  \/ /\ offered.sent /\ Colon \in ToSet(offered.user)
                     /\ offered.user \o <<Colon>> \o offered.password =
                            auth_user \o <<Colon>> \o auth_pwd
=============================================================================
