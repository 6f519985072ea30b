------------------------------ MODULE Settings ------------------------------
(***************************************************************************)
(* What the dialog is set to and what the server is run with (main.cpp):   *)
(* the boxes, the texts, CheckEnable, the file choosers and OnStart, which *)
(* hands the settings to HttpSrv (SetRootDir, SetUserPassword,             *)
(* common/http_srv.h and .cpp) and to the listening socket (SetSSL,        *)
(* UseCertificate, common/base_sock.cpp).  The server and its SSL_CTX      *)
(* outlive a start that fails and a session, so each start meets what the  *)
(* ones before it left.                                                    *)
(*                                                                         *)
(* Texts are model values; a certificate file stands for the file and its  *)
(* passphrase.  Whether files can be loaded is up to the file system.  How *)
(* the server runs is HttpServer's subject.                                *)
(***************************************************************************)
EXTENDS Integers

CONSTANTS
    Users, NoUser,  \* user names, the empty one among them
    Passwords, NoPassword,
    Certs, BuiltIn, \* certificate files; BuiltIn is no name: the one in the code
    CaFiles, NoCa,  \* files of CA certificates, and no name
    Dirs,           \* absolute names of directories
    WithSub         \* those with a folder of the relative name "sub"

ASSUME SettingsAssumption ==
    /\ NoUser \in Users /\ NoPassword \in Passwords
    /\ BuiltIn \in Certs /\ NoCa \in CaFiles
    /\ {"missing", "none"} \cap Certs = {}
    /\ WithSub \subseteq Dirs /\ Dirs # {} /\ {"empty", ".", "sub"} \cap Dirs = {}

VARIABLES
    widgets,    \* the values of the dialog's
    cwd,        \* the working directory of the process
    chosen,     \* the one it should be in: that it was started in, that the
                \* user last changed to, or that a start could not leave again
    sslsock, ctx,   \* _sslsock, _ctx of the listening socket
    contexts,   \* the SSL_CTX that were allocated and not freed
    cert,       \* _cert_file, _pk_file, _pk_pwd
    root,       \* _root_dir
    auth_user, auth_pwd,
    serving,    \* the Stop button is enabled, and not the Start button
    shown       \* the widgets and chosen, when the server that runs was started

dialog == <<widgets, cwd, chosen>>
server == <<sslsock, ctx, contexts, cert, root, auth_user, auth_pwd, serving, shown>>
settings == <<dialog, server>>

\* The folder "sub" of a directory.
Sub(d) == <<d, "sub">>
Places == Dirs \cup {Sub(d) : d \in Dirs}

NoCtx == [verify |-> NoCa, cert |-> "none"]

Defaults ==
    [ssl |-> FALSE, auth |-> FALSE, basic |-> TRUE, user |-> NoUser,
     password |-> NoPassword, cert_file |-> BuiltIn, ca_file |-> NoCa, root_dir |-> "empty"]

NotShown == [widgets |-> Defaults, chosen |-> CHOOSE d \in Dirs : TRUE]

SettingsInit ==
    /\ widgets = Defaults
    /\ cwd \in Dirs /\ chosen = cwd
    /\ sslsock = FALSE /\ ctx = NoCtx /\ contexts = 0
    /\ cert = BuiltIn /\ root = cwd
    /\ auth_user = NoUser /\ auth_pwd = NoPassword
    /\ serving = FALSE /\ shown = NotShown

-----------------------------------------------------------------------------
(* The dialog. *)

\* Fault: the choice of a certificate outlives TLS.
CheckEnableKeeps(w) == w

\* Without TLS there is no authentication by certificate.
CheckEnable(w) == IF w.ssl THEN w ELSE [w EXCEPT !.basic = TRUE]

\* A click on a box or a button that CheckEnable has enabled.
OnClick ==
    /\ \E w \in {[widgets EXCEPT !.ssl = ~@], [widgets EXCEPT !.auth = ~@]} \cup
                (IF widgets.auth THEN {[widgets EXCEPT !.basic = TRUE]} ELSE {}) \cup
                (IF widgets.ssl /\ widgets.auth
                    THEN {[widgets EXCEPT !.basic = FALSE]} ELSE {}) :
          widgets' = CheckEnable(w)
    /\ UNCHANGED <<cwd, chosen, server>>

\* The user writes into a field that is enabled, or clears it; the names of
\* certificates, too, are ordinary text.
Write ==
    /\ \/ /\ widgets.ssl
          /\ \E c \in Certs : widgets' = [widgets EXCEPT !.cert_file = c]
       \/ /\ widgets.ssl /\ widgets.auth /\ ~widgets.basic
          /\ \E c \in CaFiles : widgets' = [widgets EXCEPT !.ca_file = c]
       \/ /\ widgets.auth /\ widgets.basic
          /\ \E u \in Users, p \in Passwords :
                widgets' = [widgets EXCEPT !.user = u, !.password = p]
       \/ \E d \in {"empty", ".", "sub"} \cup Dirs :
                widgets' = [widgets EXCEPT !.root_dir = d]
    /\ UNCHANGED <<cwd, chosen, server>>

\* The file chooser leaves the process in the directory of the file.
BrowseSelectFile == \E d \in Dirs : cwd' = d /\ chosen' = d

OnBrowseCertFile ==
    /\ widgets.ssl
    /\ \E c \in Certs \ {BuiltIn} : widgets' = [widgets EXCEPT !.cert_file = c]
    /\ BrowseSelectFile
    /\ UNCHANGED server

OnBrowseCaFile ==
    /\ widgets.ssl /\ widgets.auth /\ ~widgets.basic
    /\ \E c \in CaFiles \ {NoCa} : widgets' = [widgets EXCEPT !.ca_file = c]
    /\ BrowseSelectFile
    /\ UNCHANGED server

\* The folder chooser does not.
OnBrowseRootFolder ==
    /\ \E d \in Dirs : widgets' = [widgets EXCEPT !.root_dir = d]
    /\ UNCHANGED <<cwd, chosen, server>>

-----------------------------------------------------------------------------
(* The server. *)

One(c) == IF c = NoCtx THEN 0 ELSE 1

\* Fault: SetSSL(false) is left out.
SetSSLNot == [sslsock |-> sslsock, ctx |-> ctx, contexts |-> contexts]

\* SetSSL(false): what it leaves for the next steps of OnStart.
SetSSLFalse == [sslsock |-> FALSE, ctx |-> NoCtx, contexts |-> contexts - One(ctx)]

\* UseCertificate is refused while TLS is on.
UseCertificate(s, file) == IF s.sslsock THEN cert ELSE file

\* SetSSL(true, true, TLS, ca): a context at least, unless there is no memory,
\* then the CA's certificates, and the own one, unless these were not found.
\* Whatever is missing, TLS is on.
SetSSLTrue(s, file, ca) ==
    LET New(v, c) == [sslsock |-> TRUE, ctx |-> [verify |-> v, cert |-> c],
                      contexts |-> s.contexts + 1]
    IN  {[rc |-> TRUE, s |-> New(ca, file)],
         [rc |-> FALSE, s |-> [s EXCEPT !.ctx = NoCtx]],
         [rc |-> FALSE, s |-> New(ca, "missing")]} \cup
        (IF ca = NoCa THEN {} ELSE {[rc |-> FALSE, s |-> New(NoCa, "missing")]})

SetSSL(s) == sslsock' = s.sslsock /\ ctx' = s.ctx /\ contexts' = s.contexts

\* Where chdir leads from the working directory: nowhere, if there is no such
\* folder.
Chdir(path) == IF path = "sub" /\ cwd \in WithSub THEN Sub(cwd) ELSE cwd

\* Fault: the working directory is not restored.
SetRootDirStays(path) ==
    /\ root' = IF path \in Dirs THEN path ELSE Chdir(path)
    /\ cwd' = IF path \in Dirs THEN cwd ELSE Chdir(path)
    /\ UNCHANGED chosen

\* The way back from a relative name, chdir(cwd), may fail as well, which the
\* code does not look at: the process stays where it is.
SetRootDir(path) ==
    /\ root' = IF path \in Dirs THEN path ELSE Chdir(path)
    /\ \/ UNCHANGED <<cwd, chosen>>
       \/ /\ path \notin Dirs
          /\ cwd' = Chdir(path) /\ chosen' = Chdir(path)

\* What OnStart makes of the dialog's values.
RootName == IF widgets.root_dir = "." THEN "empty" ELSE widgets.root_dir
CertFile == IF widgets.ssl THEN widgets.cert_file ELSE BuiltIn
CaFile == IF widgets.auth /\ ~widgets.basic THEN widgets.ca_file ELSE NoCa
ByPassword == widgets.auth /\ widgets.basic

OnStartBegin ==
    /\ ~serving
    /\ cert' = UseCertificate(SetSSLFalse, CertFile)
    /\ UNCHANGED widgets

NeedsCa == widgets.ssl /\ widgets.auth /\ ~widgets.basic /\ CaFile = NoCa

\* "CA file not specified"
OnStartNoCa ==
    /\ OnStartBegin
    /\ NeedsCa
    /\ SetSSL(SetSSLFalse)
    /\ UNCHANGED <<cwd, chosen, root, auth_user, auth_pwd, serving, shown>>

\* "Error loading ..."
OnStartNotLoaded ==
    /\ OnStartBegin
    /\ widgets.ssl /\ ~NeedsCa
    /\ \E r \in SetSSLTrue(SetSSLFalse, cert', CaFile) : ~r.rc /\ SetSSL(r.s)
    /\ UNCHANGED <<cwd, chosen, root, auth_user, auth_pwd, serving, shown>>

\* The server runs, or cannot have the port.
OnStartServes ==
    /\ OnStartBegin
    /\ ~NeedsCa
    /\ IF widgets.ssl
          THEN \E r \in SetSSLTrue(SetSSLFalse, cert', CaFile) : r.rc /\ SetSSL(r.s)
          ELSE SetSSL(SetSSLFalse)
    /\ SetRootDir(RootName)
    /\ auth_user' = IF ByPassword THEN widgets.user ELSE NoUser
    /\ auth_pwd' = IF ByPassword THEN widgets.password ELSE NoPassword
    /\ \/ serving' = TRUE /\ shown' = [widgets |-> widgets, chosen |-> chosen]
       \/ UNCHANGED <<serving, shown>>

OnStopServing ==
    /\ serving
    /\ serving' = FALSE
    /\ shown' = NotShown
    /\ UNCHANGED <<dialog, sslsock, ctx, contexts, cert, root, auth_user, auth_pwd>>

OnDialog == OnClick \/ Write \/ OnBrowseCertFile \/ OnBrowseCaFile \/ OnBrowseRootFolder

SettingsNext == OnDialog \/ OnStartNoCa \/ OnStartNotLoaded \/ OnStartServes \/ OnStopServing

SettingsSpec == SettingsInit /\ [][SettingsNext]_settings

-----------------------------------------------------------------------------
(* Properties. *)

Settings ==
    [ssl : BOOLEAN, auth : BOOLEAN, basic : BOOLEAN, user : Users,
     password : Passwords, cert_file : Certs, ca_file : CaFiles,
     root_dir : {"empty", ".", "sub"} \cup Dirs]

SettingsTypeOK ==
    /\ widgets \in Settings /\ cwd \in Places /\ chosen \in Places
    /\ sslsock \in BOOLEAN
    /\ ctx \in [verify : CaFiles, cert : Certs \cup {"missing", "none"}]
    /\ contexts \in Nat /\ cert \in Certs /\ root \in Places
    /\ auth_user \in Users /\ auth_pwd \in Passwords
    /\ serving \in BOOLEAN
    /\ shown \in [widgets : Settings, chosen : Places]

\* A server that runs is the one the dialog showed when it was started, with
\* nothing left of what it was set to before: TLS or not, with one context that
\* has the certificate shown and asks the client for one of the CA shown, and
\* only if that was shown, and the user and password shown, or none.
ServesAsShown ==
    LET w == shown.widgets
    IN  serving =>
          /\ sslsock = w.ssl
          /\ contexts = IF w.ssl THEN 1 ELSE 0
          /\ w.ssl => ctx = [verify |-> IF w.auth /\ ~w.basic THEN w.ca_file ELSE NoCa,
                             cert |-> w.cert_file]
          /\ <<auth_user, auth_pwd>> = IF w.auth /\ w.basic
                                          THEN <<w.user, w.password>>
                                          ELSE <<NoUser, NoPassword>>

\* A server that was started with authentication enabled asks each client for
\* a certificate, or for a user name and a password, unless the user name shown
\* is empty: RequestReceived takes that for no authentication.
NotOpen ==
    serving /\ shown.widgets.auth =>
        \/ sslsock /\ ctx.verify # NoCa
        \/ auth_user # NoUser
        \/ shown.widgets.basic /\ shown.widgets.user = NoUser

\* The root directory is the one shown, seen from where the process was started
\* or the user last chose a file, however often the server was started; or that
\* place itself, if there is no such folder.  The exception is a start that
\* could not change back (http_srv.cpp 292): the later ones are seen from where
\* it left the process.
RootAsShown ==
    serving =>
        root = CASE shown.widgets.root_dir \in Dirs -> shown.widgets.root_dir
                 [] shown.widgets.root_dir = "sub" /\ shown.chosen \in WithSub ->
                        Sub(shown.chosen)
                 [] OTHER -> shown.chosen
=============================================================================
