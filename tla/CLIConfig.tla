----------------------------- MODULE CLIConfig -----------------------------
(***************************************************************************)
(* config.json, the CLI's credential store: one token per server, and the  *)
(* server used when none is named.  login, logout and every command that   *)
(* calls a server read it; the first two write the whole of it back, from  *)
(* what they read, with no lock.                                           *)
(*                                                                         *)
(* The device flow that login goes through is modelled by DeviceFlow; here *)
(* it ends with a token or it does not.                                    *)
(***************************************************************************)
EXTENDS Releases, FiniteSets

CONSTANTS
    Commands,       \* processes that use the store
    Bases,          \* servers
    Tokens,         \* tokens that may be issued
    Minima,         \* values of min_cli_version to explore, LocalBuild for none
    EnvToken,       \* a token given with --token or PLACARD_TOKEN
    Nothing

ASSUME CLIConfigAssumption ==
    /\ Nothing \notin Bases \cup Tokens \cup {EnvToken}
    /\ EnvToken \notin Tokens
    /\ LocalBuild \in Minima

VARIABLES
    file,           \* config.json
    minimum,        \* each server's min_cli_version
    session,        \* the command each process runs
    issuer,         \* who issued each token
    sent            \* history: tokens from the store that servers were sent

configVars == <<file, minimum, session, issuer, sent>>

-----------------------------------------------------------------------------
Entry == [token : Tokens, base : Bases]

Config == [tokens : [Bases -> Entry \cup {Nothing}], default : Bases \cup {Nothing}]

Empty == [tokens |-> [b \in Bases |-> Nothing], default |-> Nothing]

\* overtaken is history: the file changed since the command read it.
NoSession == [at |-> "idle", cmd |-> "call", base |-> Nothing, explicit |-> FALSE,
              token |-> Nothing, stored |-> FALSE, copy |-> Empty, overtaken |-> FALSE]

ConfigTypeOK ==
    /\ file \in Config
    /\ minimum \in [Bases -> Minima]
    /\ \A p \in Commands :
         /\ session[p].at \in {"idle", "code", "approval", "load", "save", "confirm",
                               "resolve", "send"}
         /\ session[p].cmd \in {"login", "logout", "call"}
         /\ session[p].base \in Bases \cup {Nothing}
         /\ session[p].token \in Tokens \cup {EnvToken, Nothing}
         /\ session[p].copy \in Config
    /\ issuer \in [Tokens -> Bases \cup {Nothing}]
    /\ sent \subseteq Tokens \X Bases

\* Slip: login starts a file of its own.
OnlyLogin(cfg, b, t) ==
    [tokens |-> [Empty.tokens EXCEPT ![b] = [token |-> t, base |-> b]], default |-> b]

\* login's entry, and the default that later commands follow.
WithLogin(cfg, b, t) ==
    [tokens |-> [cfg.tokens EXCEPT ![b] = [token |-> t, base |-> b]], default |-> b]

\* There may be a login of an earlier day.
ConfigInit ==
    /\ \/ file = Empty /\ issuer = [t \in Tokens |-> Nothing]
       \/ \E b \in Bases, t \in Tokens :
            /\ file = WithLogin(Empty, b, t)
            /\ issuer = [u \in Tokens |-> IF u = t THEN b ELSE Nothing]
    /\ minimum \in [Bases -> {LocalBuild}]
    /\ session = [p \in Commands |-> NoSession]
    /\ sent = {}

Go(p, stage) == session' = [session EXCEPT ![p].at = stage]
Over(p) == session' = [session EXCEPT ![p] = NoSession]

-----------------------------------------------------------------------------
LoggedIn(cfg) == {b \in Bases : cfg.tokens[b] # Nothing}

\* The only server there is a login for.
SoleBase(cfg) ==
    IF Cardinality(LoggedIn(cfg)) = 1 THEN CHOOSE b \in Bases : b \in LoggedIn(cfg) ELSE Nothing

\* applyGlobals, with neither --base nor PLACARD_URL.
DefaultBase == IF file.default # Nothing THEN file.default ELSE SoleBase(file)

FirstStage(cmd) == CASE cmd = "login" -> "code" [] cmd = "logout" -> "load" [] cmd = "call" -> "resolve"

\* A command begins by resolving its server: a flag, PLACARD_URL, the file. That
\* none is known is an error. Only ResolveCredential asks which it was.
Begin(p, cmd) ==
    /\ session[p].at = "idle"
    /\ \/ \E b \in Bases, explicit \in {cmd = "call", FALSE} :
            session' = [session EXCEPT ![p] = [NoSession EXCEPT
                          !.at = FirstStage(cmd), !.cmd = cmd, !.base = b, !.explicit = explicit]]
       \/ /\ DefaultBase # Nothing
          /\ session' = [session EXCEPT ![p] = [NoSession EXCEPT
                          !.at = FirstStage(cmd), !.cmd = cmd, !.base = DefaultBase]]
    /\ UNCHANGED <<file, minimum, issuer, sent>>

\* MinCLIVersion stands before every route.
Admitted(p, v) == Admits(minimum[session[p].base], v)

\* POST /auth/device/code by a CLI of version v.
RequestCode(p, v) ==
    /\ session[p].at = "code"
    /\ IF Admitted(p, v) THEN Go(p, "approval") ELSE Over(p)
    /\ UNCHANGED <<file, minimum, issuer, sent>>

\* The poll that redeems the flow.
Approval(p, v) ==
    /\ session[p].at = "approval" /\ Admitted(p, v)
    /\ \E t \in {u \in Tokens : issuer[u] = Nothing} :
         /\ session' = [session EXCEPT ![p].at = "load", ![p].token = t]
         /\ issuer' = [issuer EXCEPT ![t] = session[p].base]
    /\ UNCHANGED <<file, minimum, sent>>

-----------------------------------------------------------------------------
\* logout of one server leaves the others.
WithoutLogin(cfg, b) ==
    LET left == [cfg EXCEPT !.tokens[b] = Nothing] IN
    IF cfg.default = b THEN [left EXCEPT !.default = SoleBase(left)] ELSE left

\* LoadConfig, and the change that is to be saved.
LoadConfig(p) ==
    /\ session[p].at = "load"
    /\ session' = [session EXCEPT ![p].at = "save", ![p].overtaken = FALSE,
                     ![p].copy = IF session[p].cmd = "login"
                                 THEN WithLogin(file, session[p].base, session[p].token)
                                 ELSE WithoutLogin(file, session[p].base)]
    /\ UNCHANGED <<file, minimum, issuer, sent>>

\* A file that is staged beside the store leaves the store as it is.
Overtaken(p, after) ==
    [q \in Commands |-> IF q # p /\ after[q].at = "save" THEN [after[q] EXCEPT !.overtaken = TRUE]
                                                         ELSE after[q]]

\* SaveConfig: the rename of the staged file. Last writer wins.
SaveConfig(p) ==
    /\ session[p].at = "save"
    /\ file' = session[p].copy
    /\ session' = Overtaken(p, IF session[p].cmd = "login"
                               THEN [session EXCEPT ![p].at = "confirm", ![p].copy = Empty]
                               ELSE [session EXCEPT ![p] = NoSession])
    /\ UNCHANGED <<minimum, issuer, sent>>

\* GET /api/me with the new token ends the login, whatever it answers.
Confirm(p) ==
    /\ session[p].at = "confirm"
    /\ sent' = sent \cup {<<session[p].token, session[p].base>>}
    /\ Over(p)
    /\ UNCHANGED <<file, minimum, issuer>>

-----------------------------------------------------------------------------
\* Slip: the key is taken for the binding.
BoundByKey(entry, b) == entry # Nothing

\* A stored token is refused for a server it is not bound to.
Bound(entry, b) == entry # Nothing /\ entry.base = b

\* What a command is given in its arguments and its environment.
GivenTokens == [flag : BOOLEAN, environment : BOOLEAN]

\* --token; PLACARD_TOKEN, unless the server was given with --base.
Unbound(p, given) == given.flag \/ (given.environment /\ ~ session[p].explicit)

\* ResolveCredential: one of those, or the store.
ResolveCredential(p) ==
    /\ session[p].at = "resolve"
    /\ LET b == session[p].base IN \E given \in GivenTokens :
         session' = IF Unbound(p, given)
                    THEN [session EXCEPT ![p].at = "send", ![p].token = EnvToken]
                    ELSE IF Bound(file.tokens[b], b)
                    THEN [session EXCEPT ![p].at = "send", ![p].stored = TRUE,
                                         ![p].token = file.tokens[b].token]
                    ELSE [session EXCEPT ![p] = NoSession]
    /\ UNCHANGED <<file, minimum, issuer, sent>>

\* Client.Do.
Send(p) ==
    /\ session[p].at = "send"
    /\ sent' = IF session[p].stored THEN sent \cup {<<session[p].token, session[p].base>>} ELSE sent
    /\ Over(p)
    /\ UNCHANGED <<file, minimum, issuer>>

\* A request that fails, a file that cannot be read or written, a process killed.
Quit(p) ==
    /\ session[p].at # "idle"
    /\ Over(p)
    /\ UNCHANGED <<file, minimum, issuer, sent>>

SessionStep(p, v) ==
    \/ RequestCode(p, v) \/ Approval(p, v) \/ LoadConfig(p) \/ SaveConfig(p)
    \/ Confirm(p) \/ ResolveCredential(p) \/ Send(p) \/ Quit(p)

\* A person copies an entry of the file under another server's key.
EditFile(a, b) ==
    /\ a # b /\ file.tokens[a] # Nothing /\ file.tokens[b] = Nothing
    /\ file' = [file EXCEPT !.tokens[b] = file.tokens[a]]
    /\ session' = [q \in Commands |-> IF session[q].at = "save"
                                      THEN [session[q] EXCEPT !.overtaken = TRUE] ELSE session[q]]
    /\ UNCHANGED <<minimum, issuer, sent>>

\* An administrator restarts a server with another min_cli_version.
SetMinimum(b, v) ==
    /\ minimum[b] # v
    /\ minimum' = [minimum EXCEPT ![b] = v]
    /\ UNCHANGED <<file, session, issuer, sent>>

-----------------------------------------------------------------------------
\* A stored token is sent to the server that issued it and to no other, however
\* the default moves, commands overlap or entries are moved by hand.
TokensGoHome == \A s \in sent : issuer[s[1]] = s[2]

\* What the store holds for a server is changed only by a login or logout for
\* that server, by a command that had read the file before another changed it,
\* or, where it holds nothing, by hand.
LoginsCoexist ==
    [][\A b \in Bases : file'.tokens[b] # file.tokens[b] =>
         IF \E p \in Commands : session[p].at = "save" /\ session'[p].at # "save"
         THEN \E p \in Commands :
                /\ session[p].at = "save" /\ session'[p].at # "save"
                /\ session[p].base = b \/ session[p].overtaken
         ELSE file.tokens[b] = Nothing]_configVars

=============================================================================
