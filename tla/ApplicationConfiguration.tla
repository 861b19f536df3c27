---------------------- MODULE ApplicationConfiguration ----------------------
(***************************************************************************)
(* The redirects and origins of the Applications of a Project: how         *)
(* operators read and replace them, and how sign-ins and the requests of   *)
(* browsers are held to them.                                              *)
(*                                                                         *)
(* A record is read in four statements outside any transaction: the row,   *)
(* the redirects, the origins, the publishable keys.  A command carries    *)
(* the security revision of the record its operator last read.  A request  *)
(* from a browser is checked in transactions of its own before and after   *)
(* the one that does its work.                                             *)
(*                                                                         *)
(* The Project is active throughout (ControlPlane has its revisions).      *)
(* Display names are left out: their own revision fences them as the       *)
(* security revision does the configuration.  A sign-in, its ticket and    *)
(* its session are one row here; how they end by themselves is in          *)
(* LoginTransaction, HandoffTicket and SessionAuthority.                   *)
(***************************************************************************)
EXTENDS Naturals

CONSTANTS Applications, Redirects, Origins, Operators, Requests, Logins,
          MaxRevision,     \* bound on the security revision
          None

ConfigurationAssumption ==
    /\ MaxRevision \in Nat \ {0}
    /\ None \notin Applications \cup Redirects \cup Origins \cup Logins

VARIABLES app,       \* the rows of every Application
          reader,    \* the record every operator has, or is reading
          login,     \* sign-ins with their sessions
          request,   \* requests of browsers and of backends
          seen       \* auxiliary: origins allowed at some moment of a request

configurationVars == <<app, reader, login, request, seen>>

---------------------------------------------------------------------------
(* Operators. *)

Active(a) == app[a].status = "active"

Configuration(a) == [redirects |-> app[a].redirects, origins |-> app[a].origins]

Empty == [redirects |-> {}, origins |-> {}]

Unread == [stage |-> "none", app |-> None, security |-> 0, shown |-> Empty]

Allowed == {p \in Applications \X Origins : Active(p[1]) /\ p[2] \in app[p[1]].origins}

InFlight(q) == request[q].stage \notin {"idle", "answered"}

\* Requests that are under way see what becomes allowed.
Watch == seen' = [q \in Requests |-> IF InFlight(q) THEN seen[q] \cup Allowed' ELSE seen[q]]

\* Creation answers with the record it stored, now and when it is repeated.
CreateApplication(op, a) ==
    /\ app' = [app EXCEPT ![a] = IF @.status = "absent"
                                 THEN [status |-> "active", security |-> 1, redirects |-> {},
                                       origins |-> {}, key |-> TRUE]
                                 ELSE @]
    /\ reader' = [reader EXCEPT ![op] =
           [stage |-> "loaded", app |-> a, security |-> 1, shown |-> Empty]]
    /\ UNCHANGED <<login, request, seen>>

GetApplication(op, a) ==
    /\ app[a].status # "absent"
    /\ reader' = [reader EXCEPT ![op] = [Unread EXCEPT !.stage = "row", !.app = a]]
    /\ UNCHANGED <<app, login, request, seen>>

\* Metadata is updated in a transaction that returns the row it wrote; the
\* rest of the record is read afterwards.
UpdateApplication(op) ==
    LET a == reader[op].app
    IN /\ reader[op].stage = "loaded" /\ Active(a)
       /\ reader' = [reader EXCEPT ![op] =
              [Unread EXCEPT !.stage = "redirects", !.app = a, !.security = app[a].security]]
       /\ UNCHANGED <<app, login, request, seen>>

ReadRow(op) ==
    /\ reader[op].stage = "row"
    /\ reader' = [reader EXCEPT ![op].stage = "redirects",
                                ![op].security = app[reader[op].app].security]
    /\ UNCHANGED <<app, login, request, seen>>

ReadRedirects(op) ==
    /\ reader[op].stage = "redirects"
    /\ reader' = [reader EXCEPT ![op].stage = "origins",
                                ![op].shown.redirects = app[reader[op].app].redirects]
    /\ UNCHANGED <<app, login, request, seen>>

\* Mutant: the row is read last.
ReadOriginsMutant(op) ==
    /\ reader[op].stage = "origins"
    /\ reader' = [reader EXCEPT ![op].stage = "loaded",
                                ![op].shown.origins = app[reader[op].app].origins,
                                ![op].security = app[reader[op].app].security]
    /\ UNCHANGED <<app, login, request, seen>>

\* The publishable keys that follow decide nothing.
ReadOrigins(op) ==
    /\ reader[op].stage = "origins"
    /\ reader' = [reader EXCEPT ![op].stage = "loaded",
                                ![op].shown.origins = app[reader[op].app].origins]
    /\ UNCHANGED <<app, login, request, seen>>

\* The row is locked and its revision compared with the operator's.
Fenced(op) ==
    LET a == reader[op].app
    IN /\ reader[op].stage = "loaded"
       /\ Active(a)
       /\ app[a].security = reader[op].security
       /\ app[a].security < MaxRevision

\* Both sets are replaced and the record is read again for the answer.
ReplaceApplicationConfiguration(op, configuration) ==
    LET a == reader[op].app
    IN /\ Fenced(op)
       /\ app' = [app EXCEPT ![a].security = @ + 1,
                             ![a].redirects = configuration.redirects,
                             ![a].origins = configuration.origins]
       /\ Watch
       /\ reader' = [reader EXCEPT ![op] = [Unread EXCEPT !.stage = "row", !.app = a]]
       /\ UNCHANGED <<login, request>>

DisableApplication(op) ==
    LET a == reader[op].app
    IN /\ Fenced(op)
       /\ app' = [app EXCEPT ![a].status = "disabled", ![a].security = @ + 1, ![a].key = FALSE]
       /\ reader' = [reader EXCEPT ![op] = [Unread EXCEPT !.stage = "row", !.app = a]]
       /\ UNCHANGED <<login, request, seen>>

---------------------------------------------------------------------------
(* Requests.  Those that name an Application are checked against it before *)
(* their work; those that bear a token against any Application of the      *)
(* Project first, and against the token's own once it is known.            *)

Naming == {"start", "exchange", "refresh"}
Bearing == {"user", "logout", "sign_out"}

Idle == [kind |-> None, stage |-> "idle", app |-> None, origin |-> None, login |-> None,
         redirect |-> None, security |-> 0]

Advance(q, stage) == request' = [request EXCEPT ![q].stage = stage]

\* A request without an Origin header is not a browser's and skips the checks.
Begin(q, r) ==
    /\ ~InFlight(q)
    /\ request' = [request EXCEPT ![q] = r]
    /\ seen' = [seen EXCEPT ![q] = Allowed]
    /\ UNCHANGED <<app, reader, login>>

BeginNaming(q, kind, a, origin, l, redirect) ==
    /\ (kind = "start") = (l = None) /\ (kind = "start") = (redirect # None)
    /\ Begin(q, [Idle EXCEPT !.kind = kind, !.app = a, !.origin = origin, !.login = l,
                             !.redirect = redirect,
                             !.stage = IF origin = None THEN "work" ELSE "resolve"])

BeginBearing(q, kind, origin, l) ==
    /\ login[l].session # "none"
    /\ Begin(q, [Idle EXCEPT !.kind = kind, !.app = login[l].app, !.origin = origin, !.login = l,
                             !.stage = IF origin = None THEN "authenticate" ELSE "project"])

\* Every failed check ends the request with an error, and so does a fault.
Refuse(q) ==
    /\ InFlight(q)
    /\ request' = [request EXCEPT ![q] = Idle]
    /\ seen' = [seen EXCEPT ![q] = {}]
    /\ UNCHANGED <<app, reader, login>>

ResolveApplication(q) ==
    /\ request[q].stage = "resolve"
    /\ Active(request[q].app) /\ app[request[q].app].key
    /\ Advance(q, "origin")
    /\ UNCHANGED <<app, reader, login, seen>>

\* Mutant: an origin of any Application of the Project will do.
ExactApplicationOriginMutant(a, origin) == \E b \in Applications : <<b, origin>> \in Allowed

ExactApplicationOrigin(a, origin) == <<a, origin>> \in Allowed

ApplicationCorsOrigin(q) ==
    /\ request[q].stage = "origin"
    /\ ExactApplicationOrigin(request[q].app, request[q].origin)
    /\ Advance(q, "work")
    /\ UNCHANGED <<app, reader, login, seen>>

ProjectOriginAllowed(origin) == \E a \in Applications : <<a, origin>> \in Allowed

ProjectCorsOrigin(q) ==
    /\ request[q].stage = "project"
    /\ ProjectOriginAllowed(request[q].origin)
    /\ Advance(q, "authenticate")
    /\ UNCHANGED <<app, reader, login, seen>>

\* The session an access token stands for, under its Application's present
\* revision; signing out of a session twice is allowed.
CurrentSession(l, allowRevoked) ==
    /\ login[l].session = "active" \/ (allowRevoked /\ login[l].session = "revoked")
    /\ Active(login[l].app)
    /\ login[l].security = app[login[l].app].security

Authenticate(q) ==
    /\ request[q].stage = "authenticate"
    /\ CurrentSession(request[q].login, request[q].kind = "logout")
    /\ Advance(q, IF request[q].origin = None THEN "work" ELSE "session_origin")
    /\ UNCHANGED <<app, reader, login, seen>>

SessionOrigin(q) ==
    /\ request[q].stage = "session_origin"
    /\ ExactApplicationOrigin(request[q].app, request[q].origin)
    /\ Advance(q, "work")
    /\ UNCHANGED <<app, reader, login, seen>>

At(q, kind) == request[q].kind = kind /\ request[q].stage = "work"

\* The start of a sign-in reads what it needs in one transaction and writes
\* the row in another, which checks it all again.
PrepareLoginStart(q) ==
    LET a == request[q].app
    IN /\ At(q, "start")
       /\ Active(a) /\ app[a].key /\ request[q].redirect \in app[a].redirects
       /\ request' = [request EXCEPT ![q].stage = "create", ![q].security = app[a].security]
       /\ UNCHANGED <<app, reader, login, seen>>

CreateLoginTransaction(q, l) ==
    LET a == request[q].app
    IN /\ request[q].stage = "create" /\ login[l].status = "none"
       /\ Active(a) /\ app[a].security = request[q].security
       /\ request[q].redirect \in app[a].redirects
       /\ login' = [login EXCEPT ![l] = [@ EXCEPT !.status = "open", !.app = a,
                                                  !.redirect = request[q].redirect,
                                                  !.security = request[q].security]]
       /\ Advance(q, "answered")
       /\ UNCHANGED <<app, reader, seen>>

CurrentOwners(l) ==
    Active(login[l].app) /\ app[login[l].app].security = login[l].security

\* The browser is sent to the redirect the sign-in was started with.
CompleteLogin(l) ==
    /\ login[l].status = "open" /\ CurrentOwners(l)
    /\ login' = [login EXCEPT ![l].status = "handed_off"]
    /\ UNCHANGED <<app, reader, request, seen>>

ExchangeHandoff(q) ==
    LET l == request[q].login
    IN /\ At(q, "exchange")
       /\ login[l].status = "handed_off" /\ login[l].session = "none"
       /\ login[l].app = request[q].app /\ app[request[q].app].key
       /\ CurrentOwners(l)
       /\ login' = [login EXCEPT ![l].session = "active"]
       /\ Advance(q, "answered")
       /\ UNCHANGED <<app, reader, seen>>

RefreshSession(q) ==
    LET l == request[q].login
    IN /\ At(q, "refresh")
       /\ login[l].session = "active"
       /\ login[l].app = request[q].app /\ app[request[q].app].key
       /\ CurrentOwners(l)
       /\ Advance(q, "answered")
       /\ UNCHANGED <<app, reader, login, seen>>

CurrentUser(q) ==
    /\ At(q, "user")
    /\ Advance(q, "answered")
    /\ UNCHANGED <<app, reader, login, seen>>

LogoutApplicationSession(q) ==
    /\ At(q, "logout")
    /\ login' = [login EXCEPT ![request[q].login].session = "revoked"]
    /\ Advance(q, "answered")
    /\ UNCHANGED <<app, reader, seen>>

\* The token is looked up again for the preparation.
PrepareBrowserLogout(q) ==
    /\ At(q, "sign_out")
    /\ CurrentSession(request[q].login, FALSE)
    /\ Advance(q, "answered")
    /\ UNCHANGED <<app, reader, login, seen>>

---------------------------------------------------------------------------

ConfigurationInit ==
    /\ app = [a \in Applications |-> [status |-> "absent", security |-> 0, redirects |-> {},
                                      origins |-> {}, key |-> FALSE]]
    /\ reader = [op \in Operators |-> Unread]
    /\ login = [l \in Logins |-> [status |-> "none", app |-> None, redirect |-> None,
                                  security |-> 0, session |-> "none"]]
    /\ request = [q \in Requests |-> Idle]
    /\ seen = [q \in Requests |-> {}]

Configure(op) ==
    \/ \E a \in Applications : CreateApplication(op, a) \/ GetApplication(op, a)
    \/ ReadRow(op) \/ ReadRedirects(op) \/ ReadOrigins(op)
    \/ UpdateApplication(op) \/ DisableApplication(op)
    \/ \E redirects \in SUBSET Redirects, origins \in SUBSET Origins :
           ReplaceApplicationConfiguration(op, [redirects |-> redirects, origins |-> origins])

Serve(q) ==
    \/ ResolveApplication(q) \/ ApplicationCorsOrigin(q)
    \/ ProjectCorsOrigin(q) \/ Authenticate(q) \/ SessionOrigin(q)
    \/ PrepareLoginStart(q) \/ \E l \in Logins : CreateLoginTransaction(q, l)
    \/ ExchangeHandoff(q) \/ RefreshSession(q)
    \/ CurrentUser(q) \/ LogoutApplicationSession(q) \/ PrepareBrowserLogout(q)
    \/ Refuse(q)

Ask(q) ==
    \E origin \in Origins \cup {None} :
        \/ \E kind \in Naming, a \in Applications, l \in Logins \cup {None},
              redirect \in Redirects \cup {None} :
               BeginNaming(q, kind, a, origin, l, redirect)
        \/ \E kind \in Bearing, l \in Logins : BeginBearing(q, kind, origin, l)

ConfigurationNext ==
    \/ \E op \in Operators : Configure(op)
    \/ \E q \in Requests : Ask(q) \/ Serve(q)
    \/ \E l \in Logins : CompleteLogin(l)

ConfigurationSpec == ConfigurationInit /\ [][ConfigurationNext]_configurationVars

---------------------------------------------------------------------------
(* Properties. *)

\* The shapes of the state; an Application has a usable publishable key
\* exactly as long as it is active.
ConfigurationTypeOK ==
    /\ \A a \in Applications :
        /\ app[a].status \in {"absent", "active", "disabled"} /\ app[a].security \in 0..MaxRevision
        /\ app[a].redirects \subseteq Redirects /\ app[a].origins \subseteq Origins
        /\ app[a].key = Active(a)
    /\ \A l \in Logins : login[l].status # "none" => login[l].security <= app[login[l].app].security

\* A replacement never overwrites redirects or origins its operator was not
\* shown, although the record was read in several statements while others
\* replaced it (application_record reads the row first).
ReplacesWhatWasRead ==
    \A op \in Operators :
        LET a == reader[op].app
        IN (reader[op].stage = "loaded" /\ reader'[op] # reader[op]
                /\ app'[a].security # app[a].security)
               => reader[op].shown = Configuration(a)

\* A browser is sent to a redirect, and credentials are issued for the
\* sign-in that went there, only while the active Application has that
\* redirect configured (lock_login_application_owners, exchange and refresh).
RedirectStillConfigured ==
    /\ \A l \in Logins :
          (login'[l].status = "handed_off" /\ login[l].status # "handed_off")
              => login[l].redirect \in app[login[l].app].redirects
    /\ \A q \in Requests :
          (request[q].kind \in {"exchange", "refresh"} /\ request[q].stage = "work"
               /\ request'[q].stage = "answered")
              => /\ Active(request[q].app)
                 /\ login[request[q].login].redirect \in app[request[q].app].redirects

\* What a browser is answered goes to an origin that the Application the
\* answer is about allowed at some moment of the request: an origin of a
\* sibling Application never receives it (application_cors_origin,
\* application_session_origin_allowed).
AnsweredOriginWasAllowed ==
    \A q \in Requests :
        (request[q].stage = "answered" /\ request[q].origin # None)
            => <<request[q].app, request[q].origin>> \in seen[q]

ConfigurationSafe == ConfigurationTypeOK /\ AnsweredOriginWasAllowed
=============================================================================
