-------------------------- MODULE SessionAuthority --------------------------
(***************************************************************************)
(* Sessions: what a handoff ticket turns into.                             *)
(*                                                                         *)
(* A handler of this part locks the rows it works on, so each transaction  *)
(* is one step.  The exchange of a ticket and the refresh of a token are   *)
(* two transactions each: the first prepares, then the access token is     *)
(* signed without any lock, and the second commits if nothing the token    *)
(* says has changed meanwhile.                                             *)
(*                                                                         *)
(*   seat        handoff_tickets.browser_session_id                        *)
(*   browser     project_browser_sessions                                  *)
(*   session     application_sessions                                      *)
(*   family      refresh_families                                          *)
(*   generation  refresh_token_generations                                 *)
(*   logout      project_browser_logout_interactions                       *)
(*   request     exchange and refresh requests in flight: process memory   *)
(*                                                                         *)
(* A login is exchanged at most once, so that a session, its family and    *)
(* its ticket all carry the name of their login.                           *)
(***************************************************************************)
EXTENDS HandoffTicket

CONSTANTS
    Browser, Request, Logout,
    IdleLifetime, BrowserLifetime,  \* eight hours and twenty-four
    SessionLifetime,                \* thirty days
    ReuseMaxAge, LogoutLifetime,
    MaxGeneration                   \* bound on the tokens of a family

ASSUME SessionAssumption ==
    /\ {IdleLifetime, BrowserLifetime, SessionLifetime, LogoutLifetime} \subseteq Nat \ {0}
    /\ ReuseMaxAge \in Nat /\ MaxGeneration \in Nat \ {0}
    /\ "none" \notin Browser /\ "none" \notin Login

VARIABLES seat, browser, session, family, generation, logout, request

rowVars == <<seat, browser, session, family, generation, logout>>
sessionVars == <<rowVars, request>>
authorityVars == <<controlVars, ticket, sessionVars>>

-----------------------------------------------------------------------------
(* Types *)

BrowserOwners == {"project", "user", "policy"}
SessionOwners == {"project", "user", "policy", "application"}
\* What an access token is made from, besides what the ticket or the session
\* stores and the commit compares again.
WorkOwners == {"profile", "signing"}

Revisions(S) == [o \in S |-> owner[o].revision]

BrowserSnapshot == [BrowserOwners -> Nat]
SessionSnapshot == [SessionOwners -> Nat]
WorkSnapshot    == [WorkOwners -> Nat]

BrowserRow == [status : {"none", "active", "terminated"}, revision : Nat,
               snap : BrowserSnapshot, authenticated : Nat, activity : Nat]

SessionRow == [status : {"none", "active", "revoked"}, revision : Nat,
               snap : SessionSnapshot, browser : Browser \cup {"none"}, expires : Nat]

FamilyRow == [status : {"none", "active", "revoked"}, revision : Nat, current : Nat]

\* "replayed" is consumed, with replay_detected_at set.
GenerationStatus == {"none", "current", "consumed", "replayed"}

LogoutRow == [status : {"none", "prepared", "csrf_bound", "consumed", "expired"},
              session : Login \cup {"none"}, sessionRevision : Nat,
              browser : Browser \cup {"none"}, browserRevision : Nat, expires : Nat]

RequestRow == [pc : {"idle", "exchange", "refresh", "exchanged", "rotated", "ended"},
               session : Login \cup {"none"}, generation : Nat, familyRevision : Nat,
               sessionRevision : Nat, snap : WorkSnapshot]

SessionTypeOK ==
    /\ ControlTypeOK /\ TicketTypeOK
    /\ seat \in [Login -> Browser \cup {"none"}]
    /\ browser \in [Browser -> BrowserRow]
    /\ session \in [Login -> SessionRow]
    /\ family \in [Login -> FamilyRow]
    /\ generation \in [Login -> [1..MaxGeneration -> GenerationStatus]]
    /\ logout \in [Logout -> LogoutRow]
    /\ request \in [Request -> RequestRow]

NoRequest == [pc |-> "idle", session |-> "none", generation |-> 0, familyRevision |-> 0,
              sessionRevision |-> 0, snap |-> [o \in WorkOwners |-> 0]]

SessionRowsInit ==
    /\ seat = [k \in Login |-> "none"]
    /\ browser = [b \in Browser |->
          [status |-> "none", revision |-> 0, snap |-> [o \in BrowserOwners |-> 0],
           authenticated |-> 0, activity |-> 0]]
    /\ session = [k \in Login |->
          [status |-> "none", revision |-> 0, snap |-> [o \in SessionOwners |-> 0],
           browser |-> "none", expires |-> 0]]
    /\ family = [k \in Login |-> [status |-> "none", revision |-> 0, current |-> 0]]
    /\ generation = [k \in Login |-> [g \in 1..MaxGeneration |-> "none"]]
    /\ logout = [i \in Logout |->
          [status |-> "none", session |-> "none", sessionRevision |-> 0,
           browser |-> "none", browserRevision |-> 0, expires |-> 0]]
    /\ request = [r \in Request |-> NoRequest]

SessionInit == ControlInit /\ TicketInit /\ SessionRowsInit

-----------------------------------------------------------------------------
(* What the handlers share.  A definition whose name ends in Mutant is the    *)
(* next one with a fault put in; no specification uses it.                    *)

\* absolute_expires_at and idle_expires_at of a browser session.
Absolute(b) == browser[b].authenticated + BrowserLifetime
Idle(b) == Lesser(browser[b].activity + IdleLifetime, Absolute(b))

BrowserLiveMutant(b, t) ==
    /\ browser[b].status = "active"
    /\ Absolute(b) > t
    /\ Current(BrowserOwners, browser[b].snap)
BrowserLive(b, t) ==
    /\ browser[b].status = "active"
    /\ Idle(b) > t /\ Absolute(b) > t
    /\ Current(BrowserOwners, browser[b].snap)

SessionCurrent(k, t) ==
    /\ session[k].status = "active" /\ session[k].expires > t
    /\ Current(SessionOwners, session[k].snap)

TerminateBrowser(b) ==
    browser' = [browser EXCEPT ![b].status = "terminated", ![b].revision = @ + 1]

RevokeSession(k) ==
    session' = IF session[k].status = "active"
               THEN [session EXCEPT ![k].status = "revoked", ![k].revision = @ + 1]
               ELSE session

RevokeFamily(k) ==
    family' = IF family[k].status = "active"
              THEN [family EXCEPT ![k].status = "revoked", ![k].revision = @ + 1]
              ELSE family

-----------------------------------------------------------------------------
(* Browser sessions *)

\* rotate_or_create_browser_session.  An active session of the same user takes
\* the new authentication even when it has expired.
SignInBrowser(b, t) ==
    /\ browser[b].status \in {"none", "active"}
    /\ browser' = [browser EXCEPT ![b] =
          [status |-> "active", revision |-> @.revision + 1, snap |-> Revisions(BrowserOwners),
           authenticated |-> t, activity |-> t]]

\* Its other branch: another user signs in with this browser's credential.
OtherUserSignsIn(b) ==
    /\ browser[b].status = "active"
    /\ TerminateBrowser(b)
    /\ UNCHANGED <<controlVars, ticket, seat, session, family, generation, logout, request>>

\* confirm_browser_session_reuse does not count as an authentication.
ReuseBrowser(b, t) ==
    /\ BrowserLive(b, t)
    /\ browser[b].authenticated <= t /\ t <= browser[b].authenticated + ReuseMaxAge
    /\ browser' = [browser EXCEPT ![b].revision = @ + 1,
                                  ![b].activity = IF @ < t THEN t ELSE @]

\* The part of a completed login that concerns sessions.  The provider, the
\* email proof or the reuse is LoginTransaction's.
IssueHandoff(k, b, method, t) ==
    /\ ticket[k].status = "none"
    /\ \A o \in {"project", "application", "user"} : Active(o)
    /\ method = "provider" => Active("provider")
    /\ \E e \in t+1 .. t+HandoffLifetime :
          IssueTicket(k, e, [o \in TicketOwners |->
              IF o = "provider" /\ method # "provider" THEN 0 ELSE owner[o].revision])
    /\ seat' = [seat EXCEPT ![k] = b]
    /\ IF method = "session_reuse" THEN ReuseBrowser(b, t) ELSE SignInBrowser(b, t)
    /\ IF method = "provider" THEN ObservedProfile ELSE UNCHANGED owner
    /\ UNCHANGED <<now, session, family, generation, logout, request>>

\* The operator's revocation, with the revision of the row.
RevokeBrowserSession(b) ==
    /\ browser[b].status = "active"
    /\ TerminateBrowser(b)
    /\ UNCHANGED <<controlVars, ticket, seat, session, family, generation, logout, request>>

-----------------------------------------------------------------------------
(* The exchange of a ticket *)

PrepareHandoffExchange(r, k, t) ==
    /\ request[r].pc = "idle"
    /\ ticket[k].status = "issued" /\ ticket[k].expires > t
    /\ Current(HandoffOwners(k), ticket[k].snap)
    /\ BrowserLive(seat[k], t)
    /\ Active("signing")
    /\ request' = [request EXCEPT ![r] =
          [NoRequest EXCEPT !.pc = "exchange", !.session = k, !.snap = Revisions(WorkOwners)]]
    /\ UNCHANGED <<controlVars, ticket, rowVars>>

CommitExchange(r, t) ==
    LET k == request[r].session
    IN  /\ request[r].pc = "exchange"
        /\ \/ /\ ExpireTicket(k, t)
              /\ request' = [request EXCEPT ![r].pc = "ended"]
              /\ UNCHANGED <<session, family, generation>>
           \/ /\ SpendTicket(k, t)
              /\ BrowserLive(seat[k], t)
              /\ Current(WorkOwners, request[r].snap)
              /\ session' = [session EXCEPT ![k] =
                    [status |-> "active", revision |-> 1, snap |-> Revisions(SessionOwners),
                     browser |-> seat[k], expires |-> t + SessionLifetime]]
              /\ family' = [family EXCEPT ![k] =
                    [status |-> "active", revision |-> 1, current |-> 1]]
              /\ generation' = [generation EXCEPT ![k][1] = "current"]
              /\ request' = [request EXCEPT ![r].pc = "exchanged"]
        /\ UNCHANGED <<controlVars, seat, browser, logout>>

-----------------------------------------------------------------------------
(* Refresh *)

Spent(k, g) == generation[k][g] \in {"consumed", "replayed"}

\* Only the family is revoked; the session stays as it is.
RecordRefreshReplayMutant(k, g) ==
    /\ generation' = [generation EXCEPT ![k][g] = "replayed"]
    /\ UNCHANGED family
RecordRefreshReplay(k, g) ==
    /\ generation' = [generation EXCEPT ![k][g] = "replayed"]
    /\ RevokeFamily(k)

\* What the preparation and the rotation both require.
RefreshAdmittedMutant(k, g, t) ==
    /\ generation[k][g] = "current" /\ family[k].status = "active" /\ g = family[k].current
    /\ session[k].expires > t
    /\ BrowserLive(session[k].browser, t)
RefreshAdmitted(k, g, t) ==
    /\ generation[k][g] = "current" /\ family[k].status = "active" /\ g = family[k].current
    /\ SessionCurrent(k, t)
    /\ BrowserLive(session[k].browser, t)

PrepareRefreshRotation(r, k, g, t) ==
    /\ request[r].pc = "idle"
    /\ \/ /\ Spent(k, g)
          /\ RecordRefreshReplay(k, g)
          /\ request' = [request EXCEPT ![r].pc = "ended"]
       \/ /\ RefreshAdmitted(k, g, t) /\ Active("signing")
          /\ request' = [request EXCEPT ![r] =
                [pc |-> "refresh", session |-> k, generation |-> g,
                 familyRevision |-> family[k].revision, sessionRevision |-> session[k].revision,
                 snap |-> Revisions(WorkOwners)]]
          /\ UNCHANGED <<generation, family>>
    /\ UNCHANGED <<controlVars, ticket, seat, browser, session, logout>>

RotateRefreshTokenMutant(r, t) ==
    LET k == request[r].session
        g == request[r].generation
    IN  /\ request[r].pc = "refresh" /\ g < MaxGeneration
        /\ family[k].status = "active" /\ SessionCurrent(k, t)
        /\ BrowserLive(session[k].browser, t)
        /\ generation' = [generation EXCEPT ![k][g] = "consumed", ![k][g + 1] = "current"]
        /\ family' = [family EXCEPT ![k].current = g + 1, ![k].revision = @ + 1]
        /\ request' = [request EXCEPT ![r].pc = "rotated"]
        /\ UNCHANGED <<controlVars, ticket, seat, browser, session, logout>>
RotateRefreshToken(r, t) ==
    LET k == request[r].session
        g == request[r].generation
    IN  /\ request[r].pc = "refresh"
        /\ \/ /\ Spent(k, g)
              /\ RecordRefreshReplay(k, g)
              /\ request' = [request EXCEPT ![r].pc = "ended"]
           \/ /\ g < MaxGeneration
              /\ RefreshAdmitted(k, g, t)
              /\ family[k].revision = request[r].familyRevision
              /\ session[k].revision = request[r].sessionRevision
              /\ Current(WorkOwners, request[r].snap)
              /\ generation' = [generation EXCEPT ![k][g] = "consumed", ![k][g + 1] = "current"]
              /\ family' = [family EXCEPT ![k].current = g + 1, ![k].revision = @ + 1]
              /\ request' = [request EXCEPT ![r].pc = "rotated"]
        /\ UNCHANGED <<controlVars, ticket, seat, browser, session, logout>>

\* Signing failed, the commit was refused, or the replica stopped.
EndRequest(r) ==
    /\ request[r].pc \in {"exchange", "refresh"}
    /\ request' = [request EXCEPT ![r].pc = "ended"]
    /\ UNCHANGED <<controlVars, ticket, rowVars>>

-----------------------------------------------------------------------------
(* The end of a session *)

LogoutApplicationSession(k) ==
    /\ session[k].status # "none"
    /\ RevokeSession(k) /\ RevokeFamily(k)
    /\ UNCHANGED <<controlVars, ticket, seat, browser, generation, logout, request>>

\* The operator's revocation leaves the family as it is.
RevokeApplicationSession(k) ==
    /\ session[k].status = "active"
    /\ RevokeSession(k)
    /\ UNCHANGED <<controlVars, ticket, seat, browser, family, generation, logout, request>>

PrepareBrowserLogout(i, k, t) ==
    LET b == session[k].browser
        e == Lesser(t + LogoutLifetime, Lesser(session[k].expires, Idle(b)))
    IN  /\ logout[i].status = "none"
        /\ SessionCurrent(k, t) /\ BrowserLive(b, t)
        /\ logout' = [logout EXCEPT ![i] =
              [status |-> "prepared", session |-> k, sessionRevision |-> session[k].revision,
               browser |-> b, browserRevision |-> browser[b].revision, expires |-> e]]
        /\ UNCHANGED <<controlVars, ticket, seat, browser, session, family, generation, request>>

ExpireBrowserLogout(i, t) ==
    /\ logout[i].status \in {"prepared", "csrf_bound"} /\ logout[i].expires <= t
    /\ logout' = [logout EXCEPT ![i].status = "expired"]
    /\ UNCHANGED browser

\* Everything is still as the interaction was prepared.
LogoutAdmittedMutant(i, status, t) ==
    LET k == logout[i].session
        b == logout[i].browser
    IN  /\ logout[i].status = status /\ logout[i].expires > t
        /\ SessionCurrent(k, t) /\ session[k].browser = b
        /\ BrowserLive(b, t)
LogoutAdmitted(i, status, t) ==
    LET k == logout[i].session
        b == logout[i].browser
    IN  /\ logout[i].status = status /\ logout[i].expires > t
        /\ SessionCurrent(k, t) /\ session[k].revision = logout[i].sessionRevision
        /\ session[k].browser = b
        /\ BrowserLive(b, t) /\ browser[b].revision = logout[i].browserRevision

BindBrowserLogout(i, t) ==
    /\ \/ ExpireBrowserLogout(i, t)
       \/ /\ LogoutAdmitted(i, "prepared", t)
          /\ logout' = [logout EXCEPT ![i].status = "csrf_bound"]
          /\ UNCHANGED browser
    /\ UNCHANGED <<controlVars, ticket, seat, session, family, generation, request>>

ConfirmBrowserLogout(i, t) ==
    /\ \/ ExpireBrowserLogout(i, t)
       \/ /\ LogoutAdmitted(i, "csrf_bound", t)
          /\ TerminateBrowser(logout[i].browser)
          /\ logout' = [logout EXCEPT ![i].status = "consumed"]
    /\ UNCHANGED <<controlVars, ticket, seat, session, family, generation, request>>

-----------------------------------------------------------------------------
(* Specification *)

BrowserStep(b) == OtherUserSignsIn(b) \/ RevokeBrowserSession(b)

RequestStep(r, t) ==
    \/ \E k \in Login : \/ PrepareHandoffExchange(r, k, t)
                        \/ \E g \in 1..MaxGeneration : PrepareRefreshRotation(r, k, g, t)
    \/ RotateRefreshToken(r, t) \/ EndRequest(r)

LogoutStep(i, t) ==
    \/ \E k \in Login : PrepareBrowserLogout(i, k, t)
    \/ BindBrowserLogout(i, t) \/ ConfirmBrowserLogout(i, t)

EndOfSession(k) == LogoutApplicationSession(k) \/ RevokeApplicationSession(k)

\* The steps that concern no login.
SessionStep ==
    \/ \E b \in Browser : BrowserStep(b)
    \/ \E k \in Login : EndOfSession(k)
    \/ \E t \in ClockReading, r \in Request : RequestStep(r, t)
    \/ \E t \in ClockReading, i \in Logout : LogoutStep(i, t)

SessionNext ==
    \/ ControlNext /\ UNCHANGED <<ticket, sessionVars>>
    \/ SessionStep
    \/ \E t \in ClockReading, k \in Login, b \in Browser,
          method \in {"provider", "email", "session_reuse"} : IssueHandoff(k, b, method, t)
    \/ \E t \in ClockReading, r \in Request : CommitExchange(r, t)

SessionSpec == SessionInit /\ [][SessionNext]_authorityVars

-----------------------------------------------------------------------------
(* Properties *)

\* The tokens of a family and its row, which prepare_refresh_rotation,
\* rotate_refresh_token and record_refresh_replay write: exactly the newest
\* token is current, all older ones are spent, and a family of which a spent
\* token turned up again is revoked.
TokensMatchFamily ==
    \A k \in Login, g \in 1..MaxGeneration :
        /\ generation[k][g] = "current" <=> g = family[k].current
        /\ Spent(k, g) <=> g < family[k].current
        /\ generation[k][g] = "replayed" => family[k].status = "revoked"

\* The session is over: it or its family is revoked, its browser session is
\* terminated, or something it was created under has changed.
Over(k) ==
    \/ session[k].status = "revoked" \/ family[k].status = "revoked"
    \/ browser[session[k].browser].status = "terminated"
    \/ ~Current(SessionOwners, session[k].snap)

\* Over is over.  Nothing brings an ended session back, neither enabling what
\* was disabled nor a new authentication in the same browser, and its family
\* never gets another token, although the operator's revocation leaves the
\* family active, a browser logout touches neither, and a disabled user or a
\* new policy touches no row of the session at all.
OverIsOver ==
    [][\A k \in Login : session[k].status # "none" /\ Over(k) =>
          /\ Over(k)'
          /\ family'[k].current = family[k].current]_authorityVars

\* What a request prepared can no longer be committed as it was signed.
Overtaken(r) ==
    LET k == request[r].session
    IN  \/ ~Current(WorkOwners, request[r].snap)
        \/ /\ request[r].pc = "refresh"
           /\ \/ family[k].revision # request[r].familyRevision
              \/ session[k].revision # request[r].sessionRevision

\* A prepared request that was overtaken while its token was being signed (by
\* a key rotation, a new profile, another rotation or a logout) stays
\* overtaken, and its token is never handed out (lock_signing_epoch and the
\* comparisons of commit_handoff_exchange and rotate_refresh_token).
OvertakenWorkIsLost ==
    [][\A r \in Request : request[r].pc \in {"exchange", "refresh"} /\ Overtaken(r) =>
          \/ request'[r].pc = "ended"
          \/ request'[r] = request[r] /\ Overtaken(r)']_authorityVars

\* A family gets a token only while its session and its browser session are
\* unexpired, but for the age of the request's clock reading.
TokensInTime ==
    [][\A k \in Login : family[k].current > 0 /\ family'[k].current # family[k].current =>
          /\ now < session[k].expires + MaxClockLag
          /\ now < Idle(session[k].browser) + MaxClockLag]_authorityVars

\* A confirmed browser logout ended exactly the state of the browser session it
\* was prepared for, which nothing has changed since: a logout left open while
\* the browser authenticates again does not end the new authentication.
LogoutEndsWhatItSaw ==
    \A i \in Logout : logout[i].status = "consumed" =>
        /\ browser[logout[i].browser].status = "terminated"
        /\ browser[logout[i].browser].revision = logout[i].browserRevision + 1

Chains == INSTANCE TokenChain
             WITH Chain <- Login, Holder <- Request,
                  head   <- [k \in Login |-> family[k].current],
                  cut    <- [k \in Login |-> family[k].status = "revoked"],
                  handed <- [r \in Request |->
                               IF request[r].pc = "exchanged" THEN <<request[r].session, 1>>
                               ELSE IF request[r].pc = "rotated"
                                    THEN <<request[r].session, request[r].generation + 1>>
                                    ELSE <<>>]

\* Refresh families keep the promise of TokenChain, whatever requests present
\* the same token at once and whatever they prepared it under.
KeepsChain == Chains!Spec
=============================================================================
