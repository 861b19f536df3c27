------------------------------ MODULE Retention ------------------------------
(***************************************************************************)
(* The prune job of maintenance.rs beside the handlers of sessions.        *)
(*                                                                         *)
(* A job goes through the classes of rows in a fixed order, a transaction  *)
(* each.  A class is one statement: it reads a snapshot, in which it picks *)
(* at most a batch of rows that are past retention and that nothing in the *)
(* snapshot refers to; it then locks each row it picked, which reads the   *)
(* row's own columns again when somebody changed it; and it deletes them.  *)
(* What referred to a row in the meantime is not read again: a foreign key *)
(* that restricts makes the statement fail, and the whole job with it.     *)
(*                                                                         *)
(* The handlers are those of SessionAuthority, with clocks of their own;   *)
(* the job uses the database's.  A deleted row has status "none" again.    *)
(* The webhook classes are the statements of the webhook worker's          *)
(* maintenance, which WebhookDelivery has.                                 *)
(***************************************************************************)
EXTENDS SessionAuthority, FiniteSets, Sequences

CONSTANTS
    Job,             \* prune jobs that run at the same time
    Grace,           \* twenty-four hours
    Skew,            \* allowed_clock_skew_seconds of a family
    LoginTail,       \* how long a login outlives its ticket, at most
    Batch,           \* rows of a class that one job deletes, at most
    LastRequest      \* bound: the time of the last request to a handler

RetentionAssumption ==
    /\ {Grace, Skew, LoginTail, LastRequest} \subseteq Nat
    /\ Batch \in Nat \ {0}

VARIABLES
    login,   \* [Login -> login_transactions, reduced to expires_at]
    job      \* [Job -> the class a job is at, and the rows it has picked]

retentionVars == <<login, job>>
allVars == <<authorityVars, retentionVars>>

-----------------------------------------------------------------------------
(* Rows *)

Classes == <<"login", "logout", "generation", "session", "browser">>

Row == [class : {"login", "session"}, of : Login]
       \cup [class : {"logout"}, of : Logout]
       \cup [class : {"generation"}, of : Login \X (1..MaxGeneration)]
       \cup [class : {"browser"}, of : Browser]

Exists(r) ==
    CASE r.class = "login" -> login[r.of].state = "kept"
      [] r.class = "logout" -> logout[r.of].status # "none"
      [] r.class = "generation" -> generation[r.of[1]][r.of[2]] # "none"
      [] r.class = "session" -> session[r.of].status # "none"
      [] r.class = "browser" -> browser[r.of].status # "none"

PassedMutant(deadline) == deadline <= now
Passed(deadline) == deadline + Grace <= now

GenerationElapsed(k) == session[k].expires + Skew <= now /\ Passed(session[k].expires)

\* What a class asks of the row itself: its retention is over.
Elapsed(r) ==
    CASE r.class = "login" -> Passed(login[r.of].ends)
      [] r.class = "logout" -> Passed(logout[r.of].expires)
      [] r.class = "generation" -> GenerationElapsed(r.of[1])
      [] r.class = "session" -> Passed(session[r.of].expires)
      [] r.class = "browser" -> Passed(Absolute(r.of))

LogoutOf(k) == {i \in Logout : logout[i].status # "none" /\ logout[i].session = k}

\* What keeps a browser session: the foreign keys without ON DELETE.
ReferencesTo(b) ==
    {k \in Login : session[k].status # "none" /\ session[k].browser = b}
    \cup {i \in Logout : logout[i].status # "none" /\ logout[i].browser = b}
    \cup {k \in Login : ticket[k].status # "none" /\ seat[k] = b}

\* The NOT EXISTS of the classes.
Unreferenced(r) ==
    CASE r.class = "generation" -> LogoutOf(r.of[1]) = {}
      [] r.class = "session" ->
           LogoutOf(r.of) = {} /\ \A g \in 1..MaxGeneration : generation[r.of][g] = "none"
      [] r.class = "browser" -> ReferencesTo(r.of) = {}
      [] OTHER -> TRUE

-----------------------------------------------------------------------------
(* Types and the initial state *)

Start == [at |-> 1, picked |-> {}, failed |-> FALSE]

TypeOK ==
    /\ SessionTypeOK
    /\ login \in [Login -> [state : {"none", "kept", "deleted"}, ends : Nat]]
    /\ job \in [Job -> [at : 1..Len(Classes), picked : SUBSET Row, failed : BOOLEAN]]

RetentionInit ==
    /\ SessionInit
    /\ login = [k \in Login |-> [state |-> "none", ends |-> 0]]
    /\ job = [j \in Job |-> Start]

-----------------------------------------------------------------------------
(* The job *)

Following(at) == IF at = Len(Classes) THEN 1 ELSE at + 1

\* The common table expression "candidates", in the snapshot of the statement.
Candidates(class) ==
    {r \in Row : r.class = class /\ Exists(r) /\ Elapsed(r) /\ Unreferenced(r)}

Pick(j) ==
    LET found == Candidates(Classes[job[j].at])
    IN  /\ job[j].picked = {}
        /\ IF found = {}
           THEN job' = [job EXCEPT ![j].at = Following(@)]
           ELSE \E rows \in SUBSET found :
                   /\ \/ Cardinality(rows) = Batch
                      \/ rows = found /\ Cardinality(found) < Batch
                   /\ job' = [job EXCEPT ![j].picked = rows]
        /\ UNCHANGED <<authorityVars, login>>

\* FOR UPDATE SKIP LOCKED.
StillDueMutant(r) == Exists(r)
StillDue(r) == Exists(r) /\ Elapsed(r)

Unset(table, names, row) == [n \in DOMAIN table |-> IF n \in names THEN row ELSE table[n]]

\* Rows with what their deletion cascades to: the ticket of a login; the
\* family, the tokens and the logout interactions of a session.
Erase(rows) ==
    LET of(class) == {r.of : r \in {x \in rows : x.class = class}}
        logins == of("login")
        sessions == of("session")
    IN  /\ login' = [k \in Login |-> IF k \in logins THEN [login[k] EXCEPT !.state = "deleted"]
                                     ELSE login[k]]
        /\ ticket' = Unset(ticket, logins, [status |-> "none", expires |-> 0,
                                            snap |-> [o \in TicketOwners |-> 0]])
        /\ seat' = Unset(seat, logins, "none")
        /\ session' = Unset(session, sessions,
              [status |-> "none", revision |-> 0, snap |-> [o \in SessionOwners |-> 0],
               browser |-> "none", expires |-> 0])
        /\ family' = Unset(family, sessions, [status |-> "none", revision |-> 0, current |-> 0])
        /\ generation' = [k \in Login |-> [g \in 1..MaxGeneration |->
              IF k \in sessions \/ <<k, g>> \in of("generation") THEN "none"
              ELSE generation[k][g]]]
        /\ logout' = Unset(logout, of("logout") \cup UNION {LogoutOf(k) : k \in sessions},
              [status |-> "none", session |-> "none", sessionRevision |-> 0,
               browser |-> "none", browserRevision |-> 0, expires |-> 0])
        /\ browser' = Unset(browser, of("browser"),
              [status |-> "none", revision |-> 0, snap |-> [o \in BrowserOwners |-> 0],
               authenticated |-> 0, activity |-> 0])

Delete(j) ==
    LET rows == {r \in job[j].picked : StillDue(r)}
        restricted == \E r \in rows : r.class = "browser" /\ ReferencesTo(r.of) # {}
    IN  /\ job[j].picked # {}
        /\ Erase(IF restricted THEN {} ELSE rows)
        /\ job' = [job EXCEPT ![j] =
              [at |-> IF restricted THEN 1 ELSE Following(job[j].at), picked |-> {},
               failed |-> restricted]]
        /\ UNCHANGED <<controlVars, request>>

Prune(j) == Pick(j) \/ Delete(j)

\* The job process stops, or the statement runs into its time limit.
StopJob(j) ==
    /\ job[j].picked # {}
    /\ job' = [job EXCEPT ![j] = Start]
    /\ UNCHANGED <<authorityVars, login>>

-----------------------------------------------------------------------------
(* Specification *)

\* A completed login: its ticket ends with the login or before it.
CompleteLogin(k) ==
    /\ login[k].state = "none"
    /\ \E t \in ClockReading, b \in Browser, method \in {"email", "session_reuse"} :
          IssueHandoff(k, b, method, t)
    /\ \E tail \in 0..LoginTail :
          login' = [login EXCEPT ![k] = [state |-> "kept", ends |-> ticket'[k].expires + tail]]
    /\ UNCHANGED job

Handle ==
    /\ now <= LastRequest
    /\ \/ \E k \in Login : CompleteLogin(k)
       \/ /\ SessionStep \/ \E t \in ClockReading, r \in Request : CommitExchange(r, t)
          /\ UNCHANGED retentionVars

PassTime == Tick /\ UNCHANGED <<ticket, sessionVars, retentionVars>>

RetentionNext == Handle \/ PassTime \/ \E j \in Job : Prune(j) \/ StopJob(j)

RetentionSpec == RetentionInit /\ [][RetentionNext]_allVars

-----------------------------------------------------------------------------
(* Properties *)

\* The job never runs into a foreign key that restricts, which would keep it
\* from all later classes, although it looks for references before it locks.
\* A sign-in that gives an expired browser session a new life while the job has
\* picked it wins over the job, which reads the row again when it locks it; any
\* other reference needs a live browser session, by a clock that is behind by
\* less than the grace.
NeverRestricted == \A j \in Job : ~job[j].failed

\* Nothing a handler would still accept is deleted, by whatever clock the
\* handler reads: a ticket, a logout interaction, a session, a browser session.
NothingLiveGoes ==
    \A t \in ClockReading :
        /\ \A k \in Login : /\ (ticket[k].status # "none" /\ ticket'[k].status = "none")
                                  => ticket[k].expires <= t
                            /\ SessionCurrent(k, t) => session'[k].status # "none"
        /\ \A i \in Logout, status \in {"prepared", "csrf_bound"} :
              LogoutAdmitted(i, status, t) => logout'[i].status # "none"
        /\ \A b \in Browser : BrowserLive(b, t) => browser'[b].status # "none"

\* As long as a refresh may be accepted in a session, every token its family
\* ever had is known, so that using one again revokes the family.
ReplayStillKnown ==
    \A k \in Login, t \in ClockReading :
        SessionCurrent(k, t) => \A g \in 1..family[k].current : generation[k][g] # "none"

RetentionSafe == TypeOK /\ NeverRestricted /\ ReplayStillKnown
=============================================================================
