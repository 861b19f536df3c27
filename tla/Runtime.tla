------------------------------ MODULE Runtime ------------------------------
(***************************************************************************)
(* LoginTransaction and SessionAuthority as the one Runtime they are.      *)
(*                                                                         *)
(* They share the ticket, the owners and the clock, and three transactions *)
(* belong to both: the completion of a login also authenticates a browser  *)
(* session, the exchange of a ticket also completes the login, and its     *)
(* preparation also looks at the login.                                    *)
(***************************************************************************)
EXTENDS LoginTransaction, SessionAuthority

runtimeVars == <<vars, sessionVars>>

\* Steps of a login that issue no ticket.
LoginAlone ==
    /\ \/ \E t \in ClockReading, l \in Login : LoginRequest(l, t)
       \/ \E t \in ClockReading, c \in Callback : CallbackStep(c, t)
    /\ UNCHANGED <<ticket, sessionVars>>

\* Steps that issue one, by email proof, by reuse and by provider.  The
\* refused completions are in LoginAlone.
CompleteLogin(l, b, t) ==
    \/ /\ \E g \in 1..MaxGenerations : CompleteEmailProof(l, g, t)
       /\ IssueHandoff(l, b, "email", t)
    \/ /\ ConfirmBrowserSessionReuse(l, t)
       /\ IssueHandoff(l, b, "session_reuse", t)
    \/ \E c \in Callback :
          /\ callback[c].login = l
          /\ CompleteAuthenticatedIdentity(c, t)
          /\ IssueHandoff(l, b, "provider", t)

Exchange(r, t) ==
    /\ CommitExchange(r, t)
    /\ CommitHandoffExchange(request[r].session, t)

\* prepare_handoff_exchange refuses a login that is not waiting for it.
PreparedFromLogin ==
    \A r \in Request : request[r].pc = "idle" /\ request'[r].pc = "exchange"
        => login[request'[r].session].status = "handoff_issued"

SessionAlone ==
    /\ SessionStep
    /\ PreparedFromLogin
    /\ UNCHANGED <<login, challenge, callback>>

RuntimeInit == LoginInit /\ SessionRowsInit

RuntimeNext ==
    \/ ControlNext /\ UNCHANGED <<loginVars, sessionVars>>
    \/ LoginAlone
    \/ \E t \in ClockReading, l \in Login, b \in Browser : CompleteLogin(l, b, t)
    \/ \E t \in ClockReading, r \in Request : Exchange(r, t)
    \/ SessionAlone

RuntimeSpec == RuntimeInit /\ [][RuntimeNext]_runtimeVars

-----------------------------------------------------------------------------
(* Properties.                                                                *)

\* From the start of the login through the selection, the callback, the
\* completion and the exchange, nothing the login depended on has changed:
\* sessions exist for completed logins only, and stand on exactly the
\* revisions their login captured when it started.
SessionsInheritLogins ==
    \A l \in Login :
        /\ session[l].status # "none" <=> login[l].status = "completed"
        /\ session[l].status # "none" =>
              \A o \in {"project", "application", "policy"} :
                  session[l].snap[o] = login[l].snap[o]
=============================================================================
