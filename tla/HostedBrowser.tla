--------------------------- MODULE HostedBrowser ---------------------------
(***************************************************************************)
(* The hosted pages as browsers meet them.  A sign-in, an identity proof   *)
(* and a managed reauthorization are interactions that one browser binds   *)
(* and goes through; what ties the steps together are cookies, which       *)
(* answers set and clear.  Links, callback addresses and mails can be      *)
(* opened in any browser, answers are lost or arrive in another order than *)
(* they were given, and several tabs share one jar of cookies.             *)
(*                                                                         *)
(* An interaction's row is reduced to what admits the next request; how    *)
(* the rows change is the subject of LoginTransaction, IdentityMutation,   *)
(* ManagedReauthorization and MagicTransfer.  There is one Project, so one *)
(* session cookie.  A cookie's value is fresh for its interaction: holding *)
(* the cookie is knowing the value.  The credential of a browser session   *)
(* is named after the sign-in that issued it, and a session after the one  *)
(* that created it.  Answers on the way to one browser that say the same   *)
(* are one.                                                                *)
(***************************************************************************)
EXTENDS Naturals, FiniteSets

CONSTANTS Browsers, Users, Nobody,
          Logins, Proofs, Reauthorizations,  \* interactions by what owns them
          SameBrowserOnly,                   \* interactions whose mail link stays with its browser
          MaxAnswers                         \* bound on the answers on the way at once

Interactions == Logins \cup Proofs \cup Reauthorizations

HostedAssumption ==
    /\ Logins \cap (Proofs \cup Reauthorizations) = {} /\ Proofs \cap Reauthorizations = {}
    /\ SameBrowserOnly \subseteq Interactions
    /\ Nobody \notin Browsers \cup Users \cup Interactions
    /\ MaxAnswers \in Nat

VARIABLES status,     \* of every interaction
          claim,      \* the request that exchanges its provider code
          session,    \* browser sessions, by the sign-in that created them
          signOut,    \* the credential a prepared sign-out of a session is bound to
          jar,        \* the cookies of every browser
          wire,       \* answers on the way
          binder,     \* auxiliary: the browser that bound an interaction
          opened,     \* auxiliary: who opened the link mailed for it
          finisher,   \* auxiliary: whose request finished it, and how
          kept        \* auxiliary: cookies that reached the browser they were made for

hostedVars == <<status, claim, session, signOut, jar, wire, binder, opened, finisher, kept>>

---------------------------------------------------------------------------
(* Cookies. *)

InteractionCookie(i) == <<"interaction", i>>
ProofSlotCookie(i) == <<"proof_slot", i>>
TransferCookie(i) == <<"transfer", i>>

Cookies == {"interaction", "proof_slot", "transfer"} \X Interactions

Holds(b, cookie) == cookie \in jar[b].cookies

Answer(b, sets, clears) ==
    [to |-> b, sets |-> sets, clears |-> clears, signedIn |-> Nobody, signedOut |-> FALSE]

Reply(answer) == Cardinality(wire) < MaxAnswers /\ wire' = wire \cup {answer}

Settled(i) == status[i] \in {"done", "ended"}

---------------------------------------------------------------------------
(* The pages that start or resume an interaction. *)

\* The first navigation binds the interaction with a fresh credential; a
\* later one is admitted with that credential only and renews the cookie.
Shell(b, i) ==
    /\ ~Settled(i)
    /\ IF status[i] = "unbound"
       THEN /\ status' = [status EXCEPT ![i] = "bound"]
            /\ binder' = [binder EXCEPT ![i] = b]
       ELSE Holds(b, InteractionCookie(i)) /\ UNCHANGED <<status, binder>>
    /\ Reply(Answer(b, {InteractionCookie(i)}, {}))
    /\ UNCHANGED <<claim, session, signOut, jar, opened, finisher, kept>>

HostedInteractionShell(b, i) == i \in Logins /\ Shell(b, i)

IdentityMutationShell(b, i) == i \in Proofs /\ Shell(b, i)

ManagedReauthorizationShell(b, i) == i \in Reauthorizations /\ Shell(b, i)

---------------------------------------------------------------------------
(* Choosing how to prove who one is.  Every step wants the cookie. *)

Choose(b, i, next) ==
    /\ status[i] = "bound"
    /\ Holds(b, InteractionCookie(i))
    /\ status' = [status EXCEPT ![i] = next]
    /\ UNCHANGED <<claim, session, signOut, jar, binder, opened, finisher, kept>>

SelectProviderMethod(b, i) ==
    i \in Logins /\ Choose(b, i, "provider") /\ UNCHANGED wire

StartManagedReauthorization(b, i) ==
    i \in Reauthorizations /\ Choose(b, i, "provider") /\ UNCHANGED wire

\* The callback of a proof finds its cookie by the slot, not the interaction.
SelectIdentityMutationMethod(b, i) ==
    /\ i \in Proofs
    /\ \/ Choose(b, i, "provider") /\ Reply(Answer(b, {ProofSlotCookie(i)}, {}))
       \/ Choose(b, i, "email") /\ UNCHANGED wire

SelectEmailMethod(b, i) ==
    i \in Logins /\ Choose(b, i, "email") /\ UNCHANGED wire

\* A code and a link are mailed; the link can be opened anywhere.
EmailChallenge(b, i) ==
    /\ status[i] = "email"
    /\ Holds(b, InteractionCookie(i))
    /\ status' = [status EXCEPT ![i] = "mailed"]
    /\ UNCHANGED <<claim, session, signOut, jar, wire, binder, opened, finisher, kept>>

BeginEmailChallenge(b, i) == i \in Logins /\ EmailChallenge(b, i)

BeginIdentityMutationEmailChallenge(b, i) == i \in Proofs /\ EmailChallenge(b, i)

---------------------------------------------------------------------------
(* Finishing. *)

\* The session a credential stands for.
Presented(credential) ==
    {s \in Logins : session[s].status = "active" /\ session[s].credential = credential}

\* A sign-in of the same user gives the session the browser presented a new
\* credential; one of another user ends it.
RotateOrCreate(i, u, credential) ==
    LET same == {s \in Presented(credential) : session[s].user = u}
        other == Presented(credential) \ same
    IN session' = [s \in Logins |->
           IF s \in same THEN [session[s] EXCEPT !.credential = i]
           ELSE IF s \in other THEN [session[s] EXCEPT !.status = "terminated"]
           ELSE IF s = i /\ same = {} THEN [status |-> "active", user |-> u, credential |-> i]
           ELSE session[s]]

Finish(b, i, how) ==
    /\ status' = [status EXCEPT ![i] = IF i \in Proofs THEN "proved" ELSE "done"]
    /\ finisher' = [finisher EXCEPT ![i] = [browser |-> b, how |-> how]]

SignedIn(b, i, clears) == [Answer(b, {}, clears) EXCEPT !.signedIn = i]

VerifyEmailOtp(b, i, u) ==
    /\ i \in Logins /\ status[i] = "mailed"
    /\ Holds(b, InteractionCookie(i))
    /\ Finish(b, i, "binding")
    /\ RotateOrCreate(i, u, jar[b].session)
    /\ Reply(SignedIn(b, i, {}))
    /\ UNCHANGED <<claim, signOut, jar, binder, opened, kept>>

VerifyIdentityMutationEmailOtp(b, i) ==
    /\ i \in Proofs /\ status[i] = "mailed"
    /\ Holds(b, InteractionCookie(i))
    /\ Finish(b, i, "binding")
    /\ UNCHANGED <<claim, session, signOut, jar, wire, binder, opened, kept>>

\* Opening the link gives a browser a context of its own and nothing else.
MagicShell(b, i) ==
    /\ status[i] = "mailed"
    /\ opened' = [opened EXCEPT ![i] = @ \cup {b}]
    /\ Reply(Answer(b, {TransferCookie(i)}, {}))
    /\ UNCHANGED <<status, claim, session, signOut, jar, binder, finisher, kept>>

EmailMagicConfirmationShell(b, i) == i \in Logins /\ MagicShell(b, i)

IdentityMutationMagicShell(b, i) == i \in Proofs /\ MagicShell(b, i)

\* Confirming wants the context, and the binding too where the policy of
\* the interaction keeps links to its browser.
LinkAdmits(b, i) ==
    /\ Holds(b, TransferCookie(i))
    /\ i \in SameBrowserOnly => Holds(b, InteractionCookie(i))

ConfirmEmailMagic(b, i, u) ==
    /\ i \in Logins /\ status[i] = "mailed"
    /\ LinkAdmits(b, i)
    /\ Finish(b, i, "link")
    /\ RotateOrCreate(i, u, jar[b].session)
    /\ Reply(SignedIn(b, i, {}))
    /\ UNCHANGED <<claim, signOut, jar, binder, opened, kept>>

VerifyIdentityMutationEmailLink(b, i) ==
    /\ i \in Proofs
    /\ \/ /\ status[i] = "mailed" /\ LinkAdmits(b, i)
          /\ Finish(b, i, "link")
          /\ Reply(Answer(b, {}, {TransferCookie(i)}))
       \/ /\ Holds(b, TransferCookie(i))            \* a proof that is found invalid
          /\ Reply(Answer(b, {}, {TransferCookie(i)}))
          /\ UNCHANGED <<status, finisher>>
    /\ UNCHANGED <<claim, session, signOut, jar, binder, opened, kept>>

\* The session goes on as it is, and the interaction's cookie is given up.
ReuseBrowserSession(b, i) ==
    /\ i \in Logins /\ status[i] = "bound"
    /\ Holds(b, InteractionCookie(i))
    /\ Presented(jar[b].session) # {}
    /\ Finish(b, i, "binding")
    /\ Reply(Answer(b, {}, {InteractionCookie(i)}))
    /\ UNCHANGED <<claim, session, signOut, jar, binder, opened, kept>>

ConfirmIdentityMutationReady(b, i) ==
    /\ i \in Proofs /\ status[i] = "proved"
    /\ Holds(b, InteractionCookie(i))
    /\ status' = [status EXCEPT ![i] = "done"]
    /\ UNCHANGED <<claim, session, signOut, jar, wire, binder, opened, finisher, kept>>

---------------------------------------------------------------------------
(* The provider's callback, which any browser may be sent to. *)

CallbackCookie(i) == IF i \in Proofs THEN ProofSlotCookie(i) ELSE InteractionCookie(i)

CallbackAdmitted(b, i) == status[i] = "provider" /\ Holds(b, CallbackCookie(i))

ProviderCallback(b, i) ==
    /\ CallbackAdmitted(b, i)
    /\ status' = [status EXCEPT ![i] = "exchange"]
    /\ claim' = [claim EXCEPT ![i] = [browser |-> b, session |-> jar[b].session]]
    /\ UNCHANGED <<session, signOut, jar, wire, binder, opened, finisher, kept>>

\* Every denial ends the interaction it is admitted for.
DenyProviderCallback(b, i) ==
    /\ CallbackAdmitted(b, i)
    /\ status' = [status EXCEPT ![i] = "ended"]
    /\ Reply(Answer(b, {}, {CallbackCookie(i)}))
    /\ UNCHANGED <<claim, session, signOut, jar, binder, opened, finisher, kept>>

\* Mutant: a second callback of a sign-in gives up the cookie of the first.
DuplicateCallbackMutant(b, i) ==
    /\ status[i] \in {"exchange", "proved", "done"}
    /\ Holds(b, CallbackCookie(i))
    /\ Reply(Answer(b, {}, {CallbackCookie(i)}))
    /\ UNCHANGED <<status, claim, session, signOut, jar, binder, opened, finisher, kept>>

\* A second callback: a slot's cookie has served its purpose once the slot
\* is claimed, a reauthorization's is cleared when it is over, a sign-in's
\* second callback is an error that changes nothing.
DuplicateCallback(b, i) ==
    /\ status[i] \in {"exchange", "proved", "done"}
    /\ Holds(b, CallbackCookie(i))
    /\ i \in Proofs \/ (i \in Reauthorizations /\ Settled(i))
    /\ Reply(Answer(b, {}, {CallbackCookie(i)}))
    /\ UNCHANGED <<status, claim, session, signOut, jar, binder, opened, finisher, kept>>

CompleteProviderCallback(i, u) ==
    LET b == claim[i].browser
    IN /\ status[i] = "exchange"
       /\ Finish(b, i, "binding")
       /\ IF i \in Logins
          THEN /\ RotateOrCreate(i, u, claim[i].session)
               /\ Reply(SignedIn(b, i, {CallbackCookie(i)}))
          ELSE /\ Reply(Answer(b, {}, {CallbackCookie(i)}))
               /\ UNCHANGED session
       /\ UNCHANGED <<claim, signOut, jar, binder, opened, kept>>

\* The exchange fails: a sign-in's error leaves its cookies alone.
FailProviderCallback(i) ==
    LET b == claim[i].browser
    IN /\ status[i] = "exchange"
       /\ status' = [status EXCEPT ![i] = "ended"]
       /\ IF i \in Logins
          THEN UNCHANGED wire
          ELSE Reply(Answer(b, {}, {CallbackCookie(i)}))
       /\ UNCHANGED <<claim, session, signOut, jar, binder, opened, finisher, kept>>

---------------------------------------------------------------------------
(* Signing out. *)

\* The page binds the prepared sign-out to the session's present credential.
BrowserLogoutShell(b, s) ==
    /\ s \in Presented(jar[b].session)
    /\ signOut' = [signOut EXCEPT ![s] = jar[b].session]
    /\ UNCHANGED <<status, claim, session, jar, wire, binder, opened, finisher, kept>>

ConfirmBrowserLogout(b, s) ==
    /\ s \in Presented(jar[b].session)
    /\ signOut[s] = jar[b].session
    /\ session' = [session EXCEPT ![s].status = "terminated"]
    /\ Reply([Answer(b, {}, {}) EXCEPT !.signedOut = TRUE])
    /\ UNCHANGED <<status, claim, signOut, jar, binder, opened, finisher, kept>>

---------------------------------------------------------------------------
(* Time and the network. *)

Expire(i) ==
    /\ ~Settled(i)
    /\ status' = [status EXCEPT ![i] = "ended"]
    /\ UNCHANGED <<claim, session, signOut, jar, wire, binder, opened, finisher, kept>>

Deliver(a) ==
    /\ jar' = [jar EXCEPT ![a.to] =
           [cookies |-> (@.cookies \cup a.sets) \ a.clears,
            session |-> CASE a.signedIn # Nobody -> a.signedIn
                          [] a.signedOut -> Nobody
                          [] OTHER -> @.session]]
    /\ kept' = [kept EXCEPT ![a.to] = @ \cup a.sets]
    /\ wire' = wire \ {a}
    /\ UNCHANGED <<status, claim, session, signOut, binder, opened, finisher>>

Lose(a) ==
    /\ wire' = wire \ {a}
    /\ UNCHANGED <<status, claim, session, signOut, jar, binder, opened, finisher, kept>>

---------------------------------------------------------------------------

HostedInit ==
    /\ status = [i \in Interactions |-> "unbound"]
    /\ claim = [i \in Interactions |-> [browser |-> Nobody, session |-> Nobody]]
    /\ session = [s \in Logins |-> [status |-> "none", user |-> Nobody, credential |-> Nobody]]
    /\ signOut = [s \in Logins |-> Nobody]
    /\ jar = [b \in Browsers |-> [cookies |-> {}, session |-> Nobody]]
    /\ wire = {}
    /\ binder = [i \in Interactions |-> Nobody]
    /\ opened = [i \in Interactions |-> {}]
    /\ finisher = [i \in Interactions |-> [browser |-> Nobody, how |-> Nobody]]
    /\ kept = [b \in Browsers |-> {}]

Visit(b, i) ==
    \/ HostedInteractionShell(b, i) \/ IdentityMutationShell(b, i)
    \/ ManagedReauthorizationShell(b, i)
    \/ EmailMagicConfirmationShell(b, i) \/ IdentityMutationMagicShell(b, i)
    \/ ProviderCallback(b, i) \/ DenyProviderCallback(b, i) \/ DuplicateCallback(b, i)

Command(b, i) ==
    \/ SelectProviderMethod(b, i) \/ StartManagedReauthorization(b, i)
    \/ SelectIdentityMutationMethod(b, i) \/ SelectEmailMethod(b, i)
    \/ BeginEmailChallenge(b, i) \/ BeginIdentityMutationEmailChallenge(b, i)
    \/ VerifyIdentityMutationEmailOtp(b, i) \/ VerifyIdentityMutationEmailLink(b, i)
    \/ ReuseBrowserSession(b, i) \/ ConfirmIdentityMutationReady(b, i)

HostedNext ==
    \/ \E b \in Browsers, i \in Interactions : Visit(b, i) \/ Command(b, i)
    \/ \E b \in Browsers, i \in Interactions, u \in Users :
           VerifyEmailOtp(b, i, u) \/ ConfirmEmailMagic(b, i, u)
    \/ \E i \in Interactions, u \in Users : CompleteProviderCallback(i, u)
    \/ \E i \in Interactions : FailProviderCallback(i) \/ Expire(i)
    \/ \E b \in Browsers, s \in Logins : BrowserLogoutShell(b, s) \/ ConfirmBrowserLogout(b, s)
    \/ \E a \in wire : Deliver(a) \/ Lose(a)

HostedSpec == HostedInit /\ [][HostedNext]_hostedVars

---------------------------------------------------------------------------
(* Properties. *)

\* The shapes of the state; a session's credential is that of a sign-in
\* that ended well.
HostedTypeOK ==
    /\ status \in [Interactions -> {"unbound", "bound", "provider", "exchange", "email", "mailed",
                                    "proved", "done", "ended"}]
    /\ \A b \in Browsers : jar[b].cookies \subseteq Cookies
    /\ \A s \in Logins : session[s].status = "active" => status[session[s].credential] = "done"

\* However links are passed around and answers reordered, two browsers
\* never hold the cookies of one interaction (bootstrap_interaction and the
\* bootstraps of proofs and reauthorizations).
OneBrowserPerInteraction ==
    \A i \in Interactions, b, c \in Browsers :
        (Holds(b, InteractionCookie(i)) /\ Holds(c, InteractionCookie(i))) => b = c

\* An interaction is finished by the browser that bound it, or, where its
\* policy lets links travel, by one that opened its link (provider_callback,
\* verify_email_otp, confirm_email_magic, reuse_browser_session).
FinishedByItsBrowser ==
    \A i \in Interactions : finisher[i].browser # Nobody =>
        \/ finisher[i].browser = binder[i]
        \/ /\ finisher[i].how = "link" /\ i \notin SameBrowserOnly
           /\ finisher[i].browser \in opened[i]

\* A browser that was given the cookie it needs to go on keeps it until the
\* step the cookie is for is behind it: no late, repeated or failed answer
\* takes it away before (clear_cookie in provider_callback and
\* reuse_browser_session).
CookieLastsAsNeeded ==
    \A b \in Browsers, i \in Interactions :
        /\ (InteractionCookie(i) \in kept[b] /\ ~Settled(i)) => Holds(b, InteractionCookie(i))
        /\ (ProofSlotCookie(i) \in kept[b] /\ status[i] = "provider") => Holds(b, ProofSlotCookie(i))

HostedSafe ==
    HostedTypeOK /\ OneBrowserPerInteraction /\ FinishedByItsBrowser /\ CookieLastsAsNeeded
=============================================================================
