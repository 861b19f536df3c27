---------------------------- MODULE AccessProofs ----------------------------
(***************************************************************************)
(* Proofs about the two ways a browser gets at an interaction: the cookies *)
(* of the hosted pages (HostedBrowser) and the links opened elsewhere      *)
(* (MagicTransfer), for any number of browsers, users, interactions,       *)
(* answers on the way, contexts and generations, any limits and any lag of *)
(* the replicas' clocks: what HostedSafe and MagicSafe say.                *)
(***************************************************************************)
EXTENDS HostedBrowser, MagicTransfer, FiniteSetTheorems, TLAPS

-----------------------------------------------------------------------------
(* The hosted pages *)

\* What the proofs use of the constants.
LEMMA HostedConstants ==
    ASSUME HostedAssumption
    PROVE  /\ Nobody \notin Browsers /\ Nobody \notin Interactions /\ Nobody \notin Logins
           /\ Logins \subseteq Interactions
           /\ \A i \in Logins : i \notin Proofs /\ i \notin Reauthorizations
           /\ \A i \in Interactions : i \in Logins \/ i \in Proofs \/ i \in Reauthorizations
           /\ \A i \in Proofs : i \notin Reauthorizations
  BY DEF HostedAssumption, Interactions

-----------------------------------------------------------------------------
(* The inductive invariant *)

Statuses == {"unbound", "bound", "provider", "exchange", "email", "mailed", "proved", "done", "ended"}

\* The statuses behind the provider's callback.
Past == {"exchange", "proved", "done", "ended"}

SessionRow == [status : {"none", "active", "terminated"}, user : Users \cup {Nobody},
               credential : Logins \cup {Nobody}]

HostedShaped ==
    /\ status \in [Interactions -> Statuses]
    /\ claim = [i \in Interactions |-> claim[i]]
    /\ binder = [i \in Interactions |-> binder[i]]
    /\ opened = [i \in Interactions |-> opened[i]]
    /\ finisher = [i \in Interactions |-> finisher[i]]
    /\ jar = [b \in Browsers |-> jar[b]]
    /\ kept = [b \in Browsers |-> kept[b]]
    /\ session \in [Logins -> SessionRow]

FinishedFits(i) ==
    finisher[i].browser # Nobody =>
        /\ status[i] # "unbound"
        /\ \/ finisher[i].browser = binder[i]
           \/ /\ finisher[i].how = "link" /\ i \notin SameBrowserOnly
              /\ finisher[i].browser \in opened[i]

\* Nobody bound an interaction that is unbound, and the exchange of a code
\* was begun by the browser that bound it.
InteractionFits(i) ==
    /\ status[i] = "unbound" => binder[i] = Nobody
    /\ status[i] = "exchange" => claim[i].browser = binder[i] /\ claim[i].browser \in Browsers
    /\ FinishedFits(i)

\* Who is given cookies, and when they are taken back.
CookiesFit(b, sets) ==
    /\ sets \subseteq Cookies
    /\ \A i \in Interactions :
          /\ InteractionCookie(i) \in sets \/ ProofSlotCookie(i) \in sets => binder[i] = b
          /\ TransferCookie(i) \in sets => b \in opened[i]

ClearsFit(clears) ==
    \A i \in Interactions :
        /\ InteractionCookie(i) \in clears => Settled(i)
        /\ ProofSlotCookie(i) \in clears => status[i] \in Past

AnswerFits(a) == a.to \in Browsers /\ CookiesFit(a.to, a.sets) /\ ClearsFit(a.clears)

BrowserFits(b) ==
    /\ CookiesFit(b, jar[b].cookies)
    /\ \A i \in Interactions :
          /\ InteractionCookie(i) \in kept[b] => Settled(i) \/ InteractionCookie(i) \in jar[b].cookies
          /\ ProofSlotCookie(i) \in kept[b] => status[i] \in Past \/ ProofSlotCookie(i) \in jar[b].cookies

\* A session's credential is that of a sign-in that ended well.
SessionFits(s) ==
    session[s].status = "active" =>
        session[s].credential \in Logins /\ status[session[s].credential] = "done"

HostedInv ==
    /\ HostedShaped
    /\ \A i \in Interactions : InteractionFits(i)
    /\ \A a \in wire : AnswerFits(a)
    /\ \A b \in Browsers : BrowserFits(b)
    /\ \A s \in Logins : SessionFits(s)

LEMMA HostedInitEstablishes ==
    ASSUME HostedAssumption, HostedInit
    PROVE  HostedInv
  <1> USE HostedConstants
  <1>1. HostedShaped
    BY DEF HostedInit, HostedShaped, Statuses, SessionRow
  <1>2. \A i \in Interactions : InteractionFits(i)
    BY DEF HostedInit, InteractionFits, FinishedFits
  <1>3. \A b \in Browsers : BrowserFits(b)
    BY DEF HostedInit, BrowserFits, CookiesFit
  <1>4. \A s \in Logins : SessionFits(s)
    BY DEF HostedInit, SessionFits
  <1>5. wire = {}
    BY DEF HostedInit
  <1> QED
    BY <1>1, <1>2, <1>3, <1>4, <1>5 DEF HostedInv

-----------------------------------------------------------------------------
(* A request changes one interaction and may be answered *)

\* What a request may do to an interaction.
InteractionMoves(i) ==
    /\ status'[i] \in Statuses
    /\ status[i] # "unbound" => binder'[i] = binder[i] /\ status'[i] # "unbound"
    /\ Settled(i) => status'[i] = status[i]
    /\ status[i] \in Past => status'[i] \in Past
    /\ opened[i] \subseteq opened'[i]
    /\ InteractionFits(i)'

ShapeKept ==
    /\ status' = [i \in Interactions |-> status'[i]]
    /\ claim' = [i \in Interactions |-> claim'[i]]
    /\ binder' = [i \in Interactions |-> binder'[i]]
    /\ opened' = [i \in Interactions |-> opened'[i]]
    /\ finisher' = [i \in Interactions |-> finisher'[i]]

\* Cookies given before a step fit after it, and so do those taken back.
LEMMA CookiesStillFit ==
    ASSUME HostedAssumption, HostedInv, \A i \in Interactions : InteractionMoves(i), NEW b \in Browsers, NEW sets,
           CookiesFit(b, sets)
    PROVE  CookiesFit(b, sets)'
  <1>1. sets \subseteq Cookies'
    BY DEF CookiesFit, Cookies, Interactions
  <1>2. ASSUME NEW i \in Interactions, InteractionCookie(i) \in sets \/ ProofSlotCookie(i) \in sets
        PROVE  binder'[i] = b
    <2>1. binder[i] = b
      BY <1>2 DEF CookiesFit
    <2>2. status[i] # "unbound"
      BY <2>1, HostedConstants DEF HostedInv, InteractionFits
    <2> QED
      BY <2>1, <2>2 DEF InteractionMoves
  <1>3. ASSUME NEW i \in Interactions, TransferCookie(i) \in sets
        PROVE  b \in opened'[i]
    BY <1>3 DEF CookiesFit, InteractionMoves
  <1> QED
    BY <1>1, <1>2, <1>3 DEF CookiesFit, Interactions, InteractionCookie, ProofSlotCookie, TransferCookie

LEMMA ClearsStillFit ==
    ASSUME \A i \in Interactions : InteractionMoves(i), NEW clears, ClearsFit(clears)
    PROVE  ClearsFit(clears)'
  <1>1. ASSUME NEW i \in Interactions, InteractionCookie(i) \in clears
        PROVE  Settled(i)'
    BY <1>1 DEF ClearsFit, InteractionMoves, Settled
  <1>2. ASSUME NEW i \in Interactions, ProofSlotCookie(i) \in clears
        PROVE  status'[i] \in Past
    BY <1>2 DEF ClearsFit, InteractionMoves
  <1> QED
    BY <1>1, <1>2 DEF ClearsFit, Interactions, InteractionCookie, ProofSlotCookie, Past

\* A request keeps the invariant if its interaction moves as it may, its
\* answer fits and the sessions do.
LEMMA RequestKeeps ==
    ASSUME HostedAssumption, HostedInv, UNCHANGED <<jar, kept>>, ShapeKept,
           \A i \in Interactions : InteractionMoves(i),
           \A a \in wire' : a \in wire \/ AnswerFits(a)',
           session' \in [Logins -> SessionRow],
           \A s \in Logins : SessionFits(s)'
    PROVE  HostedInv'
  <1>1. HostedShaped'
    <2>1. status' \in [Interactions -> Statuses]
      BY DEF ShapeKept, InteractionMoves
    <2> QED
      BY <2>1 DEF HostedInv, HostedShaped, ShapeKept, Interactions, Statuses, SessionRow
  <1>2. \A i \in Interactions : InteractionFits(i)'
    BY DEF InteractionMoves
  <1>3. ASSUME NEW a \in wire PROVE AnswerFits(a)'
    <2>1. a.to \in Browsers /\ CookiesFit(a.to, a.sets) /\ ClearsFit(a.clears)
      BY DEF HostedInv, AnswerFits
    <2>2. CookiesFit(a.to, a.sets)'
      BY <2>1, CookiesStillFit
    <2>3. ClearsFit(a.clears)'
      BY <2>1, ClearsStillFit
    <2> QED
      BY <2>1, <2>2, <2>3 DEF AnswerFits
  <1>4. ASSUME NEW b \in Browsers PROVE BrowserFits(b)'
    <2>1. BrowserFits(b) /\ jar'[b] = jar[b] /\ kept'[b] = kept[b]
      BY DEF HostedInv
    <2>2. CookiesFit(b, jar[b].cookies)'
      <3>1. PICK sets : sets = jar[b].cookies
        OBVIOUS
      <3>2. CookiesFit(b, sets)'
        BY <2>1, <3>1, CookiesStillFit DEF BrowserFits
      <3> QED
        BY <2>1, <3>1, <3>2 DEF CookiesFit
    <2>3. ASSUME NEW i \in Interactions, InteractionCookie(i) \in kept[b]
          PROVE  Settled(i)' \/ InteractionCookie(i) \in jar[b].cookies
      BY <2>1, <2>3 DEF BrowserFits, InteractionMoves, Settled
    <2>4. ASSUME NEW i \in Interactions, ProofSlotCookie(i) \in kept[b]
          PROVE  status'[i] \in Past \/ ProofSlotCookie(i) \in jar[b].cookies
      BY <2>1, <2>4 DEF BrowserFits, InteractionMoves
    <2> QED
      BY <2>1, <2>2, <2>3, <2>4 DEF BrowserFits, Interactions, InteractionCookie, ProofSlotCookie, Past
  <1> QED
    BY <1>1, <1>2, <1>3, <1>4 DEF HostedInv, Interactions

-----------------------------------------------------------------------------
(* One interaction at a time *)

\* The other interactions stay as they are.
OthersStay(i) ==
    \A j \in Interactions \ {i} :
        /\ status'[j] = status[j] /\ claim'[j] = claim[j] /\ binder'[j] = binder[j]
        /\ opened'[j] = opened[j] /\ finisher'[j] = finisher[j]

LEMMA OneMoves ==
    ASSUME HostedInv, NEW i \in Interactions, OthersStay(i), InteractionMoves(i)
    PROVE  \A j \in Interactions : InteractionMoves(j)
  <1> SUFFICES ASSUME NEW j \in Interactions, j # i PROVE InteractionMoves(j)
    OBVIOUS
  <1>1. /\ status'[j] = status[j] /\ claim'[j] = claim[j] /\ binder'[j] = binder[j]
        /\ opened'[j] = opened[j] /\ finisher'[j] = finisher[j]
    BY DEF OthersStay
  <1>2. status[j] \in Statuses /\ InteractionFits(j)
    BY DEF HostedInv, HostedShaped
  <1> QED
    BY <1>1, <1>2 DEF InteractionMoves, InteractionFits, FinishedFits, Settled

\* Sessions that stay as they are fit: a sign-in that ended well stays so.
LEMMA SessionsStay ==
    ASSUME HostedAssumption, HostedInv, \A i \in Interactions : InteractionMoves(i), session' = session
    PROVE  session' \in [Logins -> SessionRow] /\ \A s \in Logins : SessionFits(s)'
  <1>1. session' \in [Logins -> SessionRow]
    BY DEF HostedInv, HostedShaped
  <1>2. ASSUME NEW s \in Logins PROVE SessionFits(s)'
    <2>1. SessionFits(s)
      BY DEF HostedInv
    <2>2. ASSUME NEW l \in Logins, status[l] = "done" PROVE status'[l] = "done"
      BY <2>2, HostedConstants DEF InteractionMoves, Settled
    <2> QED
      BY <2>1, <2>2 DEF SessionFits
  <1> QED
    BY <1>1, <1>2

\* A sign-in renews the session the browser presented or creates one, under
\* its own credential.
LEMMA SignInFits ==
    ASSUME HostedAssumption, HostedInv, \A j \in Interactions : InteractionMoves(j),
           NEW i \in Logins, NEW u \in Users, NEW credential, RotateOrCreate(i, u, credential),
           status'[i] = "done"
    PROVE  session' \in [Logins -> SessionRow] /\ \A s \in Logins : SessionFits(s)'
  <1>1. ASSUME NEW s \in Logins
        PROVE  \/ session'[s] = session[s]
               \/ session'[s] = [session[s] EXCEPT !.credential = i]
               \/ session'[s] = [session[s] EXCEPT !.status = "terminated"]
               \/ session'[s] = [status |-> "active", user |-> u, credential |-> i]
    BY DEF RotateOrCreate
  <1>2. session' = [s \in Logins |-> session'[s]]
    BY DEF RotateOrCreate
  <1>3. ASSUME NEW r \in SessionRow
        PROVE  /\ [r EXCEPT !.credential = i] \in SessionRow
               /\ [r EXCEPT !.credential = i].credential = i
               /\ [r EXCEPT !.status = "terminated"] \in SessionRow
               /\ [r EXCEPT !.status = "terminated"].status = "terminated"
    BY DEF SessionRow
  <1>4. [status |-> "active", user |-> u, credential |-> i] \in SessionRow
    BY DEF SessionRow
  <1>5. \A s \in Logins : session[s] \in SessionRow /\ SessionFits(s)
    BY DEF HostedInv, HostedShaped
  <1>6. ASSUME NEW s \in Logins PROVE session'[s] \in SessionRow
    BY <1>1, <1>3, <1>4, <1>5
  <1>7. ASSUME NEW l \in Logins, status[l] = "done" PROVE status'[l] = "done"
    BY <1>7, HostedConstants DEF InteractionMoves, Settled
  <1>8. ASSUME NEW s \in Logins PROVE SessionFits(s)'
    <2>1. CASE session'[s] = session[s]
      BY <2>1, <1>5, <1>7 DEF SessionFits
    <2>2. CASE session'[s] = [session[s] EXCEPT !.credential = i]
      <3>1. session'[s].credential = i
        BY <2>2, <1>3, <1>5
      <3> QED
        BY <3>1 DEF SessionFits
    <2>3. CASE session'[s] = [session[s] EXCEPT !.status = "terminated"]
      <3>1. session'[s].status = "terminated"
        BY <2>3, <1>3, <1>5
      <3> QED
        BY <3>1 DEF SessionFits
    <2>4. CASE session'[s] = [status |-> "active", user |-> u, credential |-> i]
      BY <2>4 DEF SessionFits
    <2> QED
      BY <1>1, <2>1, <2>2, <2>3, <2>4
  <1>9. session' \in [Logins -> SessionRow]
    BY <1>2, <1>6
  <1> QED
    BY <1>8, <1>9

\* What is on the way after a request: what was, and an answer that fits.
WireFits == \A a \in wire' : a \in wire \/ AnswerFits(a)'

LEMMA QuietRequest ==
    ASSUME HostedAssumption, HostedInv, NEW i \in Interactions, UNCHANGED <<jar, kept, session>>, ShapeKept,
           OthersStay(i), InteractionMoves(i), WireFits
    PROVE  HostedInv'
  <1>1. \A j \in Interactions : InteractionMoves(j)
    BY OneMoves
  <1> QED
    BY <1>1, SessionsStay, RequestKeeps DEF WireFits

LEMMA SignInRequest ==
    ASSUME HostedAssumption, HostedInv, NEW i \in Logins, UNCHANGED <<jar, kept>>, ShapeKept,
           OthersStay(i), InteractionMoves(i), WireFits,
           NEW u \in Users, NEW credential, RotateOrCreate(i, u, credential), status'[i] = "done"
    PROVE  HostedInv'
  <1>1. i \in Interactions
    BY HostedConstants
  <1>2. \A j \in Interactions : InteractionMoves(j)
    BY <1>1, OneMoves
  <1> QED
    BY <1>2, SignInFits, RequestKeeps DEF WireFits

\* A browser holds the cookies of what it bound and opened.
LEMMA HolderBound ==
    ASSUME HostedAssumption, HostedInv, NEW b \in Browsers, NEW i \in Interactions
    PROVE  /\ Holds(b, InteractionCookie(i)) \/ Holds(b, ProofSlotCookie(i))
                  => binder[i] = b /\ status[i] # "unbound"
           /\ Holds(b, TransferCookie(i)) => b \in opened[i]
  <1>1. CookiesFit(b, jar[b].cookies) /\ InteractionFits(i)
    BY DEF HostedInv, BrowserFits
  <1> QED
    BY <1>1, HostedConstants DEF CookiesFit, InteractionFits, Holds

\* The answers that requests give fit the state they leave.
LEMMA AnswerMayGo ==
    ASSUME NEW b \in Browsers, NEW i \in Interactions, NEW a, a.to = b,
           \/ a.sets = {}
           \/ a.sets \in {{InteractionCookie(i)}, {ProofSlotCookie(i)}} /\ binder'[i] = b
           \/ a.sets = {TransferCookie(i)} /\ b \in opened'[i],
           \/ a.clears \in {{}, {TransferCookie(i)}}
           \/ a.clears = {InteractionCookie(i)} /\ status'[i] \in {"done", "ended"}
           \/ a.clears = {ProofSlotCookie(i)} /\ status'[i] \in Past
    PROVE  AnswerFits(a)'
  <1>1. ASSUME NEW j \in Interactions, InteractionCookie(j) \in a.sets \/ ProofSlotCookie(j) \in a.sets
        PROVE  binder'[j] = b
    BY <1>1 DEF InteractionCookie, ProofSlotCookie, TransferCookie
  <1>2. ASSUME NEW j \in Interactions, TransferCookie(j) \in a.sets
        PROVE  b \in opened'[j]
    BY <1>2 DEF InteractionCookie, ProofSlotCookie, TransferCookie
  <1>3. ASSUME NEW j \in Interactions, InteractionCookie(j) \in a.clears
        PROVE  status'[j] \in {"done", "ended"}
    BY <1>3 DEF InteractionCookie, ProofSlotCookie, TransferCookie
  <1>4. ASSUME NEW j \in Interactions, ProofSlotCookie(j) \in a.clears
        PROVE  status'[j] \in Past
    BY <1>4 DEF InteractionCookie, ProofSlotCookie, TransferCookie
  <1>5. a.sets \subseteq Cookies
    BY DEF InteractionCookie, ProofSlotCookie, TransferCookie, Cookies
  <1>6. CookiesFit(b, a.sets)'
    BY <1>1, <1>2, <1>5 DEF CookiesFit, Cookies, Interactions, InteractionCookie, ProofSlotCookie, TransferCookie
  <1>7. ClearsFit(a.clears)'
    BY <1>3, <1>4 DEF ClearsFit, Settled, Interactions, InteractionCookie, ProofSlotCookie, Past
  <1> QED
    BY <1>6, <1>7 DEF AnswerFits

LEMMA ReplyFits ==
    ASSUME NEW b \in Browsers, NEW i \in Interactions, NEW sets, NEW clears,
           \E a : Reply(a) /\ a.to = b /\ a.sets = sets /\ a.clears = clears,
           \/ sets = {}
           \/ sets \in {{InteractionCookie(i)}, {ProofSlotCookie(i)}} /\ binder'[i] = b
           \/ sets = {TransferCookie(i)} /\ b \in opened'[i],
           \/ clears \in {{}, {TransferCookie(i)}}
           \/ clears = {InteractionCookie(i)} /\ status'[i] \in {"done", "ended"}
           \/ clears = {ProofSlotCookie(i)} /\ status'[i] \in Past
    PROVE  WireFits
  <1>1. PICK a : Reply(a) /\ a.to = b /\ a.sets = sets /\ a.clears = clears
    OBVIOUS
  <1>2. AnswerFits(a)'
    BY <1>1, AnswerMayGo
  <1> QED
    BY <1>1, <1>2 DEF Reply, WireFits

LEMMA PlainAnswer ==
    ASSUME NEW b, NEW sets, NEW clears, Reply(Answer(b, sets, clears))
    PROVE  \E a : Reply(a) /\ a.to = b /\ a.sets = sets /\ a.clears = clears
  <1>1. /\ Answer(b, sets, clears).to = b /\ Answer(b, sets, clears).sets = sets
        /\ Answer(b, sets, clears).clears = clears
    BY DEF Answer
  <1> QED
    BY <1>1

LEMMA SignInAnswer ==
    ASSUME NEW b, NEW i, NEW clears, Reply(SignedIn(b, i, clears))
    PROVE  \E a : Reply(a) /\ a.to = b /\ a.sets = {} /\ a.clears = clears
  <1>1. /\ SignedIn(b, i, clears).to = b /\ SignedIn(b, i, clears).sets = {}
        /\ SignedIn(b, i, clears).clears = clears
    BY DEF Answer, SignedIn
  <1> QED
    BY <1>1

-----------------------------------------------------------------------------
(* Starting and choosing *)

LEMMA ShellKeeps ==
    ASSUME HostedAssumption, HostedInv, NEW b \in Browsers, NEW i \in Interactions, Shell(b, i)
    PROVE  HostedInv'
  <1>1. ShapeKept /\ OthersStay(i) /\ UNCHANGED <<jar, kept, session>>
    BY DEF Shell, ShapeKept, OthersStay, HostedInv, HostedShaped
  <1>2. InteractionMoves(i) /\ binder'[i] = b
    <2>1. status[i] \in Statuses /\ InteractionFits(i)
      BY DEF HostedInv, HostedShaped
    <2>2. CASE status[i] = "unbound"
      <3>1. status'[i] = "bound" /\ binder'[i] = b /\ claim'[i] = claim[i] /\ opened'[i] = opened[i] /\ finisher'[i] = finisher[i]
        BY <2>2 DEF Shell, HostedInv, HostedShaped
      <3> QED
        BY <2>1, <2>2, <3>1 DEF InteractionMoves, InteractionFits, FinishedFits, Settled, Statuses, Past
    <2>3. CASE status[i] # "unbound"
      <3>1. status'[i] = status[i] /\ binder'[i] = binder[i] /\ claim'[i] = claim[i] /\ opened'[i] = opened[i] /\ finisher'[i] = finisher[i]
        BY <2>3 DEF Shell
      <3>2. binder[i] = b
        BY <2>3, HolderBound DEF Shell
      <3> QED
        BY <2>1, <3>1, <3>2 DEF InteractionMoves, InteractionFits, FinishedFits, Settled, Statuses, Past
    <2> QED
      BY <2>2, <2>3
  <1>3. WireFits
    <2>1. Reply(Answer(b, {InteractionCookie(i)}, {}))
      BY DEF Shell
    <2> QED
      BY <1>2, <2>1, PlainAnswer, ReplyFits
  <1> QED
    BY <1>1, <1>2, <1>3, QuietRequest

\* A step that only takes an interaction on, or ends it.
LEMMA StatusMoves ==
    ASSUME HostedInv, NEW i \in Interactions, NEW next \in Statuses \ {"unbound", "exchange"}, ~Settled(i),
           status[i] \in Past => next \in Past, status' = [status EXCEPT ![i] = next],
           UNCHANGED <<claim, binder, opened, finisher>>
    PROVE  ShapeKept /\ OthersStay(i) /\ InteractionMoves(i) /\ status'[i] = next
  <1>1. ShapeKept /\ OthersStay(i)
    BY DEF ShapeKept, OthersStay, HostedInv, HostedShaped
  <1>2. status'[i] = next
    BY DEF HostedInv, HostedShaped
  <1>3. status[i] \in Statuses /\ InteractionFits(i)
    BY DEF HostedInv, HostedShaped
  <1>4. InteractionMoves(i)
    BY <1>2, <1>3 DEF InteractionMoves, InteractionFits, FinishedFits, Settled
  <1> QED
    BY <1>1, <1>2, <1>4

LEMMA FinishMoves ==
    ASSUME HostedInv, NEW b \in Browsers, NEW i \in Interactions, NEW how, Finish(b, i, how),
           status[i] # "unbound", ~Settled(i), UNCHANGED <<claim, binder, opened>>,
           binder[i] = b \/ (how = "link" /\ i \notin SameBrowserOnly /\ b \in opened[i])
    PROVE  /\ ShapeKept /\ OthersStay(i) /\ InteractionMoves(i)
           /\ i \in Proofs => status'[i] = "proved"
           /\ i \notin Proofs => status'[i] = "done"
  <1>1. ShapeKept /\ OthersStay(i)
    BY DEF ShapeKept, OthersStay, HostedInv, HostedShaped, Finish
  <1>2. status'[i] = IF i \in Proofs THEN "proved" ELSE "done"
    BY DEF HostedInv, HostedShaped, Finish
  <1>3. finisher'[i] = [browser |-> b, how |-> how]
    BY DEF HostedInv, HostedShaped, Finish
  <1>4. finisher'[i].browser = b /\ finisher'[i].how = how
    BY <1>3
  <1>5. status[i] \in Statuses
    BY DEF HostedInv, HostedShaped
  <1>6. InteractionFits(i)'
    BY <1>2, <1>4 DEF InteractionFits, FinishedFits
  <1>7. InteractionMoves(i)
    BY <1>2, <1>5, <1>6 DEF InteractionMoves, Settled, Statuses, Past
  <1> QED
    BY <1>1, <1>2, <1>7

LEMMA NothingMoves ==
    ASSUME HostedInv, NEW i \in Interactions, UNCHANGED <<status, claim, binder, opened, finisher>>
    PROVE  ShapeKept /\ OthersStay(i) /\ InteractionMoves(i)
  <1>1. ShapeKept /\ OthersStay(i)
    BY DEF ShapeKept, OthersStay, HostedInv, HostedShaped
  <1>2. status[i] \in Statuses /\ InteractionFits(i)
    BY DEF HostedInv, HostedShaped
  <1> QED
    BY <1>1, <1>2 DEF InteractionMoves, InteractionFits, FinishedFits, Settled

LEMMA NothingSent ==
    ASSUME UNCHANGED wire
    PROVE  WireFits
  BY DEF WireFits

LEMMA ChooseKeeps ==
    ASSUME HostedAssumption, HostedInv, NEW b \in Browsers, NEW i \in Interactions,
           \E next \in {"provider", "email"} : Choose(b, i, next), WireFits
    PROVE  HostedInv'
  <1>1. PICK next \in {"provider", "email"} : Choose(b, i, next)
    OBVIOUS
  <1>2. ~Settled(i) /\ status[i] \notin Past /\ next \in Statuses \ {"unbound", "exchange"}
    BY <1>1 DEF Choose, Settled, Past, Statuses
  <1>3. ShapeKept /\ OthersStay(i) /\ InteractionMoves(i)
    BY <1>1, <1>2, StatusMoves DEF Choose
  <1> QED
    BY <1>1, <1>3, QuietRequest DEF Choose

LEMMA SelectionKeeps ==
    ASSUME HostedAssumption, HostedInv, NEW b \in Browsers, NEW i \in Interactions,
           \/ SelectProviderMethod(b, i) \/ StartManagedReauthorization(b, i)
           \/ SelectIdentityMutationMethod(b, i) \/ SelectEmailMethod(b, i)
    PROVE  HostedInv'
  <1>1. \E next \in {"provider", "email"} : Choose(b, i, next)
    BY DEF SelectProviderMethod, StartManagedReauthorization, SelectIdentityMutationMethod, SelectEmailMethod
  <1>2. UNCHANGED wire \/ Reply(Answer(b, {ProofSlotCookie(i)}, {}))
    BY DEF SelectProviderMethod, StartManagedReauthorization, SelectIdentityMutationMethod, SelectEmailMethod
  <1>3. binder[i] = b /\ binder'[i] = binder[i]
    BY <1>1, HolderBound DEF Choose
  <1>4. CASE UNCHANGED wire
    BY <1>1, <1>4, NothingSent, ChooseKeeps
  <1>5. CASE Reply(Answer(b, {ProofSlotCookie(i)}, {}))
    <2>1. WireFits
      BY <1>3, <1>5, PlainAnswer, ReplyFits
    <2> QED
      BY <1>1, <2>1, ChooseKeeps
  <1> QED
    BY <1>2, <1>4, <1>5

LEMMA EmailChallengeKeeps ==
    ASSUME HostedAssumption, HostedInv, NEW b \in Browsers, NEW i \in Interactions, EmailChallenge(b, i)
    PROVE  HostedInv'
  <1>1. ~Settled(i) /\ status[i] \notin Past /\ "mailed" \in Statuses \ {"unbound", "exchange"}
    BY DEF EmailChallenge, Settled, Past, Statuses
  <1>2. ShapeKept /\ OthersStay(i) /\ InteractionMoves(i)
    BY <1>1, StatusMoves DEF EmailChallenge
  <1> QED
    BY <1>2, NothingSent, QuietRequest DEF EmailChallenge

-----------------------------------------------------------------------------
(* Finishing *)

LEMMA SignInMoves ==
    ASSUME HostedAssumption, HostedInv, NEW b \in Browsers, NEW i \in Logins, NEW u \in Users, NEW how,
           NEW credential, RotateOrCreate(i, u, credential), Finish(b, i, how),
           status[i] # "unbound", ~Settled(i), UNCHANGED <<claim, binder, opened, jar, kept>>,
           binder[i] = b \/ (how = "link" /\ i \notin SameBrowserOnly /\ b \in opened[i]),
           NEW clears \in {{}, {InteractionCookie(i)}}, Reply(SignedIn(b, i, clears))
    PROVE  HostedInv'
  <1>1. i \in Interactions /\ i \notin Proofs
    BY HostedConstants
  <1>2. ShapeKept /\ OthersStay(i) /\ InteractionMoves(i) /\ status'[i] = "done"
    BY <1>1, FinishMoves
  <1>3. WireFits
    BY <1>1, <1>2, SignInAnswer, ReplyFits
  <1> QED
    BY <1>2, <1>3, SignInRequest

LEMMA VerifyEmailOtpKeeps ==
    ASSUME HostedAssumption, HostedInv, NEW b \in Browsers, NEW i \in Interactions, NEW u \in Users,
           VerifyEmailOtp(b, i, u)
    PROVE  HostedInv'
  <1>1. i \in Logins /\ status[i] # "unbound" /\ ~Settled(i)
    BY DEF VerifyEmailOtp, Settled
  <1>2. binder[i] = b
    BY HolderBound DEF VerifyEmailOtp
  <1>3. PICK credential : credential = jar[b].session
    OBVIOUS
  <1>4. RotateOrCreate(i, u, credential) /\ Finish(b, i, "binding") /\ Reply(SignedIn(b, i, {}))
    BY <1>3 DEF VerifyEmailOtp
  <1>5. UNCHANGED <<claim, binder, opened, jar, kept>>
    BY DEF VerifyEmailOtp
  <1> QED
    BY <1>1, <1>2, <1>4, <1>5, SignInMoves

\* Who may confirm a link bound the interaction, or opened its link where
\* links travel.
LEMMA LinkHolder ==
    ASSUME HostedAssumption, HostedInv, NEW b \in Browsers, NEW i \in Interactions, LinkAdmits(b, i)
    PROVE  binder[i] = b \/ (i \notin SameBrowserOnly /\ b \in opened[i])
  BY HolderBound DEF LinkAdmits

LEMMA ConfirmEmailMagicKeeps ==
    ASSUME HostedAssumption, HostedInv, NEW b \in Browsers, NEW i \in Interactions, NEW u \in Users,
           ConfirmEmailMagic(b, i, u)
    PROVE  HostedInv'
  <1>1. i \in Logins /\ status[i] # "unbound" /\ ~Settled(i)
    BY DEF ConfirmEmailMagic, Settled
  <1>2. binder[i] = b \/ (i \notin SameBrowserOnly /\ b \in opened[i])
    BY LinkHolder DEF ConfirmEmailMagic
  <1>3. PICK credential : credential = jar[b].session
    OBVIOUS
  <1>4. RotateOrCreate(i, u, credential) /\ Finish(b, i, "link") /\ Reply(SignedIn(b, i, {}))
    BY <1>3 DEF ConfirmEmailMagic
  <1>5. UNCHANGED <<claim, binder, opened, jar, kept>>
    BY DEF ConfirmEmailMagic
  <1> QED
    BY <1>1, <1>2, <1>4, <1>5, SignInMoves

LEMMA VerifyIdentityMutationEmailOtpKeeps ==
    ASSUME HostedAssumption, HostedInv, NEW b \in Browsers, NEW i \in Interactions,
           VerifyIdentityMutationEmailOtp(b, i)
    PROVE  HostedInv'
  <1>1. status[i] # "unbound" /\ ~Settled(i)
    BY DEF VerifyIdentityMutationEmailOtp, Settled
  <1>2. binder[i] = b
    BY HolderBound DEF VerifyIdentityMutationEmailOtp
  <1>3. ShapeKept /\ OthersStay(i) /\ InteractionMoves(i)
    BY <1>1, <1>2, FinishMoves DEF VerifyIdentityMutationEmailOtp
  <1> QED
    BY <1>3, NothingSent, QuietRequest DEF VerifyIdentityMutationEmailOtp

LEMMA MagicShellKeeps ==
    ASSUME HostedAssumption, HostedInv, NEW b \in Browsers, NEW i \in Interactions, MagicShell(b, i)
    PROVE  HostedInv'
  <1>1. ShapeKept /\ OthersStay(i)
    BY DEF MagicShell, ShapeKept, OthersStay, HostedInv, HostedShaped
  <1>2. opened'[i] = opened[i] \cup {b}
    BY DEF MagicShell, HostedInv, HostedShaped
  <1>3. status[i] \in Statuses /\ InteractionFits(i)
    BY DEF HostedInv, HostedShaped
  <1>4. InteractionMoves(i)
    BY <1>2, <1>3 DEF MagicShell, InteractionMoves, InteractionFits, FinishedFits, Settled
  <1>5. Reply(Answer(b, {TransferCookie(i)}, {}))
    BY DEF MagicShell
  <1>6. WireFits
    BY <1>2, <1>5, PlainAnswer, ReplyFits
  <1> QED
    BY <1>1, <1>4, <1>6, QuietRequest DEF MagicShell

LEMMA VerifyIdentityMutationEmailLinkKeeps ==
    ASSUME HostedAssumption, HostedInv, NEW b \in Browsers, NEW i \in Interactions,
           VerifyIdentityMutationEmailLink(b, i)
    PROVE  HostedInv'
  <1>1. WireFits
    <2>1. Reply(Answer(b, {}, {TransferCookie(i)}))
      BY DEF VerifyIdentityMutationEmailLink
    <2> QED
      BY <2>1, PlainAnswer, ReplyFits
  <1>2. UNCHANGED <<claim, session, jar, binder, opened, kept>>
    BY DEF VerifyIdentityMutationEmailLink
  <1>3. CASE status[i] = "mailed" /\ LinkAdmits(b, i) /\ Finish(b, i, "link")
    <2>1. ShapeKept /\ OthersStay(i) /\ InteractionMoves(i)
      BY <1>2, <1>3, LinkHolder, FinishMoves DEF Settled
    <2> QED
      BY <1>1, <1>2, <2>1, QuietRequest
  <1>4. CASE UNCHANGED <<status, finisher>>
    BY <1>1, <1>2, <1>4, NothingMoves, QuietRequest
  <1> QED
    BY <1>3, <1>4 DEF VerifyIdentityMutationEmailLink

LEMMA ReuseBrowserSessionKeeps ==
    ASSUME HostedAssumption, HostedInv, NEW b \in Browsers, NEW i \in Interactions,
           ReuseBrowserSession(b, i)
    PROVE  HostedInv'
  <1>1. i \notin Proofs /\ status[i] # "unbound" /\ ~Settled(i)
    BY HostedConstants DEF ReuseBrowserSession, Settled
  <1>2. binder[i] = b
    BY HolderBound DEF ReuseBrowserSession
  <1>3. ShapeKept /\ OthersStay(i) /\ InteractionMoves(i) /\ status'[i] = "done"
    BY <1>1, <1>2, FinishMoves DEF ReuseBrowserSession
  <1>4. Reply(Answer(b, {}, {InteractionCookie(i)}))
    BY DEF ReuseBrowserSession
  <1>5. WireFits
    BY <1>3, <1>4, PlainAnswer, ReplyFits
  <1> QED
    BY <1>3, <1>5, QuietRequest DEF ReuseBrowserSession

LEMMA ConfirmIdentityMutationReadyKeeps ==
    ASSUME HostedAssumption, HostedInv, NEW b \in Browsers, NEW i \in Interactions,
           ConfirmIdentityMutationReady(b, i)
    PROVE  HostedInv'
  <1>1. ~Settled(i) /\ "done" \in Past /\ "done" \in Statuses \ {"unbound", "exchange"}
    BY DEF ConfirmIdentityMutationReady, Settled, Past, Statuses
  <1>2. ShapeKept /\ OthersStay(i) /\ InteractionMoves(i)
    BY <1>1, StatusMoves DEF ConfirmIdentityMutationReady
  <1> QED
    BY <1>2, NothingSent, QuietRequest DEF ConfirmIdentityMutationReady

-----------------------------------------------------------------------------
(* The provider's callback *)

\* The cookie a callback is admitted with may be given up once the callback
\* is behind the interaction.
LEMMA CallbackAnswerFits ==
    ASSUME HostedAssumption, NEW b \in Browsers, NEW i \in Interactions,
           \E a : Reply(a) /\ a.to = b /\ a.sets = {} /\ a.clears = {CallbackCookie(i)},
           status'[i] \in Past, i \notin Proofs => status'[i] \in {"done", "ended"}
    PROVE  WireFits
  <1>1. CASE i \in Proofs
    <2>1. CallbackCookie(i) = ProofSlotCookie(i)
      BY <1>1 DEF CallbackCookie
    <2> QED
      BY <2>1, ReplyFits
  <1>2. CASE i \notin Proofs
    <2>1. CallbackCookie(i) = InteractionCookie(i)
      BY <1>2 DEF CallbackCookie
    <2> QED
      BY <1>2, <2>1, ReplyFits
  <1> QED
    BY <1>1, <1>2

LEMMA ProviderCallbackKeeps ==
    ASSUME HostedAssumption, HostedInv, NEW b \in Browsers, NEW i \in Interactions, ProviderCallback(b, i)
    PROVE  HostedInv'
  <1>1. ShapeKept /\ OthersStay(i)
    BY DEF ProviderCallback, ShapeKept, OthersStay, HostedInv, HostedShaped
  <1>2. status'[i] = "exchange" /\ claim'[i] = [browser |-> b, session |-> jar[b].session]
    BY DEF ProviderCallback, HostedInv, HostedShaped
  <1>3. claim'[i].browser = b
    BY <1>2
  <1>4. binder[i] = b
    BY HolderBound DEF ProviderCallback, CallbackAdmitted, CallbackCookie
  <1>5. status[i] = "provider" /\ InteractionFits(i)
    BY DEF HostedInv, ProviderCallback, CallbackAdmitted
  <1>6. InteractionMoves(i)
    BY <1>2, <1>3, <1>4, <1>5
       DEF ProviderCallback, InteractionMoves, InteractionFits, FinishedFits, Settled, Past, Statuses
  <1> QED
    BY <1>1, <1>6, NothingSent, QuietRequest DEF ProviderCallback

LEMMA DenyProviderCallbackKeeps ==
    ASSUME HostedAssumption, HostedInv, NEW b \in Browsers, NEW i \in Interactions,
           DenyProviderCallback(b, i)
    PROVE  HostedInv'
  <1>1. ~Settled(i) /\ "ended" \in Past /\ "ended" \in Statuses \ {"unbound", "exchange"}
    BY DEF DenyProviderCallback, CallbackAdmitted, Settled, Past, Statuses
  <1>2. ShapeKept /\ OthersStay(i) /\ InteractionMoves(i) /\ status'[i] = "ended"
    BY <1>1, StatusMoves DEF DenyProviderCallback
  <1>3. Reply(Answer(b, {}, {CallbackCookie(i)}))
    BY DEF DenyProviderCallback
  <1>4. WireFits
    BY <1>1, <1>2, <1>3, PlainAnswer, CallbackAnswerFits
  <1> QED
    BY <1>2, <1>4, QuietRequest DEF DenyProviderCallback

LEMMA DuplicateCallbackKeeps ==
    ASSUME HostedAssumption, HostedInv, NEW b \in Browsers, NEW i \in Interactions,
           DuplicateCallback(b, i)
    PROVE  HostedInv'
  <1>1. ShapeKept /\ OthersStay(i) /\ InteractionMoves(i)
    BY NothingMoves DEF DuplicateCallback
  <1>2. status'[i] \in Past /\ (i \notin Proofs => status'[i] \in {"done", "ended"})
    BY DEF DuplicateCallback, Past, Settled
  <1>3. Reply(Answer(b, {}, {CallbackCookie(i)}))
    BY DEF DuplicateCallback
  <1>4. WireFits
    BY <1>2, <1>3, PlainAnswer, CallbackAnswerFits
  <1> QED
    BY <1>1, <1>4, QuietRequest DEF DuplicateCallback

LEMMA CompleteProviderCallbackKeeps ==
    ASSUME HostedAssumption, HostedInv, NEW i \in Interactions, NEW u \in Users,
           CompleteProviderCallback(i, u)
    PROVE  HostedInv'
  <1>1. PICK b : b = claim[i].browser
    OBVIOUS
  <1>2. PICK credential : credential = claim[i].session
    OBVIOUS
  <1>3. /\ status[i] = "exchange" /\ Finish(b, i, "binding")
        /\ UNCHANGED <<claim, signOut, jar, binder, opened, kept>>
    BY <1>1 DEF CompleteProviderCallback
  <1>4. b \in Browsers /\ binder[i] = b
    BY <1>1, <1>3 DEF HostedInv, InteractionFits
  <1>5. ~Settled(i)
    BY <1>3 DEF Settled
  <1>6. CASE i \in Logins
    <2>1. RotateOrCreate(i, u, credential) /\ Reply(SignedIn(b, i, {CallbackCookie(i)}))
      BY <1>1, <1>2, <1>6 DEF CompleteProviderCallback
    <2>2. CallbackCookie(i) = InteractionCookie(i)
      BY <1>6, HostedConstants DEF CallbackCookie
    <2> QED
      BY <1>3, <1>4, <1>5, <1>6, <2>1, <2>2, SignInMoves
  <1>7. CASE i \notin Logins
    <2>1. Reply(Answer(b, {}, {CallbackCookie(i)})) /\ UNCHANGED session
      BY <1>1, <1>7 DEF CompleteProviderCallback
    <2>2. /\ ShapeKept /\ OthersStay(i) /\ InteractionMoves(i)
          /\ i \in Proofs => status'[i] = "proved"
          /\ i \notin Proofs => status'[i] = "done"
      BY <1>3, <1>4, <1>5, FinishMoves
    <2>3. WireFits
      BY <1>4, <2>1, <2>2, PlainAnswer, CallbackAnswerFits DEF Past
    <2> QED
      BY <1>3, <2>1, <2>2, <2>3, QuietRequest
  <1> QED
    BY <1>6, <1>7

LEMMA FailProviderCallbackKeeps ==
    ASSUME HostedAssumption, HostedInv, NEW i \in Interactions, FailProviderCallback(i)
    PROVE  HostedInv'
  <1>1. PICK b : b = claim[i].browser
    OBVIOUS
  <1>2. status[i] = "exchange" /\ ~Settled(i) /\ "ended" \in Past /\ "ended" \in Statuses \ {"unbound", "exchange"}
    BY DEF FailProviderCallback, Settled, Past, Statuses
  <1>3. ShapeKept /\ OthersStay(i) /\ InteractionMoves(i) /\ status'[i] = "ended"
    BY <1>2, StatusMoves DEF FailProviderCallback
  <1>4. b \in Browsers
    BY <1>1, <1>2 DEF HostedInv, InteractionFits
  <1>5. UNCHANGED wire \/ Reply(Answer(b, {}, {CallbackCookie(i)}))
    BY <1>1 DEF FailProviderCallback
  <1>6. WireFits
    BY <1>2, <1>3, <1>4, <1>5, NothingSent, PlainAnswer, CallbackAnswerFits
  <1> QED
    BY <1>3, <1>6, QuietRequest DEF FailProviderCallback

LEMMA ExpireKeeps ==
    ASSUME HostedAssumption, HostedInv, NEW i \in Interactions, Expire(i)
    PROVE  HostedInv'
  <1>1. ~Settled(i) /\ "ended" \in Past /\ "ended" \in Statuses \ {"unbound", "exchange"}
    BY DEF Expire, Past, Statuses
  <1>2. ShapeKept /\ OthersStay(i) /\ InteractionMoves(i)
    BY <1>1, StatusMoves DEF Expire
  <1> QED
    BY <1>2, NothingSent, QuietRequest DEF Expire

-----------------------------------------------------------------------------
(* Signing out, and the network *)

LEMMA EveryInteractionRests ==
    ASSUME HostedInv, UNCHANGED <<status, claim, binder, opened, finisher>>
    PROVE  ShapeKept /\ \A i \in Interactions : InteractionMoves(i)
  <1>1. ShapeKept
    BY DEF ShapeKept, HostedInv, HostedShaped
  <1> QED
    BY <1>1, NothingMoves

LEMMA BrowserLogoutShellKeeps ==
    ASSUME HostedAssumption, HostedInv, NEW b \in Browsers, NEW s \in Logins, BrowserLogoutShell(b, s)
    PROVE  HostedInv'
  <1>1. ShapeKept /\ \A i \in Interactions : InteractionMoves(i)
    BY EveryInteractionRests DEF BrowserLogoutShell
  <1>2. UNCHANGED <<jar, kept, session, wire>>
    BY DEF BrowserLogoutShell
  <1> QED
    BY <1>1, <1>2, SessionsStay, RequestKeeps

LEMMA ConfirmBrowserLogoutKeeps ==
    ASSUME HostedAssumption, HostedInv, NEW b \in Browsers, NEW s \in Logins, ConfirmBrowserLogout(b, s)
    PROVE  HostedInv'
  <1>1. ShapeKept /\ \A i \in Interactions : InteractionMoves(i)
    BY EveryInteractionRests DEF ConfirmBrowserLogout
  <1>2. s \in Interactions
    BY HostedConstants
  <1>3. WireFits
    <2>1. Reply([Answer(b, {}, {}) EXCEPT !.signedOut = TRUE])
      BY DEF ConfirmBrowserLogout
    <2>2. /\ [Answer(b, {}, {}) EXCEPT !.signedOut = TRUE].to = b
          /\ [Answer(b, {}, {}) EXCEPT !.signedOut = TRUE].sets = {}
          /\ [Answer(b, {}, {}) EXCEPT !.signedOut = TRUE].clears = {}
      BY DEF Answer
    <2>3. \E a : Reply(a) /\ a.to = b /\ a.sets = {} /\ a.clears = {}
      BY <2>1, <2>2
    <2> QED
      BY <1>2, <2>3, ReplyFits
  <1>4. ASSUME NEW r \in SessionRow
        PROVE  /\ [r EXCEPT !.status = "terminated"] \in SessionRow
               /\ [r EXCEPT !.status = "terminated"].status = "terminated"
    BY DEF SessionRow
  <1>5. /\ session'[s] = [session[s] EXCEPT !.status = "terminated"]
        /\ session' = [t \in Logins |-> session'[t]]
        /\ \A t \in Logins \ {s} : session'[t] = session[t]
    BY DEF ConfirmBrowserLogout, HostedInv, HostedShaped
  <1>6. \A t \in Logins : session[t] \in SessionRow /\ SessionFits(t)
    BY DEF HostedInv, HostedShaped
  <1>7. session'[s] \in SessionRow /\ session'[s].status = "terminated"
    BY <1>4, <1>5, <1>6
  <1>8. session' \in [Logins -> SessionRow]
    BY <1>5, <1>6, <1>7
  <1>9. ASSUME NEW t \in Logins PROVE SessionFits(t)'
    <2>1. status' = status
      BY DEF ConfirmBrowserLogout
    <2> QED
      BY <1>5, <1>6, <1>7, <2>1 DEF SessionFits
  <1>10. UNCHANGED <<jar, kept>>
    BY DEF ConfirmBrowserLogout
  <1> QED
    BY <1>1, <1>3, <1>8, <1>9, <1>10, RequestKeeps DEF WireFits

LEMMA LoseKeeps ==
    ASSUME HostedAssumption, HostedInv, NEW a \in wire, Lose(a)
    PROVE  HostedInv'
  <1>1. ShapeKept /\ \A i \in Interactions : InteractionMoves(i)
    BY EveryInteractionRests DEF Lose
  <1>2. UNCHANGED <<jar, kept, session>> /\ \A x \in wire' : x \in wire
    BY DEF Lose
  <1> QED
    BY <1>1, <1>2, SessionsStay, RequestKeeps

\* An answer that arrives changes one jar; what it takes back is no longer
\* needed, whenever it arrives.
LEMMA DeliverKeeps ==
    ASSUME HostedAssumption, HostedInv, NEW a \in wire, Deliver(a)
    PROVE  HostedInv'
  <1> USE HostedConstants
  <1>1. AnswerFits(a)
    BY DEF HostedInv
  <1>2. PICK b \in Browsers : b = a.to
    BY <1>1 DEF AnswerFits
  <1>3. UNCHANGED <<status, claim, session, binder, opened, finisher>> /\ \A x \in wire' : x \in wire
    BY DEF Deliver
  <1>4. /\ jar' = [c \in Browsers |-> jar'[c]] /\ kept' = [c \in Browsers |-> kept'[c]]
        /\ \A c \in Browsers \ {b} : jar'[c] = jar[c] /\ kept'[c] = kept[c]
        /\ jar'[b].cookies = (jar[b].cookies \cup a.sets) \ a.clears
        /\ kept'[b] = kept[b] \cup a.sets
    BY <1>2 DEF Deliver, HostedInv, HostedShaped
  <1>5. HostedShaped'
    BY <1>3, <1>4 DEF HostedInv, HostedShaped, Interactions, Statuses, SessionRow
  <1>6. \A i \in Interactions : InteractionFits(i)'
    BY <1>3 DEF HostedInv, InteractionFits, FinishedFits
  <1>7. ASSUME NEW x \in wire' PROVE AnswerFits(x)'
    <2>1. AnswerFits(x)
      BY <1>3 DEF HostedInv
    <2> QED
      BY <1>3, <2>1 DEF AnswerFits, CookiesFit, ClearsFit, Settled, Cookies, Interactions, Past,
                       InteractionCookie, ProofSlotCookie, TransferCookie
  <1>8. ASSUME NEW c \in Browsers PROVE BrowserFits(c)'
    <2>1. BrowserFits(c) /\ BrowserFits(b)
      BY DEF HostedInv
    <2>2. CASE c # b
      <3>1. jar'[c] = jar[c] /\ kept'[c] = kept[c]
        BY <1>4, <2>2
      <3> QED
        BY <1>3, <2>1, <3>1 DEF BrowserFits, CookiesFit, Settled, Cookies, Interactions, Past,
                                InteractionCookie, ProofSlotCookie, TransferCookie
    <2>3. CASE c = b
      <3>1. CookiesFit(b, jar[b].cookies) /\ CookiesFit(b, a.sets) /\ ClearsFit(a.clears)
        BY <1>1, <1>2, <2>1 DEF AnswerFits, BrowserFits
      <3>2. CookiesFit(b, jar[b].cookies)'
        BY <1>3, <1>4, <3>1 DEF CookiesFit, Cookies, Interactions,
                                InteractionCookie, ProofSlotCookie, TransferCookie
      <3>3. ASSUME NEW i \in Interactions, InteractionCookie(i) \in kept'[b]
            PROVE  Settled(i)' \/ InteractionCookie(i) \in jar'[b].cookies
        <4>1. CASE InteractionCookie(i) \in a.clears
          BY <1>3, <3>1, <4>1 DEF ClearsFit, Settled
        <4>2. CASE InteractionCookie(i) \notin a.clears
          BY <1>3, <1>4, <2>1, <3>3, <4>2 DEF BrowserFits, Settled
        <4> QED
          BY <4>1, <4>2
      <3>4. ASSUME NEW i \in Interactions, ProofSlotCookie(i) \in kept'[b]
            PROVE  status'[i] \in Past \/ ProofSlotCookie(i) \in jar'[b].cookies
        <4>1. CASE ProofSlotCookie(i) \in a.clears
          BY <1>3, <3>1, <4>1 DEF ClearsFit
        <4>2. CASE ProofSlotCookie(i) \notin a.clears
          BY <1>3, <1>4, <2>1, <3>4, <4>2 DEF BrowserFits
        <4> QED
          BY <4>1, <4>2
      <3> QED
        BY <2>3, <3>2, <3>3, <3>4 DEF BrowserFits, Interactions, InteractionCookie, ProofSlotCookie, Past
    <2> QED
      BY <2>2, <2>3
  <1>9. \A s \in Logins : SessionFits(s)'
    BY <1>3 DEF HostedInv, SessionFits
  <1> QED
    BY <1>5, <1>6, <1>7, <1>8, <1>9 DEF HostedInv, Interactions

-----------------------------------------------------------------------------

LEMMA HostedStutterKeeps ==
    ASSUME HostedAssumption, HostedInv, UNCHANGED hostedVars
    PROVE  HostedInv'
  <1>1. ShapeKept /\ \A i \in Interactions : InteractionMoves(i)
    BY EveryInteractionRests DEF hostedVars
  <1>2. UNCHANGED <<jar, kept, session, wire>>
    BY DEF hostedVars
  <1> QED
    BY <1>1, <1>2, SessionsStay, RequestKeeps

LEMMA HostedStepKeeps ==
    ASSUME HostedAssumption, HostedInv, [HostedNext]_hostedVars
    PROVE  HostedInv'
  <1>1. CASE \E b \in Browsers, i \in Interactions : Visit(b, i)
    <2>1. PICK b \in Browsers, i \in Interactions : Visit(b, i)
      BY <1>1
    <2> QED
      BY <2>1, ShellKeeps, MagicShellKeeps, ProviderCallbackKeeps, DenyProviderCallbackKeeps,
         DuplicateCallbackKeeps
         DEF Visit, HostedInteractionShell, IdentityMutationShell, ManagedReauthorizationShell,
             EmailMagicConfirmationShell, IdentityMutationMagicShell
  <1>2. CASE \E b \in Browsers, i \in Interactions : Command(b, i)
    <2>1. PICK b \in Browsers, i \in Interactions : Command(b, i)
      BY <1>2
    <2> QED
      BY <2>1, SelectionKeeps, EmailChallengeKeeps, VerifyIdentityMutationEmailOtpKeeps,
         VerifyIdentityMutationEmailLinkKeeps, ReuseBrowserSessionKeeps, ConfirmIdentityMutationReadyKeeps
         DEF Command, BeginEmailChallenge, BeginIdentityMutationEmailChallenge
  <1>3. CASE \E b \in Browsers, i \in Interactions, u \in Users :
                 VerifyEmailOtp(b, i, u) \/ ConfirmEmailMagic(b, i, u)
    BY <1>3, VerifyEmailOtpKeeps, ConfirmEmailMagicKeeps
  <1>4. CASE \E i \in Interactions, u \in Users : CompleteProviderCallback(i, u)
    BY <1>4, CompleteProviderCallbackKeeps
  <1>5. CASE \E i \in Interactions : FailProviderCallback(i) \/ Expire(i)
    BY <1>5, FailProviderCallbackKeeps, ExpireKeeps
  <1>6. CASE \E b \in Browsers, s \in Logins : BrowserLogoutShell(b, s) \/ ConfirmBrowserLogout(b, s)
    BY <1>6, BrowserLogoutShellKeeps, ConfirmBrowserLogoutKeeps
  <1>7. CASE \E a \in wire : Deliver(a) \/ Lose(a)
    BY <1>7, DeliverKeeps, LoseKeeps
  <1>8. CASE UNCHANGED hostedVars
    BY <1>8, HostedStutterKeeps
  <1> QED
    BY <1>1, <1>2, <1>3, <1>4, <1>5, <1>6, <1>7, <1>8 DEF HostedNext

\* The inductive invariant holds in every state: what is on the way to a
\* browser, and what its jar holds, fits the interactions as they are now.
THEOREM HostedInvariant ==
    ASSUME HostedAssumption
    PROVE  HostedSpec => []HostedInv
  <1>1. HostedInit => HostedInv
    BY HostedInitEstablishes
  <1>2. HostedInv /\ [HostedNext]_hostedVars => HostedInv'
    BY HostedStepKeeps
  <1> QED
    BY <1>1, <1>2, PTL DEF HostedSpec

LEMMA HostedInvGivesSafe ==
    ASSUME HostedAssumption, HostedInv
    PROVE  HostedSafe
  <1> USE HostedConstants
  <1>1. HostedTypeOK
    BY DEF HostedInv, HostedShaped, HostedTypeOK, Statuses, BrowserFits, CookiesFit, SessionFits
  <1>2. OneBrowserPerInteraction
    BY HolderBound DEF OneBrowserPerInteraction
  <1>3. FinishedByItsBrowser
    BY DEF HostedInv, InteractionFits, FinishedFits, FinishedByItsBrowser
  <1>4. CookieLastsAsNeeded
    BY DEF HostedInv, BrowserFits, CookieLastsAsNeeded, Holds, Past
  <1> QED
    BY <1>1, <1>2, <1>3, <1>4 DEF HostedSafe

\* However many browsers, tabs and interactions there are, and whatever
\* becomes of the answers on the way: an interaction's cookies are with one
\* browser, it is finished by that browser or by one that opened its link
\* where links travel, and no late or repeated answer takes a cookie away
\* that is still needed (HostedSafe; the hosted handlers of http.rs).
THEOREM HostedIsSafe ==
    ASSUME HostedAssumption
    PROVE  HostedSpec => []HostedSafe
  <1>1. HostedInv => HostedSafe
    BY HostedInvGivesSafe
  <1> QED
    BY <1>1, HostedInvariant, PTL

-----------------------------------------------------------------------------
(* Transfer contexts *)

\* What the proofs use of the constants.
LEMMA MagicConstants ==
    ASSUME MagicAssumption
    PROVE  /\ Origin \in Holders /\ None \notin Holders /\ None \notin Contexts
           /\ IsFiniteSet(Contexts)
           /\ MaxGeneration \in Nat /\ MaxContexts \in Nat /\ MaxContexts > 0 /\ Validity \in Nat
           /\ ContextTtl \in Nat /\ OwnerDeadline \in Nat /\ MaxClockLag \in Nat /\ MaxTime \in Nat
  BY DEF MagicAssumption

-----------------------------------------------------------------------------
(* The inductive invariant *)

ChallengeRow == [status : {"none", "pending", "delivery_unavailable", "superseded", "expired", "consumed"},
                 required : BOOLEAN, expires : 0..OwnerDeadline]
ContextRow == [status : {"none", "pending", "expired", "consumed", "deleted"},
               challenge : 0..MaxGeneration, holder : Holders \cup {None}, expires : 0..OwnerDeadline]
AttemptRow == [challenge : 0..MaxGeneration, via : Contexts \cup {None}]

\* The generations that were issued are the first ones: the newest is their number.
GenerationsInOrder == \E n \in 0..MaxGeneration : \A g \in Generations : g \in Issued <=> g <= n

\* A context that may be used was opened for a generation that was issued.
ContextsKnown ==
    \A c \in Contexts : context[c].status = "pending" => context[c].challenge \in Issued

AttemptsNamed == \A b \in Holders : attempt[b] # NoAttempt => attempt[b].challenge \in Generations

\* While the owner is not completed nothing is spent; one thing is when it is.
SpentOnce ==
    /\ owner # "completed" => /\ \A g \in Generations : challenge[g].status # "consumed"
                              /\ \A c \in Contexts : context[c].status # "consumed"
    /\ owner = "completed" => \E g \in Generations :
          /\ challenge[g].status = "consumed"
          /\ \A h \in Generations : challenge[h].status = "consumed" => h = g
    /\ \A c, d \in Contexts : context[c].status = "consumed" /\ context[d].status = "consumed" => c = d
    /\ \A c \in Contexts : context[c].status = "consumed" =>
          context[c].challenge \in Generations /\ challenge[context[c].challenge].status = "consumed"

MagicInv ==
    /\ MagicTypeOK /\ GenerationsInOrder /\ ContextsKnown /\ AttemptsNamed
    /\ SpentOnce /\ BoundLinksStayBound /\ ContextsBounded /\ ContextsEndFirst

LEMMA TypeByRows ==
    MagicTypeOK <=> /\ clock \in 0..MaxTime
                    /\ owner \in {"pending", "completed", "expired"}
                    /\ challenge \in [Generations -> ChallengeRow]
                    /\ context \in [Contexts -> ContextRow]
                    /\ attempt \in [Holders -> AttemptRow]
                    /\ winner \in Holders \cup {None}
  BY Zenon DEF MagicTypeOK, ChallengeRow, ContextRow, AttemptRow

LEMMA TypeByRowsNext ==
    MagicTypeOK' <=> /\ clock' \in 0..MaxTime
                     /\ owner' \in {"pending", "completed", "expired"}
                     /\ challenge' \in [Generations -> ChallengeRow]
                     /\ context' \in [Contexts -> ContextRow]
                     /\ attempt' \in [Holders -> AttemptRow]
                     /\ winner' \in Holders \cup {None}
  BY Zenon DEF MagicTypeOK, ChallengeRow, ContextRow, AttemptRow, Generations

LEMMA LesserOf ==
    ASSUME NEW a \in Nat, NEW b \in Nat
    PROVE  Lesser(a, b) \in Nat /\ Lesser(a, b) <= a /\ Lesser(a, b) <= b
  BY DEF Lesser

LEMMA GenerationsAreNumbers ==
    ASSUME MagicAssumption, NEW g \in Generations
    PROVE  g \in Nat /\ g >= 1 /\ g <= MaxGeneration /\ g \in 0..MaxGeneration
  BY MagicConstants DEF Generations

\* The newest generation is the number of those issued.
LEMMA NewestCounts ==
    ASSUME MagicAssumption, NEW n \in 0..MaxGeneration, \A g \in Generations : g \in Issued <=> g <= n
    PROVE  Newest = n
  <1> USE MagicConstants
  <1>1. CASE n = 0
    <2>1. Issued = {}
      BY <1>1 DEF Issued, Generations
    <2> QED
      BY <1>1, <2>1 DEF Newest
  <1>2. CASE n # 0
    <2>1. n \in Generations /\ n \in Issued
      BY <1>2 DEF Generations
    <2>2. \A h \in Issued : h \in Nat /\ h <= n
      BY DEF Issued, Generations
    <2>3. \E g \in Issued : \A h \in Issued : h <= g
      BY <2>1, <2>2
    <2>4. Newest \in Issued /\ \A h \in Issued : h <= Newest
      BY <2>1, <2>3 DEF Newest
    <2>5. Newest \in Nat /\ Newest <= n /\ n <= Newest
      BY <2>1, <2>2, <2>4
    <2> QED
      BY <2>5
  <1> QED
    BY <1>1, <1>2

LEMMA ReadingIsPast ==
    ASSUME MagicAssumption, clock \in 0..MaxTime, NEW t \in Reading
    PROVE  t \in Nat /\ t <= clock
  BY MagicConstants DEF Reading

LEMMA ContextsAreFinite ==
    ASSUME MagicAssumption, NEW S, S \subseteq Contexts
    PROVE  IsFiniteSet(S) /\ Cardinality(S) \in Nat
  BY MagicConstants, FS_Subset, FS_CardinalityType

LEMMA MagicInitEstablishes ==
    ASSUME MagicAssumption, MagicInit
    PROVE  MagicInv
  <1> USE MagicConstants
  <1>1. MagicTypeOK
    BY DEF MagicInit, MagicTypeOK, NoContext, NoAttempt
  <1>2. Issued = {}
    BY DEF MagicInit, Issued
  <1>3. GenerationsInOrder
    <2>1. \A g \in Generations : g \in Issued <=> g <= 0
      BY <1>2 DEF Generations
    <2> QED
      BY <2>1 DEF GenerationsInOrder
  <1>4. /\ ContextsKnown /\ AttemptsNamed /\ SpentOnce /\ BoundLinksStayBound /\ ContextsEndFirst
    BY DEF MagicInit, ContextsKnown, AttemptsNamed, SpentOnce, BoundLinksStayBound, ContextsEndFirst, NoContext
  <1>5. ContextsBounded
    <2>1. \A g \in Generations : ContextsOf(g, clock) = {}
      BY DEF MagicInit, ContextsOf, Unexpired, NoContext
    <2> QED
      BY <2>1, FS_EmptySet DEF ContextsBounded
  <1> QED
    BY <1>1, <1>3, <1>4, <1>5 DEF MagicInv

-----------------------------------------------------------------------------
(* What a step keeps *)

\* Contexts that are usable after a step were usable before: the limit is kept.
LEMMA ContextsShrink ==
    ASSUME MagicAssumption, MagicTypeOK, ContextsBounded, clock' \in Nat, clock <= clock',
           \A c \in Contexts : context'[c].status = "pending" => context'[c] = context[c]
    PROVE  ContextsBounded'
  <1> SUFFICES ASSUME NEW g \in Generations
               PROVE  Cardinality(ContextsOf(g, clock)') <= MaxContexts
    BY DEF ContextsBounded, Generations
  <1>1. ContextsOf(g, clock)' \subseteq ContextsOf(g, clock)
    <2> SUFFICES ASSUME NEW c \in Contexts, c \in ContextsOf(g, clock)'
                 PROVE  c \in ContextsOf(g, clock)
      BY DEF ContextsOf
    <2>1. context'[c].challenge = g /\ context'[c].status = "pending" /\ clock' < context'[c].expires
      BY DEF ContextsOf, Unexpired
    <2>2. context'[c] = context[c] /\ context[c].expires \in Nat /\ clock \in Nat
      BY <2>1, MagicConstants DEF MagicTypeOK
    <2>3. clock < context[c].expires
      BY <2>1, <2>2
    <2> QED
      BY <2>1, <2>2, <2>3 DEF ContextsOf, Unexpired
  <1>2. Cardinality(ContextsOf(g, clock)') <= Cardinality(ContextsOf(g, clock))
        /\ Cardinality(ContextsOf(g, clock)) \in Nat /\ Cardinality(ContextsOf(g, clock)') \in Nat
    <2>1. ContextsOf(g, clock) \subseteq Contexts /\ ContextsOf(g, clock)' \subseteq Contexts
      BY DEF ContextsOf
    <2> QED
      BY <1>1, <2>1, ContextsAreFinite, FS_Subset
  <1>3. Cardinality(ContextsOf(g, clock)) <= MaxContexts
    BY DEF ContextsBounded
  <1> QED
    BY <1>2, <1>3, MagicConstants

\* A step that issues nothing keeps the order of the generations.
LEMMA OrderKept ==
    ASSUME GenerationsInOrder, Issued' = Issued
    PROVE  GenerationsInOrder'
  BY DEF GenerationsInOrder, Generations

LEMMA IssuedKept ==
    ASSUME \A g \in Generations : (challenge'[g].status = "none") <=> (challenge[g].status = "none")
    PROVE  Issued' = Issued
  BY DEF Issued, Generations

\* A step on the clock, the owner or the attempts only.
LEMMA RowsKeepMagic ==
    ASSUME MagicAssumption, MagicInv, UNCHANGED <<challenge, context, winner>>,
           clock' \in 0..MaxTime, clock <= clock',
           owner' = owner \/ (owner = "pending" /\ owner' = "expired"),
           attempt' \in [Holders -> AttemptRow],
           \A b \in Holders : attempt'[b] # NoAttempt => attempt'[b].challenge \in Generations
    PROVE  MagicInv'
  <1> USE MagicConstants DEF MagicInv
  <1>1. MagicTypeOK'
    BY TypeByRows, TypeByRowsNext
  <1>2. GenerationsInOrder' /\ ContextsKnown'
    <2>1. Issued' = Issued
      BY IssuedKept
    <2> QED
      BY <2>1, OrderKept DEF ContextsKnown
  <1>3. AttemptsNamed'
    BY DEF AttemptsNamed, NoAttempt, Generations
  <1>4. SpentOnce'
    BY DEF SpentOnce, Generations
  <1>5. BoundLinksStayBound' /\ ContextsEndFirst'
    BY DEF BoundLinksStayBound, ContextsEndFirst, Generations
  <1>6. ContextsBounded'
    BY ContextsShrink
  <1> QED
    BY <1>1, <1>2, <1>3, <1>4, <1>5, <1>6

LEMMA SmallStepsKeep ==
    ASSUME MagicAssumption, MagicInv,
           \/ \E b \in Holders : DropAttempt(b)
           \/ \E t \in Reading, b \in Holders, g \in Generations, via \in Contexts \cup {None} :
                 VerifyEmailProof(b, via, g, t)
           \/ ExpireOwner \/ Tick
           \/ UNCHANGED magicVars
    PROVE  MagicInv'
  <1> USE MagicConstants DEF MagicInv
  <1>1. clock \in 0..MaxTime /\ attempt \in [Holders -> AttemptRow]
    BY TypeByRows
  <1>2. NoAttempt \in AttemptRow
    BY DEF NoAttempt, AttemptRow
  <1>3. ASSUME NEW b \in Holders, DropAttempt(b) PROVE MagicInv'
    <2>1. attempt' \in [Holders -> AttemptRow]
      BY <1>1, <1>2, <1>3 DEF DropAttempt
    <2>2. \A d \in Holders : attempt'[d] # NoAttempt => attempt'[d].challenge \in Generations
      BY <1>1, <1>3 DEF DropAttempt, AttemptsNamed
    <2> QED
      BY <1>1, <1>3, <2>1, <2>2, RowsKeepMagic DEF DropAttempt
  <1>4. ASSUME NEW t \in Reading, NEW b \in Holders, NEW g \in Generations, NEW via \in Contexts \cup {None},
               VerifyEmailProof(b, via, g, t)
        PROVE  MagicInv'
    <2> DEFINE new == [challenge |-> g, via |-> via]
    <2>1. new \in AttemptRow /\ new.challenge \in Generations
      BY GenerationsAreNumbers DEF AttemptRow
    <2>2. attempt' = [attempt EXCEPT ![b] = new]
      BY <1>4 DEF VerifyEmailProof
    <2> HIDE DEF new
    <2>3. attempt' \in [Holders -> AttemptRow]
      BY <1>1, <2>1, <2>2
    <2>4. \A d \in Holders : attempt'[d] # NoAttempt => attempt'[d].challenge \in Generations
      BY <1>1, <2>1, <2>2 DEF AttemptsNamed
    <2>5. UNCHANGED <<clock, owner, challenge, context, winner>>
      BY <1>4 DEF VerifyEmailProof
    <2> QED
      BY <1>1, <2>3, <2>4, <2>5, RowsKeepMagic
  <1>5. CASE ExpireOwner
    BY <1>1, <1>5, RowsKeepMagic DEF ExpireOwner, AttemptsNamed
  <1>6. CASE Tick
    BY <1>1, <1>6, RowsKeepMagic DEF Tick, AttemptsNamed
  <1>7. CASE UNCHANGED magicVars
    BY <1>1, <1>7, RowsKeepMagic DEF magicVars, AttemptsNamed
  <1> QED
    BY <1>3, <1>4, <1>5, <1>6, <1>7

LEMMA CommitGenerationKeeps ==
    ASSUME MagicAssumption, MagicInv, NEW t \in Reading, NEW required \in BOOLEAN, NEW dispatch \in BOOLEAN,
           CommitGeneration(required, dispatch, t)
    PROVE  MagicInv'
  <1> USE MagicConstants DEF MagicInv
  <1>1. /\ clock \in 0..MaxTime /\ challenge \in [Generations -> ChallengeRow]
        /\ context \in [Contexts -> ContextRow]
    BY TypeByRows
  <1>2. PICK n \in 0..MaxGeneration : \A g \in Generations : g \in Issued <=> g <= n
    BY DEF GenerationsInOrder
  <1>3. Newest = n
    BY <1>2, NewestCounts
  <1>4. PICK g \in Generations : g = n + 1 /\ g \notin Issued
    BY <1>2, <1>3, GenerationsAreNumbers DEF CommitGeneration
  <1>5. owner = "pending" /\ UNCHANGED <<clock, owner, context, attempt, winner>>
    BY DEF CommitGeneration
  <1> DEFINE fresh == [status |-> IF dispatch THEN "pending" ELSE "delivery_unavailable",
                       required |-> required, expires |-> Lesser(t + Validity, OwnerDeadline)]
  <1>6. fresh \in ChallengeRow /\ fresh.status \notin {"none", "consumed"}
    <2>1. t + Validity \in Nat
      BY <1>1, ReadingIsPast
    <2>2. Lesser(t + Validity, OwnerDeadline) \in 0..OwnerDeadline
      BY <2>1, LesserOf
    <2> QED
      BY <2>2 DEF ChallengeRow
  <1>7. challenge' = [h \in Generations |->
           IF h = g THEN fresh
           ELSE IF challenge[h].status \in {"pending", "delivery_unavailable"}
                THEN [challenge[h] EXCEPT !.status = "superseded"] ELSE challenge[h]]
    BY <1>3, <1>4 DEF CommitGeneration
  <1> HIDE DEF fresh
  <1>8. /\ challenge'[g] = fresh
        /\ \A h \in Generations : h # g =>
              /\ challenge'[h] \in ChallengeRow
              /\ challenge'[h].expires = challenge[h].expires
              /\ challenge'[h].required = challenge[h].required
              /\ (challenge'[h].status = "none") <=> (challenge[h].status = "none")
              /\ (challenge'[h].status = "consumed") <=> (challenge[h].status = "consumed")
    <2>1. ASSUME NEW r \in ChallengeRow
          PROVE  LET new == [r EXCEPT !.status = "superseded"]
                 IN  new \in ChallengeRow /\ new.expires = r.expires /\ new.required = r.required
                     /\ new.status = "superseded"
      BY DEF ChallengeRow
    <2> QED
      BY <1>1, <1>7, <2>1
  <1>9. MagicTypeOK'
    <2>1. challenge' \in [Generations -> ChallengeRow]
      BY <1>6, <1>7, <1>8
    <2> QED
      BY <1>5, <2>1, TypeByRows, TypeByRowsNext
  <1>10. Issued' = Issued \cup {g}
    BY <1>6, <1>8 DEF Issued, Generations
  <1>11. GenerationsInOrder'
    <2>1. n + 1 \in 0..MaxGeneration
      BY <1>4, GenerationsAreNumbers
    <2>2. \A h \in Generations : h \in Issued' <=> h <= n + 1
      BY <1>2, <1>4, <1>10, GenerationsAreNumbers
    <2> QED
      BY <2>1, <2>2 DEF GenerationsInOrder, Generations
  <1>12. ContextsKnown' /\ AttemptsNamed'
    BY <1>5, <1>10 DEF ContextsKnown, AttemptsNamed, Generations
  <1>13. SpentOnce'
    BY <1>5, <1>6, <1>8 DEF SpentOnce, Generations
  <1>14. BoundLinksStayBound'
    BY <1>5, <1>6, <1>8 DEF BoundLinksStayBound, Generations
  <1>15. ContextsEndFirst'
    <2>1. \A c \in Contexts : context[c].status = "pending" =>
             context[c].challenge \in Generations /\ context[c].challenge # g
      BY <1>4 DEF ContextsKnown, Issued
    <2> QED
      BY <1>5, <1>8, <2>1 DEF ContextsEndFirst
  <1>16. ContextsBounded'
    BY <1>1, <1>5, ContextsShrink
  <1> QED
    BY <1>9, <1>11, <1>12, <1>13, <1>14, <1>15, <1>16

LEMMA EstablishKeeps ==
    ASSUME MagicAssumption, MagicInv, NEW t \in Reading, NEW b \in Holders, NEW g \in Generations,
           NEW c \in Contexts, EstablishMagicTransferContext(c, g, b, t)
    PROVE  MagicInv'
  <1> USE MagicConstants DEF MagicInv
  <1>1. /\ clock \in 0..MaxTime /\ challenge \in [Generations -> ChallengeRow]
        /\ context \in [Contexts -> ContextRow] /\ t \in Nat /\ t <= clock
    BY TypeByRows, ReadingIsPast
  <1>2. /\ UNCHANGED <<clock, owner, challenge, attempt, winner>>
        /\ context[c].status = "none" /\ owner = "pending" /\ challenge[g].status = "pending"
        /\ Cardinality(ContextsOf(g, t)) < MaxContexts
    BY DEF EstablishMagicTransferContext, ChallengeLive, ContextRoom
  <1> DEFINE new == [status |-> "pending", challenge |-> g, holder |-> b, expires |-> ContextExpiry(g, t)]
  <1>3. challenge[g].expires \in 0..OwnerDeadline /\ challenge[g].expires \in Nat
    BY <1>1 DEF ChallengeRow
  <1>4. /\ ContextExpiry(g, t) \in 0..OwnerDeadline
        /\ ContextExpiry(g, t) <= challenge[g].expires /\ ContextExpiry(g, t) <= OwnerDeadline
    <2> DEFINE e == Lesser(challenge[g].expires, OwnerDeadline)
    <2>1. e \in Nat /\ e <= challenge[g].expires /\ e <= OwnerDeadline
      BY <1>3, LesserOf
    <2> HIDE DEF e
    <2>2. t + ContextTtl \in Nat
      BY <1>1
    <2>3. Lesser(t + ContextTtl, e) \in Nat /\ Lesser(t + ContextTtl, e) <= e
      BY <2>1, <2>2, LesserOf
    <2>4. ContextExpiry(g, t) = Lesser(t + ContextTtl, e)
      BY DEF ContextExpiry, e
    <2> QED
      BY <1>3, <2>1, <2>3, <2>4
  <1>5. /\ new \in ContextRow /\ new.status = "pending" /\ new.challenge = g
        /\ new.expires = ContextExpiry(g, t)
    BY <1>4, GenerationsAreNumbers DEF ContextRow
  <1>6. /\ context'[c] = new
        /\ \A d \in Contexts : d # c =>
              /\ context'[d] \in ContextRow
              /\ context'[d].status = "pending" => context'[d] = context[d]
              /\ context'[d].status = "consumed" => context'[d] = context[d]
    <2>1. ASSUME NEW r \in ContextRow
          PROVE  LET old == [r EXCEPT !.status = "expired"]
                 IN  old \in ContextRow /\ old.status = "expired"
      BY DEF ContextRow
    <2>2. context' = [ExpirePending(g, t) EXCEPT ![c] = new]
      BY DEF EstablishMagicTransferContext
    <2> HIDE DEF new
    <2>3. /\ context'[c] = new
          /\ \A d \in Contexts : d # c =>
                context'[d] = IF context[d].challenge = g /\ context[d].status = "pending"
                                 /\ context[d].expires <= t
                              THEN [context[d] EXCEPT !.status = "expired"] ELSE context[d]
      BY <2>2 DEF ExpirePending
    <2> QED
      BY <1>1, <2>1, <2>3
  <1>7. context' \in [Contexts -> ContextRow]
    <2>1. context' = [d \in Contexts |-> context'[d]]
      BY DEF EstablishMagicTransferContext, ExpirePending
    <2> HIDE DEF new
    <2> QED
      BY <1>5, <1>6, <2>1
  <1> HIDE DEF new
  <1>8. MagicTypeOK'
    BY <1>2, <1>7, TypeByRows, TypeByRowsNext
  <1>9. Issued' = Issued /\ GenerationsInOrder'
    <2>1. Issued' = Issued
      BY <1>2, IssuedKept
    <2> QED
      BY <2>1, OrderKept
  <1>10. ContextsKnown'
    <2>1. g \in Issued
      BY <1>2 DEF Issued
    <2> QED
      BY <1>5, <1>6, <1>9, <2>1 DEF ContextsKnown
  <1>11. AttemptsNamed' /\ BoundLinksStayBound'
    BY <1>2 DEF AttemptsNamed, BoundLinksStayBound, Generations
  <1>12. SpentOnce'
    <2>1. \A d \in Contexts : context'[d].status # "consumed"
      BY <1>2, <1>5, <1>6 DEF SpentOnce
    <2> QED
      BY <1>2, <2>1 DEF SpentOnce, Generations
  <1>13. ContextsEndFirst'
    BY <1>2, <1>4, <1>5, <1>6 DEF ContextsEndFirst
  <1>14. ContextsBounded'
    <2> SUFFICES ASSUME NEW h \in Generations
                 PROVE  Cardinality(ContextsOf(h, clock)') <= MaxContexts
      BY DEF ContextsBounded, Generations
    <2>1. \A d \in Contexts : context[d].expires \in Nat
      BY <1>1 DEF ContextRow
    <2>2. ContextsOf(h, clock) \subseteq Contexts /\ ContextsOf(h, t) \subseteq Contexts
          /\ ContextsOf(h, clock)' \subseteq Contexts
      BY DEF ContextsOf
    <2>3. CASE h = g
      <3>1. ContextsOf(h, clock)' \subseteq ContextsOf(g, t) \cup {c}
        BY <1>1, <1>2, <1>6, <2>1, <2>3 DEF ContextsOf, Unexpired
      <3>2. c \notin ContextsOf(g, t)
        BY <1>2 DEF ContextsOf, Unexpired
      <3>3. Cardinality(ContextsOf(g, t) \cup {c}) = Cardinality(ContextsOf(g, t)) + 1
            /\ IsFiniteSet(ContextsOf(g, t) \cup {c})
        BY <2>2, <2>3, <3>2, ContextsAreFinite, FS_AddElement
      <3>4. Cardinality(ContextsOf(h, clock)') <= Cardinality(ContextsOf(g, t)) + 1
        BY <3>1, <3>3, FS_Subset
      <3> QED
        BY <1>2, <2>2, <2>3, <3>4, ContextsAreFinite
    <2>4. CASE h # g
      <3>1. ContextsOf(h, clock)' \subseteq ContextsOf(h, clock)
        BY <1>2, <1>5, <1>6, <2>4 DEF ContextsOf, Unexpired
      <3>2. Cardinality(ContextsOf(h, clock)') <= Cardinality(ContextsOf(h, clock))
        BY <2>2, <3>1, ContextsAreFinite, FS_Subset
      <3>3. Cardinality(ContextsOf(h, clock)) <= MaxContexts
        BY DEF ContextsBounded
      <3> QED
        BY <2>2, <3>2, <3>3, ContextsAreFinite
    <2> QED
      BY <2>3, <2>4
  <1> QED
    BY <1>8, <1>9, <1>10, <1>11, <1>12, <1>13, <1>14

LEMMA CompleteKeeps ==
    ASSUME MagicAssumption, MagicInv, NEW t \in Reading, NEW b \in Holders, CompleteEmailProof(b, t)
    PROVE  MagicInv'
  <1> USE MagicConstants DEF MagicInv
  <1>1. /\ clock \in 0..MaxTime /\ challenge \in [Generations -> ChallengeRow]
        /\ context \in [Contexts -> ContextRow] /\ attempt \in [Holders -> AttemptRow]
    BY TypeByRows
  <1>2. PICK g \in Generations, via \in Contexts \cup {None} : g = attempt[b].challenge /\ via = attempt[b].via
    BY <1>1 DEF CompleteEmailProof, AttemptsNamed, AttemptRow
  <1>3. /\ owner = "pending" /\ challenge[g].status = "pending" /\ AdmittedBy(b, via, g, t)
        /\ context' = IF via = None THEN context ELSE Consumed(via)
        /\ challenge' = [challenge EXCEPT ![g].status = "consumed"]
        /\ owner' = "completed" /\ winner' = b /\ clock' = clock
        /\ attempt' = [attempt EXCEPT ![b] = NoAttempt]
    BY <1>2 DEF CompleteEmailProof, StillLive, ChallengeLive
  <1>4. /\ challenge' \in [Generations -> ChallengeRow]
        /\ challenge'[g].status = "consumed"
        /\ \A h \in Generations : /\ h # g => challenge'[h] = challenge[h]
                                  /\ challenge'[h].expires = challenge[h].expires
                                  /\ challenge'[h].required = challenge[h].required
    <2> DEFINE new == [challenge[g] EXCEPT !.status = "consumed"]
    <2>1. new \in ChallengeRow /\ new.status = "consumed" /\ new.expires = challenge[g].expires
          /\ new.required = challenge[g].required
      BY <1>1 DEF ChallengeRow
    <2>2. challenge' = [challenge EXCEPT ![g] = new]
      BY <1>3
    <2> HIDE DEF new
    <2> QED
      BY <1>1, <2>1, <2>2
  <1>5. /\ context' \in [Contexts -> ContextRow]
        /\ \A d \in Contexts : /\ context'[d].status = "pending" => context'[d] = context[d]
                               /\ context'[d].status = "consumed" => d = via /\ context'[d].challenge = g
    <2>1. CASE via = None
      BY <1>1, <1>3, <2>1 DEF SpentOnce
    <2>2. CASE via # None
      <3>1. via \in Contexts /\ context[via].challenge = g
        BY <1>2, <1>3, <2>2 DEF AdmittedBy, ContextAdmitted
      <3> DEFINE new == [context[via] EXCEPT !.status = "consumed"]
      <3>2. new \in ContextRow /\ new.status = "consumed" /\ new.challenge = context[via].challenge
        BY <1>1, <3>1 DEF ContextRow
      <3>3. context' = [context EXCEPT ![via] = new]
        BY <1>3, <2>2 DEF Consumed
      <3> HIDE DEF new
      <3> QED
        BY <1>1, <1>3, <3>1, <3>2, <3>3 DEF SpentOnce
    <2> QED
      BY <2>1, <2>2
  <1>6. attempt' \in [Holders -> AttemptRow] /\ AttemptsNamed'
    <2>1. NoAttempt \in AttemptRow
      BY DEF NoAttempt, AttemptRow
    <2> QED
      BY <1>1, <1>3, <2>1 DEF AttemptsNamed, NoAttempt, Generations
  <1>7. MagicTypeOK'
    BY <1>3, <1>4, <1>5, <1>6, TypeByRows, TypeByRowsNext
  <1>8. Issued' = Issued /\ GenerationsInOrder'
    <2>1. Issued' = Issued
      BY <1>3, <1>4, IssuedKept
    <2> QED
      BY <2>1, OrderKept
  <1>9. ContextsKnown'
    BY <1>5, <1>8 DEF ContextsKnown
  <1>10. SpentOnce'
    <2>1. \A h \in Generations : challenge'[h].status = "consumed" => h = g
      BY <1>3, <1>4 DEF SpentOnce
    <2> QED
      BY <1>3, <1>4, <1>5, <2>1 DEF SpentOnce, Generations
  <1>11. BoundLinksStayBound'
    <2>1. challenge[g].required => b = Origin
      BY <1>3 DEF AdmittedBy, ContextAdmitted
    <2>2. \A h \in Generations : challenge'[h].status = "consumed" => h = g
      BY <1>3, <1>4 DEF SpentOnce
    <2> QED
      BY <1>3, <1>4, <2>1, <2>2 DEF BoundLinksStayBound, Generations
  <1>12. ContextsEndFirst'
    <2>1. \A d \in Contexts : context[d].status = "pending" => context[d].challenge \in Generations
      BY DEF ContextsKnown, Issued
    <2> QED
      BY <1>4, <1>5, <2>1 DEF ContextsEndFirst
  <1>13. ContextsBounded'
    BY <1>1, <1>3, <1>5, ContextsShrink
  <1> QED
    BY <1>6, <1>7, <1>8, <1>9, <1>10, <1>11, <1>12, <1>13

\* Challenges that end without being consumed, and contexts that are no longer pending.
LEMMA EndingKeeps ==
    ASSUME MagicAssumption, MagicInv, UNCHANGED <<clock, attempt, winner>>,
           owner' = owner \/ (owner = "pending" /\ owner' = "expired"),
           challenge' \in [Generations -> ChallengeRow], context' \in [Contexts -> ContextRow],
           \A g \in Generations :
              \/ challenge'[g] = challenge[g]
              \/ /\ challenge[g].status = "pending" /\ challenge'[g].status = "expired"
                 /\ challenge'[g].expires = challenge[g].expires,
           \A c \in Contexts : context'[c] = context[c] \/ context'[c].status = "deleted"
    PROVE  MagicInv'
  <1> USE MagicConstants DEF MagicInv
  <1>1. MagicTypeOK'
    BY TypeByRows, TypeByRowsNext
  <1>2. Issued' = Issued /\ GenerationsInOrder'
    <2>1. Issued' = Issued
      BY IssuedKept
    <2> QED
      BY <2>1, OrderKept
  <1>3. ContextsKnown' /\ AttemptsNamed'
    BY <1>2 DEF ContextsKnown, AttemptsNamed, Generations
  <1>4. SpentOnce'
    <2>1. \A g \in Generations : (challenge'[g].status = "consumed") <=> (challenge[g].status = "consumed")
      OBVIOUS
    <2>2. \A c \in Contexts : context'[c].status = "consumed" => context'[c] = context[c]
      OBVIOUS
    <2> QED
      BY <2>1, <2>2 DEF SpentOnce, Generations
  <1>5. BoundLinksStayBound'
    BY DEF BoundLinksStayBound, Generations
  <1>6. ContextsEndFirst'
    <2>1. \A d \in Contexts : context[d].status = "pending" => context[d].challenge \in Generations
      BY DEF ContextsKnown, Issued
    <2> QED
      BY <2>1 DEF ContextsEndFirst
  <1>7. ContextsBounded'
    BY TypeByRows, ContextsShrink
  <1> QED
    BY <1>1, <1>2, <1>3, <1>4, <1>5, <1>6, <1>7

LEMMA ExpiredRow ==
    ASSUME NEW r \in ChallengeRow
    PROVE  LET new == [r EXCEPT !.status = "expired"]
           IN  new \in ChallengeRow /\ new.status = "expired" /\ new.expires = r.expires
  BY DEF ChallengeRow

LEMMA ExpireLateKeeps ==
    ASSUME MagicAssumption, MagicInv, NEW g \in Generations, ExpireLateMutation(g)
    PROVE  MagicInv'
  <1>1. challenge \in [Generations -> ChallengeRow] /\ context \in [Contexts -> ContextRow]
    BY TypeByRows DEF MagicInv
  <1> DEFINE new == [challenge[g] EXCEPT !.status = "expired"]
  <1>2. new \in ChallengeRow /\ new.status = "expired" /\ new.expires = challenge[g].expires
    BY <1>1, ExpiredRow
  <1>3. challenge' = [challenge EXCEPT ![g] = new] /\ challenge[g].status = "pending"
    BY DEF ExpireLateMutation
  <1> HIDE DEF new
  <1>4. UNCHANGED <<clock, context, attempt, winner>> /\ owner = "pending" /\ owner' = "expired"
    BY DEF ExpireLateMutation
  <1> QED
    BY <1>1, <1>2, <1>3, <1>4, EndingKeeps

LEMMA MaintainKeeps ==
    ASSUME MagicAssumption, MagicInv, MaintainShortTermData
    PROVE  MagicInv'
  <1>1. challenge \in [Generations -> ChallengeRow] /\ context \in [Contexts -> ContextRow]
    BY TypeByRows DEF MagicInv
  <1>2. /\ challenge' \in [Generations -> ChallengeRow]
        /\ \A g \in Generations :
              \/ challenge'[g] = challenge[g]
              \/ /\ challenge[g].status = "pending" /\ challenge'[g].status = "expired"
                 /\ challenge'[g].expires = challenge[g].expires
    <2>1. CASE Owner # "login"
      BY <1>1, <2>1 DEF MaintainShortTermData
    <2>2. CASE Owner = "login"
      <3>1. challenge' = [g \in Generations |->
               IF challenge[g].status = "pending" /\ challenge[g].expires <= clock
               THEN [challenge[g] EXCEPT !.status = "expired"] ELSE challenge[g]]
        BY <2>2 DEF MaintainShortTermData, ExpireChallenges
      <3> QED
        BY <1>1, <3>1, ExpiredRow
    <2> QED
      BY <2>1, <2>2
  <1>3. /\ context' \in [Contexts -> ContextRow]
        /\ \A c \in Contexts : context'[c] = context[c] \/ context'[c].status = "deleted"
    <2>1. ASSUME NEW r \in ContextRow
          PROVE  LET new == [r EXCEPT !.status = "deleted"]
                 IN  new \in ContextRow /\ new.status = "deleted"
      BY DEF ContextRow
    <2>2. context' = [c \in Contexts |-> IF Over(c) THEN [context[c] EXCEPT !.status = "deleted"]
                                         ELSE context[c]]
      BY DEF MaintainShortTermData
    <2> QED
      BY <1>1, <2>1, <2>2
  <1>4. UNCHANGED <<clock, owner, attempt, winner>>
    BY DEF MaintainShortTermData
  <1> QED
    BY <1>2, <1>3, <1>4, EndingKeeps

-----------------------------------------------------------------------------
(* The theorems *)

LEMMA MagicStepKeeps ==
    ASSUME MagicAssumption, MagicInv, [MagicNext]_magicVars
    PROVE  MagicInv'
  BY CommitGenerationKeeps, EstablishKeeps, CompleteKeeps, ExpireLateKeeps, MaintainKeeps, SmallStepsKeep
  DEF MagicNext, OpenLink, SubmitProof

\* The inductive invariant of magic links: generations are issued in order,
\* usable contexts belong to issued ones, and something is spent exactly
\* when the owner is completed.
THEOREM MagicInvariant ==
    ASSUME MagicAssumption
    PROVE  MagicSpec => []MagicInv
  <1>1. MagicInit => MagicInv
    BY MagicInitEstablishes
  <1>2. MagicInv /\ [MagicNext]_magicVars => MagicInv'
    BY MagicStepKeeps
  <1> QED
    BY <1>1, <1>2, PTL DEF MagicSpec

LEMMA InvIsSafe ==
    ASSUME MagicAssumption, MagicInv
    PROVE  MagicSafe
  <1> USE MagicConstants DEF MagicInv
  <1> DEFINE spent == {g \in Generations : challenge[g].status = "consumed"}
             used == {c \in Contexts : context[c].status = "consumed"}
  <1>1. Cardinality(spent) = IF owner = "completed" THEN 1 ELSE 0
    <2>1. CASE owner = "completed"
      <3>1. PICK g \in Generations : /\ challenge[g].status = "consumed"
                                     /\ \A h \in Generations : challenge[h].status = "consumed" => h = g
        BY <2>1 DEF SpentOnce
      <3>2. spent = {g}
        BY <3>1
      <3> QED
        BY <2>1, <3>2, FS_Singleton
    <2>2. CASE owner # "completed"
      <3>1. spent = {}
        BY <2>2 DEF SpentOnce
      <3> QED
        BY <2>2, <3>1, FS_EmptySet
    <2> QED
      BY <2>1, <2>2
  <1>2. Cardinality(used) <= 1
    <2>1. CASE used = {}
      <3> HIDE DEF used
      <3> QED
        BY <2>1, FS_EmptySet
    <2>2. CASE used # {}
      <3>1. PICK c \in used : TRUE
        BY <2>2
      <3>2. used = {c}
        BY <3>1 DEF SpentOnce
      <3> HIDE DEF used
      <3> QED
        BY <3>2, FS_Singleton
    <2> QED
      BY <2>1, <2>2
  <1>3. \A c \in used : context[c].challenge \in spent
    BY DEF SpentOnce
  <1>4. OneSubmissionWins
    BY <1>1, <1>2, <1>3 DEF OneSubmissionWins
  <1> QED
    BY <1>4 DEF MagicSafe

\* establish_magic_transfer_context, validate_email_context, complete: however
\* many browsers open and submit a link one submission wins, a link for its
\* own browser stays with it, contexts are few whatever the replicas' clocks
\* say, and they end with what they were opened for.
THEOREM MagicIsSafe ==
    ASSUME MagicAssumption
    PROVE  MagicSpec => []MagicSafe
  <1>1. MagicInv => MagicSafe
    BY InvIsSafe
  <1> QED
    BY <1>1, MagicInvariant, PTL
=============================================================================
