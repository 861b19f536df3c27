--------------------------- MODULE SettingsProofs ---------------------------
(***************************************************************************)
(* What is proved of the settings: the redirects and origins of            *)
(* Applications, the deployment's SMTP generations and the projections of  *)
(* a user.                                                                 *)
(***************************************************************************)
EXTENDS ApplicationConfiguration, DeploymentSmtp, Projection, FiniteSetTheorems, SequenceTheorems, TLAPS

-----------------------------------------------------------------------------
(* Redirects and origins: the inductive invariant *)

AppRow == [status : {"absent", "active", "disabled"}, security : 0..MaxRevision,
           redirects : SUBSET Redirects, origins : SUBSET Origins, key : BOOLEAN]
Shown == [redirects : SUBSET Redirects, origins : SUBSET Origins]
ReaderRow == [stage : {"none", "row", "redirects", "origins", "loaded"},
              app : Applications \cup {None}, security : 0..MaxRevision, shown : Shown]
LoginRow == [status : {"none", "open", "handed_off"}, app : Applications \cup {None},
             redirect : Redirects \cup {None}, security : 0..MaxRevision,
             session : {"none", "active", "revoked"}]
RequestRow == [kind : Naming \cup Bearing \cup {None},
               stage : {"idle", "resolve", "origin", "project", "authenticate", "session_origin",
                        "work", "create", "answered"},
               app : Applications \cup {None}, origin : Origins \cup {None},
               login : Logins \cup {None}, redirect : Redirects \cup {None}, security : 0..MaxRevision]

ConfigurationShaped ==
    /\ app \in [Applications -> AppRow]
    /\ reader \in [Operators -> ReaderRow]
    /\ login \in [Logins -> LoginRow]
    /\ request \in [Requests -> RequestRow]
    /\ seen \in [Requests -> SUBSET (Applications \X Origins)]

\* An Application begins empty, and every change of what it allows moves its revision.
AppFits(a) ==
    /\ app[a].status = "absent" <=> app[a].security = 0
    /\ app[a].security <= 1 => Configuration(a) = Empty
    /\ app[a].key <=> app[a].status = "active"

\* What an operator has read is what the Application has, as long as the
\* revision that was read first is its revision.
ReaderFits(op) ==
    LET a == reader[op].app
    IN reader[op].stage # "none" =>
        /\ a \in Applications /\ app[a].security >= 1
        /\ reader[op].stage # "row" => reader[op].security <= app[a].security
        /\ reader[op].stage \in {"origins", "loaded"} /\ reader[op].security = app[a].security =>
               reader[op].shown.redirects = app[a].redirects
        /\ reader[op].stage = "loaded" /\ reader[op].security = app[a].security =>
               reader[op].shown.origins = app[a].origins

\* A sign-in under the present revision goes to a redirect that is configured.
LoginFits(l) ==
    LET a == login[l].app
    IN /\ login[l].session # "none" => login[l].status # "none"
       /\ login[l].status # "none" =>
              /\ a \in Applications /\ app[a].security >= 1
              /\ login[l].security <= app[a].security
              /\ login[l].security = app[a].security => login[l].redirect \in app[a].redirects

Checked == {"work", "create", "answered"}

\* A request saw what was allowed while it was under way, and is past the
\* checks of its origin only if that origin was among it.
RequestFits(q) ==
    /\ InFlight(q) => /\ Allowed \subseteq seen[q]
                      /\ request[q].app \in Applications
                      /\ request[q].kind \in Naming \cup Bearing
                      /\ request[q].kind = "start" \/ request[q].login \in Logins
                      /\ request[q].kind \in Bearing => login[request[q].login].status # "none"
    /\ request[q].stage \in Checked /\ request[q].origin # None =>
           <<request[q].app, request[q].origin>> \in seen[q]

ConfigurationInv ==
    /\ ConfigurationShaped
    /\ \A a \in Applications : AppFits(a)
    /\ \A op \in Operators : ReaderFits(op)
    /\ \A l \in Logins : LoginFits(l)
    /\ \A q \in Requests : RequestFits(q)

LEMMA ConfigurationInitEstablishes ==
    ASSUME ConfigurationAssumption, ConfigurationInit
    PROVE  ConfigurationInv
  <1> USE DEF ConfigurationAssumption, ConfigurationInit
  <1>1. ConfigurationShaped
    BY DEF ConfigurationShaped, AppRow, ReaderRow, Shown, LoginRow, RequestRow, Unread, Empty, Idle
  <1>2. \A a \in Applications : AppFits(a)
    BY DEF AppFits, Configuration, Empty
  <1>3. \A op \in Operators : ReaderFits(op)
    BY DEF ReaderFits, Unread
  <1>4. \A l \in Logins : LoginFits(l)
    BY DEF LoginFits
  <1>5. \A q \in Requests : RequestFits(q)
    BY DEF RequestFits, InFlight, Idle, Checked
  <1> QED
    BY <1>1, <1>2, <1>3, <1>4, <1>5 DEF ConfigurationInv

LEMMA UnreadShaped ==
    ASSUME ConfigurationAssumption
    PROVE  Unread \in ReaderRow
  BY DEF ConfigurationAssumption, Unread, Empty, ReaderRow, Shown

-----------------------------------------------------------------------------
(* Operators *)

\* What a step leaves standing that changes only what operators have read.
LEMMA ReaderStep ==
    ASSUME ConfigurationInv, NEW op \in Operators, NEW r \in ReaderRow,
           reader' = [reader EXCEPT ![op] = r], UNCHANGED <<app, login, request, seen>>,
           ReaderFits(op)'
    PROVE  ConfigurationInv'
  <1>1. ConfigurationShaped'
    BY DEF ConfigurationInv, ConfigurationShaped
  <1>2. \A o \in Operators : ReaderFits(o)'
    BY DEF ConfigurationInv, ConfigurationShaped, ReaderFits
  <1>3. \A a \in Applications : AppFits(a)'
    BY DEF ConfigurationInv, AppFits, Configuration
  <1>4. \A l \in Logins : LoginFits(l)'
    BY DEF ConfigurationInv, LoginFits
  <1>5. \A q \in Requests : RequestFits(q)'
    BY DEF ConfigurationInv, RequestFits, InFlight, Allowed, Active
  <1> QED
    BY <1>1, <1>2, <1>3, <1>4, <1>5 DEF ConfigurationInv

\* The operator's record is read anew.
LEMMA ReadsAnew ==
    ASSUME ConfigurationAssumption, ConfigurationInv, NEW op \in Operators, NEW a \in Applications,
           reader' = [reader EXCEPT ![op] = [Unread EXCEPT !.stage = "row", !.app = a]],
           app'[a].security >= 1
    PROVE  /\ [Unread EXCEPT !.stage = "row", !.app = a] \in ReaderRow
           /\ ReaderFits(op)'
  <1>1. [Unread EXCEPT !.stage = "row", !.app = a] \in ReaderRow
    BY UnreadShaped DEF ReaderRow
  <1>2. reader'[op].stage = "row" /\ reader'[op].app = a
    BY DEF ConfigurationInv, ConfigurationShaped, Unread
  <1> QED
    BY <1>1, <1>2 DEF ReaderFits

LEMMA ReadingKeeps ==
    ASSUME ConfigurationAssumption, ConfigurationInv, NEW op \in Operators,
           \/ \E a \in Applications : GetApplication(op, a)
           \/ UpdateApplication(op)
           \/ ReadRow(op) \/ ReadRedirects(op) \/ ReadOrigins(op)
    PROVE  ConfigurationInv'
  <1> DEFINE r == reader'[op]
  <1>1. /\ reader[op] \in ReaderRow /\ ReaderFits(op) /\ app \in [Applications -> AppRow]
        /\ reader \in [Operators -> ReaderRow]
    BY DEF ConfigurationInv, ConfigurationShaped
  <1>2. UNCHANGED <<app, login, request, seen>>
    BY DEF GetApplication, UpdateApplication, ReadRow, ReadRedirects, ReadOrigins
  <1>3. r \in ReaderRow /\ reader' = [reader EXCEPT ![op] = r] /\ ReaderFits(op)'
    <2>1. ASSUME NEW a \in Applications, GetApplication(op, a)
          PROVE  r \in ReaderRow /\ reader' = [reader EXCEPT ![op] = r] /\ ReaderFits(op)'
      <3>1. r \in ReaderRow
        BY <1>1, <2>1, UnreadShaped DEF GetApplication, ReaderRow
      <3>2. reader' = [reader EXCEPT ![op] = r]
        BY <1>1, <2>1 DEF GetApplication
      <3>3. ReaderFits(op)'
        <4>1. app'[a].security >= 1
          <5>1. AppFits(a) /\ app[a].security \in Nat /\ app[a].status # "absent"
            <6>1. AppFits(a) /\ app[a] \in AppRow
              BY <1>1 DEF ConfigurationInv
            <6>2. app[a].security \in Nat
              BY <6>1 DEF AppRow, ConfigurationAssumption
            <6>3. app[a].status # "absent"
              BY <2>1 DEF GetApplication
            <6> QED
              BY <6>1, <6>2, <6>3
          <5> QED
            BY <1>2, <5>1 DEF AppFits
        <4> QED
          BY <2>1, <4>1, ReadsAnew DEF GetApplication
      <3> QED
        BY <3>1, <3>2, <3>3
    <2>2. CASE UpdateApplication(op)
      <3>1. r \in ReaderRow
        BY <1>1, <2>2 DEF UpdateApplication, Unread, Empty, ReaderRow, Shown, AppRow, ReaderFits, ConfigurationAssumption
      <3>2. reader' = [reader EXCEPT ![op] = r]
        BY <1>1, <2>2 DEF UpdateApplication
      <3>3. ReaderFits(op)'
        BY <1>1, <1>2, <2>2 DEF UpdateApplication, Unread, Empty, ReaderRow, Shown, ReaderFits, AppRow
      <3> QED
        BY <3>1, <3>2, <3>3
    <2>3. CASE ReadRow(op)
      <3>1. r \in ReaderRow
        BY <1>1, <2>3 DEF ReadRow, ReaderRow, Shown, AppRow, ReaderFits, ConfigurationAssumption
      <3>2. reader' = [reader EXCEPT ![op] = r]
        BY <1>1, <2>3 DEF ReadRow
      <3>3. ReaderFits(op)'
        BY <1>1, <1>2, <2>3 DEF ReadRow, ReaderRow, Shown, ReaderFits, AppRow
      <3> QED
        BY <3>1, <3>2, <3>3
    <2>4. CASE ReadRedirects(op)
      <3>1. r \in ReaderRow
        BY <1>1, <2>4 DEF ReadRedirects, ReaderRow, Shown, AppRow, ReaderFits, ConfigurationAssumption
      <3>2. reader' = [reader EXCEPT ![op] = r]
        BY <1>1, <2>4 DEF ReadRedirects
      <3>3. ReaderFits(op)'
        BY <1>1, <1>2, <2>4 DEF ReadRedirects, ReaderRow, Shown, ReaderFits, AppRow
      <3> QED
        BY <3>1, <3>2, <3>3
    <2>5. CASE ReadOrigins(op)
      <3>1. r \in ReaderRow
        BY <1>1, <2>5 DEF ReadOrigins, ReaderRow, Shown, AppRow, ReaderFits, ConfigurationAssumption
      <3>2. reader' = [reader EXCEPT ![op] = r]
        BY <1>1, <2>5 DEF ReadOrigins
      <3>3. ReaderFits(op)'
        BY <1>1, <1>2, <2>5 DEF ReadOrigins, ReaderRow, Shown, ReaderFits, AppRow
      <3> QED
        BY <3>1, <3>2, <3>3
    <2> QED
      BY <2>1, <2>2, <2>3, <2>4, <2>5
  <1> HIDE DEF r
  <1> QED
    BY <1>2, <1>3, ReaderStep


\* What a step leaves standing that moves the revision of an Application.
LEMMA RevisionStep ==
    ASSUME ConfigurationAssumption, ConfigurationInv, NEW op \in Operators, NEW a \in Applications,
           NEW row \in AppRow, NEW r \in ReaderRow,
           app' = [app EXCEPT ![a] = row], reader' = [reader EXCEPT ![op] = r],
           UNCHANGED <<login, request>>, app[a].security < row.security,
           AppFits(a)', ReaderFits(op)',
           seen' \in [Requests -> SUBSET (Applications \X Origins)],
           \A q \in Requests : seen[q] \subseteq seen'[q],
           \A q \in Requests : InFlight(q) => Allowed' \subseteq seen'[q]
    PROVE  ConfigurationInv'
  <1> USE DEF ConfigurationShaped
  <1>1. ConfigurationShaped /\ ConfigurationShaped'
    BY DEF ConfigurationInv
  <1>2. /\ app[a].security \in Nat /\ row.security \in Nat /\ app'[a] = row
        /\ \A b \in Applications : b # a => app'[b] = app[b]
    BY <1>1 DEF AppRow
  <1>3. \A b \in Applications : AppFits(b)'
    BY <1>2 DEF ConfigurationInv, AppFits, Configuration
  <1>4. ASSUME NEW o \in Operators PROVE ReaderFits(o)'
    <2>1. CASE o = op
      BY <2>1
    <2>2. CASE o # op
      <3>1. reader'[o] = reader[o] /\ ReaderFits(o) /\ reader[o] \in ReaderRow
        BY <1>1, <2>2 DEF ConfigurationInv
      <3>2. reader[o].security \in Nat
        BY <3>1 DEF ReaderRow
      <3> QED
        BY <1>2, <3>1, <3>2 DEF ReaderFits
    <2> QED
      BY <2>1, <2>2
  <1>5. ASSUME NEW l \in Logins PROVE LoginFits(l)'
    <2>1. LoginFits(l) /\ login'[l] = login[l] /\ login[l].security \in Nat
      BY <1>1 DEF ConfigurationInv, LoginRow
    <2> QED
      BY <1>2, <2>1 DEF LoginFits
  <1>6. ASSUME NEW q \in Requests PROVE RequestFits(q)'
    BY DEF ConfigurationInv, RequestFits, InFlight
  <1> QED
    BY <1>1, <1>3, <1>4, <1>5, <1>6 DEF ConfigurationInv

LEMMA CreateApplicationKeeps ==
    ASSUME ConfigurationAssumption, ConfigurationInv, NEW op \in Operators, NEW a \in Applications,
           CreateApplication(op, a)
    PROVE  ConfigurationInv'
  <1> DEFINE r == [stage |-> "loaded", app |-> a, security |-> 1, shown |-> Empty]
             row == [status |-> "active", security |-> 1, redirects |-> {}, origins |-> {}, key |-> TRUE]
  <1>1. /\ r \in ReaderRow /\ reader' = [reader EXCEPT ![op] = r]
        /\ reader'[op].stage = "loaded" /\ reader'[op].app = a /\ reader'[op].security = 1
        /\ reader'[op].shown.redirects = {} /\ reader'[op].shown.origins = {}
    BY DEF CreateApplication, ConfigurationAssumption, Empty, ReaderRow, Shown, ConfigurationInv, ConfigurationShaped
  <1>2. app \in [Applications -> AppRow] /\ AppFits(a) /\ app[a] \in AppRow /\ app[a].security \in Nat
    BY DEF ConfigurationInv, ConfigurationShaped, AppRow
  <1>3. CASE app[a].status # "absent"
    <2>1. app' = app
      BY <1>2, <1>3 DEF CreateApplication
    <2>2. ReaderFits(op)'
      <3>1. app'[a].security >= 1
        BY <1>2, <1>3, <2>1 DEF AppFits
      <3>2. app[a].security = 1 => app[a].redirects = {} /\ app[a].origins = {}
        BY <1>2 DEF AppFits, Configuration, Empty
      <3> QED
        BY <1>1, <1>2, <2>1, <3>1, <3>2 DEF ReaderFits
    <2> HIDE DEF r
    <2> QED
      BY <1>1, <2>1, <2>2, ReaderStep DEF CreateApplication
  <1>4. CASE app[a].status = "absent"
    <2>1. /\ row \in AppRow /\ app' = [app EXCEPT ![a] = row] /\ app'[a] = row
          /\ app'[a].security = 1 /\ app'[a].redirects = {} /\ app'[a].origins = {}
      BY <1>2, <1>4 DEF CreateApplication, AppRow, ConfigurationAssumption
    <2>2. app[a].security < row.security
      BY <1>2, <1>4 DEF AppFits
    <2>3. AppFits(a)'
      BY <2>1 DEF AppFits, Configuration, Empty
    <2>4. ReaderFits(op)'
      <3> HIDE DEF r, row
      <3>1. app'[a].security >= 1 /\ reader'[op].security <= app'[a].security
        BY <1>1, <2>1
      <3> QED
        BY <1>1, <2>1, <3>1 DEF ReaderFits
    <2>5. Allowed' \subseteq Allowed
      <3>1. \A b \in Applications : b # a => app'[b] = app[b]
        BY <1>2, <2>1
      <3> QED
        BY <2>1, <3>1 DEF Allowed, Active
    <2>6. UNCHANGED <<login, request, seen>>
      BY DEF CreateApplication
    <2>7. /\ seen' \in [Requests -> SUBSET (Applications \X Origins)]
          /\ \A q \in Requests : InFlight(q) => Allowed' \subseteq seen'[q]
      BY <2>5, <2>6 DEF ConfigurationInv, ConfigurationShaped, RequestFits
    <2> HIDE DEF r, row
    <2> QED
      BY <1>1, <2>1, <2>2, <2>3, <2>4, <2>6, <2>7, RevisionStep
  <1> QED
    BY <1>3, <1>4

\* A command that was let through is about a record that was read completely.
LEMMA FencedRead ==
    ASSUME ConfigurationAssumption, ConfigurationInv, NEW op \in Operators, Fenced(op)
    PROVE  /\ reader[op].app \in Applications
           /\ app[reader[op].app] \in AppRow
           /\ app[reader[op].app].security \in 1..(MaxRevision - 1)
           /\ app[reader[op].app].status = "active"
           /\ reader[op].shown = Configuration(reader[op].app)
  <1> DEFINE a == reader[op].app
  <1>1. ReaderFits(op) /\ reader[op] \in ReaderRow /\ app \in [Applications -> AppRow]
    BY DEF ConfigurationInv, ConfigurationShaped
  <1>2. a \in Applications /\ app[a].security >= 1
    BY <1>1 DEF Fenced, ReaderFits
  <1>3. app[a] \in AppRow /\ app[a].security \in Nat
    BY <1>1, <1>2 DEF AppRow
  <1>4. reader[op].shown.redirects = app[a].redirects /\ reader[op].shown.origins = app[a].origins
    BY <1>1 DEF Fenced, ReaderFits
  <1>5. reader[op].shown = Configuration(a)
    BY <1>1, <1>4 DEF ReaderRow, Shown, Configuration
  <1> QED
    BY <1>2, <1>3, <1>5 DEF Fenced, Active, ConfigurationAssumption

LEMMA CommandKeeps ==
    ASSUME ConfigurationAssumption, ConfigurationInv, NEW op \in Operators,
           \/ DisableApplication(op)
           \/ \E redirects \in SUBSET Redirects, origins \in SUBSET Origins :
                  ReplaceApplicationConfiguration(op, [redirects |-> redirects, origins |-> origins])
    PROVE  ConfigurationInv'
  <1>0. Fenced(op)
    BY DEF DisableApplication, ReplaceApplicationConfiguration
  <1> PICK a \in Applications : a = reader[op].app
    BY <1>0, FencedRead
  <1> DEFINE r == [Unread EXCEPT !.stage = "row", !.app = a]
             row == app'[a]
  <1>1. reader' = [reader EXCEPT ![op] = r] /\ UNCHANGED <<login, request>>
    BY DEF DisableApplication, ReplaceApplicationConfiguration
  <1>2. /\ a \in Applications /\ app[a] \in AppRow /\ app[a].security \in 1..(MaxRevision - 1)
        /\ app[a].status = "active" /\ app \in [Applications -> AppRow] /\ AppFits(a)
    BY <1>0, FencedRead DEF ConfigurationInv, ConfigurationShaped
  <1>3. MaxRevision \in Nat /\ app[a].security \in Nat /\ app[a].security >= 1
        /\ app[a].security + 1 <= MaxRevision /\ app[a].security + 1 \in 0..MaxRevision
    BY <1>2 DEF ConfigurationAssumption
  <1>4. /\ row \in AppRow /\ app' = [app EXCEPT ![a] = row] /\ row.security = app[a].security + 1
        /\ AppFits(a)'
    <2>1. CASE DisableApplication(op)
      <3>1. row = [app[a] EXCEPT !.status = "disabled", !.security = app[a].security + 1, !.key = FALSE]
        BY <1>2, <2>1 DEF DisableApplication
      <3>2. /\ row.status = "disabled" /\ row.security = app[a].security + 1 /\ row.key = FALSE
            /\ row \in AppRow
        <4>1. row.status = "disabled" /\ row.security = app[a].security + 1 /\ row.key = FALSE
          BY <1>2, <3>1 DEF AppRow
        <4>2. row \in AppRow
          <5> HIDE DEF row
          <5> QED
            BY <1>2, <1>3, <3>1 DEF AppRow
        <4> QED
          BY <4>1, <4>2
      <3>3. app' = [app EXCEPT ![a] = row]
        BY <1>2, <2>1 DEF DisableApplication
      <3>4. AppFits(a)'
        BY <1>3, <3>2 DEF AppFits
      <3> QED
        BY <3>2, <3>3, <3>4
    <2>2. ASSUME NEW redirects \in SUBSET Redirects, NEW origins \in SUBSET Origins,
                 ReplaceApplicationConfiguration(op, [redirects |-> redirects, origins |-> origins])
          PROVE  /\ row \in AppRow /\ app' = [app EXCEPT ![a] = row] /\ row.security = app[a].security + 1
                 /\ AppFits(a)'
      <3>1. row = [app[a] EXCEPT !.security = app[a].security + 1,
                                 !.redirects = redirects, !.origins = origins]
        BY <1>2, <2>2 DEF ReplaceApplicationConfiguration
      <3>2. /\ row.status = "active" /\ row.security = app[a].security + 1 /\ row.key = app[a].key
            /\ row \in AppRow
        <4>1. row.status = "active" /\ row.security = app[a].security + 1 /\ row.key = app[a].key
          BY <1>2, <3>1 DEF AppRow
        <4>2. row \in AppRow
          <5> HIDE DEF row
          <5> QED
            BY <1>2, <1>3, <3>1 DEF AppRow
        <4> QED
          BY <4>1, <4>2
      <3>3. app' = [app EXCEPT ![a] = row]
        BY <1>2, <2>2 DEF ReplaceApplicationConfiguration
      <3>4. AppFits(a)'
        BY <1>2, <1>3, <3>2 DEF AppFits
      <3> QED
        BY <3>2, <3>3, <3>4
    <2> QED
      BY <2>1, <2>2
  <1>5. row.security >= 1 /\ app[a].security < row.security
    BY <1>3, <1>4
  <1>6. /\ seen' \in [Requests -> SUBSET (Applications \X Origins)]
        /\ \A q \in Requests : seen[q] \subseteq seen'[q]
        /\ \A q \in Requests : InFlight(q) => Allowed' \subseteq seen'[q]
    <2>1. seen \in [Requests -> SUBSET (Applications \X Origins)] /\ Allowed' \subseteq Applications \X Origins
      BY DEF ConfigurationInv, ConfigurationShaped, Allowed
    <2>2. CASE DisableApplication(op)
      <3>1. seen' = seen
        BY <2>2 DEF DisableApplication
      <3>2. row.status = "disabled"
        BY <1>2, <2>2 DEF DisableApplication, AppRow
      <3>3. Allowed' \subseteq Allowed
        BY <1>2, <1>4, <3>2 DEF Allowed, Active
      <3> QED
        BY <2>1, <3>1, <3>3 DEF ConfigurationInv, RequestFits
    <2>3. CASE \E redirects \in SUBSET Redirects, origins \in SUBSET Origins :
                  ReplaceApplicationConfiguration(op, [redirects |-> redirects, origins |-> origins])
      <3>1. Watch
        BY <2>3 DEF ReplaceApplicationConfiguration
      <3> HIDE DEF r, row
      <3> QED
        BY <2>1, <3>1 DEF Watch
    <2> QED
      BY <2>2, <2>3
  <1>7. r \in ReaderRow /\ ReaderFits(op)'
    BY <1>1, <1>2, <1>5, ReadsAnew
  <1> HIDE DEF r, row
  <1> QED
    BY <1>1, <1>2, <1>4, <1>5, <1>6, <1>7, RevisionStep

-----------------------------------------------------------------------------
(* Requests and sign-ins *)

\* Sign-ins stay in order, and none is forgotten.
LoginsGoOn ==
    /\ login' \in [Logins -> LoginRow]
    /\ \A l \in Logins : LoginFits(l)'
    /\ \A l \in Logins : login[l].status # "none" => login'[l].status # "none"

\* What a step leaves standing that changes one request.
LEMMA RequestStep ==
    ASSUME ConfigurationInv, NEW q \in Requests, NEW row \in RequestRow,
           request' = [request EXCEPT ![q] = row], UNCHANGED <<app, reader>>,
           seen' = [seen EXCEPT ![q] = seen'[q]], seen'[q] \subseteq Applications \X Origins,
           RequestFits(q)', LoginsGoOn
    PROVE  ConfigurationInv'
  <1>1. ConfigurationShaped'
    BY DEF LoginsGoOn, ConfigurationInv, ConfigurationShaped
  <1>2. \A o \in Operators : ReaderFits(o)'
    BY DEF ConfigurationInv, ReaderFits
  <1>3. \A a \in Applications : AppFits(a)'
    BY DEF ConfigurationInv, AppFits, Configuration
  <1>4. ASSUME NEW p \in Requests PROVE RequestFits(p)'
    <2>1. CASE p = q
      BY <2>1
    <2>2. CASE p # q
      <3>1. request'[p] = request[p] /\ seen'[p] = seen[p] /\ RequestFits(p)
        BY <2>2 DEF ConfigurationInv, ConfigurationShaped
      <3> QED
        BY <3>1 DEF RequestFits, InFlight, Allowed, Active, LoginsGoOn, Naming, Bearing
    <2> QED
      BY <2>1, <2>2
  <1> QED
    BY <1>1, <1>2, <1>3, <1>4 DEF ConfigurationInv, LoginsGoOn

LEMMA LoginsStay ==
    ASSUME ConfigurationInv, UNCHANGED <<app, login>>
    PROVE  LoginsGoOn
  BY DEF LoginsGoOn, ConfigurationInv, ConfigurationShaped, LoginFits

\* What a step does to the sign-ins that changes one of them.
LEMMA LoginMoves ==
    ASSUME ConfigurationInv, app' = app, NEW l \in Logins, NEW row \in LoginRow,
           login' = [login EXCEPT ![l] = row], LoginFits(l)', row.status # "none"
    PROVE  LoginsGoOn
  BY DEF LoginsGoOn, ConfigurationInv, ConfigurationShaped, LoginFits

LEMMA IdleShaped ==
    ASSUME ConfigurationAssumption
    PROVE  Idle \in RequestRow
  BY DEF ConfigurationAssumption, Idle, RequestRow

\* A request begins with what is allowed in sight and none of its checks passed.
LEMMA BeginKeeps ==
    ASSUME ConfigurationAssumption, ConfigurationInv, NEW q \in Requests, NEW row \in RequestRow, Begin(q, row),
           row.app \in Applications, row.kind \in Naming \cup Bearing,
           row.kind = "start" \/ row.login \in Logins,
           row.kind \in Bearing => login[row.login].status # "none", row.stage \in Checked => row.origin = None
    PROVE  ConfigurationInv'
  <1>1. /\ request' = [request EXCEPT ![q] = row] /\ UNCHANGED <<app, reader, login>>
        /\ seen' = [seen EXCEPT ![q] = Allowed]
    BY DEF Begin
  <1>2. request'[q] = row /\ seen'[q] = Allowed
    BY <1>1 DEF ConfigurationInv, ConfigurationShaped
  <1>3. Allowed' = Allowed /\ Allowed \subseteq Applications \X Origins
    BY <1>1 DEF Allowed, Active
  <1>4. RequestFits(q)'
    BY <1>1, <1>2, <1>3 DEF RequestFits, InFlight
  <1> QED
    BY <1>1, <1>2, <1>3, <1>4, RequestStep, LoginsStay

LEMMA AskKeeps ==
    ASSUME ConfigurationAssumption, ConfigurationInv, NEW q \in Requests, Ask(q)
    PROVE  ConfigurationInv'
  <1> PICK origin \in Origins \cup {None} :
        \/ \E kind \in Naming, a \in Applications, l \in Logins \cup {None},
              redirect \in Redirects \cup {None} :
               BeginNaming(q, kind, a, origin, l, redirect)
        \/ \E kind \in Bearing, l \in Logins : BeginBearing(q, kind, origin, l)
    BY DEF Ask
  <1>1. ASSUME NEW kind \in Naming, NEW a \in Applications, NEW l \in Logins \cup {None},
               NEW redirect \in Redirects \cup {None}, BeginNaming(q, kind, a, origin, l, redirect)
        PROVE  ConfigurationInv'
    <2> DEFINE row == [Idle EXCEPT !.kind = kind, !.app = a, !.origin = origin, !.login = l,
                             !.redirect = redirect,
                             !.stage = IF origin = None THEN "work" ELSE "resolve"]
    <2>1. Begin(q, row)
      BY <1>1 DEF BeginNaming
    <2>2. row \in RequestRow
      BY IdleShaped DEF RequestRow
    <2>3. /\ row.app = a /\ row.kind = kind /\ row.login = l /\ row.origin = origin
          /\ row.stage = IF origin = None THEN "work" ELSE "resolve"
      BY DEF Idle
    <2>4. (kind = "start" \/ l \in Logins) /\ kind \notin Bearing
      BY <1>1 DEF BeginNaming, Naming, Bearing
    <2>5. row.stage \in Checked => row.origin = None
      BY <2>3 DEF Checked
    <2> HIDE DEF row
    <2> QED
      BY <2>1, <2>2, <2>3, <2>4, <2>5, BeginKeeps
  <1>2. ASSUME NEW kind \in Bearing, NEW l \in Logins, BeginBearing(q, kind, origin, l)
        PROVE  ConfigurationInv'
    <2> DEFINE row == [Idle EXCEPT !.kind = kind, !.app = login[l].app, !.origin = origin, !.login = l,
                             !.stage = IF origin = None THEN "authenticate" ELSE "project"]
    <2>1. Begin(q, row)
      BY <1>2 DEF BeginBearing
    <2>2. login[l].app \in Applications /\ login[l].status # "none"
      BY <1>2 DEF BeginBearing, ConfigurationInv, LoginFits
    <2>3. row \in RequestRow
      BY <2>2, IdleShaped DEF RequestRow
    <2>4. /\ row.app = login[l].app /\ row.kind = kind /\ row.login = l
          /\ row.stage = IF origin = None THEN "authenticate" ELSE "project"
      BY DEF Idle
    <2>5. row.stage \notin Checked
      BY <2>4 DEF Checked
    <2> HIDE DEF row
    <2> QED
      BY <2>1, <2>2, <2>3, <2>4, <2>5, BeginKeeps
  <1> QED
    BY <1>1, <1>2

\* A request that goes on has passed a check, or answers no browser.
LEMMA AdvanceKeeps ==
    ASSUME ConfigurationInv, NEW q \in Requests, InFlight(q),
           NEW stage \in {"origin", "authenticate", "session_origin", "work", "create", "answered"},
           NEW security \in 0..MaxRevision,
           request' = [request EXCEPT ![q].stage = stage, ![q].security = security],
           UNCHANGED <<app, reader, seen>>,
           stage \in Checked => \/ request[q].stage \in Checked
                                \/ request[q].origin = None
                                \/ <<request[q].app, request[q].origin>> \in Allowed,
           LoginsGoOn
    PROVE  ConfigurationInv'
  <1> DEFINE row == [request[q] EXCEPT !.stage = stage, !.security = security]
  <1>1. request \in [Requests -> RequestRow] /\ request[q] \in RequestRow /\ RequestFits(q)
    BY DEF ConfigurationInv, ConfigurationShaped
  <1>2. row \in RequestRow /\ request' = [request EXCEPT ![q] = row] /\ request'[q] = row
    BY <1>1 DEF RequestRow
  <1>3. /\ row.stage = stage /\ row.origin = request[q].origin /\ row.app = request[q].app
        /\ row.kind = request[q].kind /\ row.login = request[q].login
    BY <1>1 DEF RequestRow
  <1> HIDE DEF row
  <1>4. Allowed' = Allowed
    BY DEF Allowed, Active
  <1>5. RequestFits(q)'
    BY <1>1, <1>2, <1>3, <1>4 DEF RequestFits, InFlight, LoginsGoOn, Naming, Bearing
  <1>6. seen' = [seen EXCEPT ![q] = seen'[q]] /\ seen'[q] \subseteq Applications \X Origins
    BY DEF ConfigurationInv, ConfigurationShaped
  <1> QED
    BY <1>2, <1>5, <1>6, RequestStep

LEMMA AdvanceStage ==
    ASSUME ConfigurationInv, NEW q \in Requests, NEW stage, Advance(q, stage)
    PROVE  /\ request' = [request EXCEPT ![q].stage = stage, ![q].security = request[q].security]
           /\ request[q].security \in 0..MaxRevision
  <1>1. request \in [Requests -> RequestRow] /\ request[q] \in RequestRow
    BY DEF ConfigurationInv, ConfigurationShaped
  <1>2. [request[q] EXCEPT !.stage = stage] = [request[q] EXCEPT !.stage = stage, !.security = request[q].security]
    BY <1>1 DEF RequestRow
  <1>3. request[q].security \in 0..MaxRevision
    BY <1>1 DEF RequestRow
  <1> QED
    BY <1>1, <1>2, <1>3 DEF Advance

\* The checks, and the work that writes no rows.
LEMMA ChecksKeep ==
    ASSUME ConfigurationInv, NEW q \in Requests,
           \/ ResolveApplication(q) \/ ApplicationCorsOrigin(q) \/ ProjectCorsOrigin(q)
           \/ Authenticate(q) \/ SessionOrigin(q) \/ RefreshSession(q)
           \/ CurrentUser(q) \/ PrepareBrowserLogout(q)
    PROVE  ConfigurationInv'
  <1> USE DEF Checked
  <1>1. UNCHANGED <<app, reader, login, seen>>
    BY DEF ResolveApplication, ApplicationCorsOrigin, ProjectCorsOrigin, Authenticate, SessionOrigin,
           RefreshSession, CurrentUser, PrepareBrowserLogout
  <1>2. ASSUME NEW stage \in {"origin", "authenticate", "session_origin", "work", "create", "answered"},
               Advance(q, stage), InFlight(q),
               stage \in Checked => \/ request[q].stage \in Checked
                                    \/ request[q].origin = None
                                    \/ <<request[q].app, request[q].origin>> \in Allowed
        PROVE  ConfigurationInv'
    <2>1. /\ request' = [request EXCEPT ![q].stage = stage, ![q].security = request[q].security]
          /\ request[q].security \in 0..MaxRevision
      BY <1>2, AdvanceStage
    <2>2. LoginsGoOn
      BY <1>1, LoginsStay
    <2> QED
      BY <1>1, <1>2, <2>1, <2>2, AdvanceKeeps
  <1>3. CASE ResolveApplication(q)
    BY <1>2, <1>3 DEF ResolveApplication, InFlight
  <1>4. CASE ApplicationCorsOrigin(q)
    BY <1>2, <1>4 DEF ApplicationCorsOrigin, ExactApplicationOrigin, InFlight
  <1>5. CASE ProjectCorsOrigin(q)
    BY <1>2, <1>5 DEF ProjectCorsOrigin, InFlight
  <1>6. CASE Authenticate(q)
    BY <1>2, <1>6 DEF Authenticate, InFlight
  <1>7. CASE SessionOrigin(q)
    BY <1>2, <1>7 DEF SessionOrigin, ExactApplicationOrigin, InFlight
  <1>8. CASE RefreshSession(q) \/ CurrentUser(q) \/ PrepareBrowserLogout(q)
    BY <1>2, <1>8 DEF RefreshSession, CurrentUser, PrepareBrowserLogout, At, InFlight
  <1> QED
    BY <1>3, <1>4, <1>5, <1>6, <1>7, <1>8

LEMMA RefuseKeeps ==
    ASSUME ConfigurationAssumption, ConfigurationInv, NEW q \in Requests, Refuse(q)
    PROVE  ConfigurationInv'
  <1>1. /\ request' = [request EXCEPT ![q] = Idle] /\ UNCHANGED <<app, reader, login>>
        /\ seen' = [seen EXCEPT ![q] = {}]
    BY DEF Refuse
  <1>2. request'[q] = Idle /\ seen'[q] = {}
    BY <1>1 DEF ConfigurationInv, ConfigurationShaped
  <1>3. RequestFits(q)'
    BY <1>2 DEF RequestFits, InFlight, Idle, Checked
  <1> QED
    BY <1>1, <1>2, <1>3, IdleShaped, RequestStep, LoginsStay

LEMMA PrepareLoginStartKeeps ==
    ASSUME ConfigurationInv, NEW q \in Requests, PrepareLoginStart(q)
    PROVE  ConfigurationInv'
  <1>1. /\ InFlight(q) /\ request[q].stage = "work" /\ UNCHANGED <<app, reader, login, seen>>
        /\ request' = [request EXCEPT ![q].stage = "create", ![q].security = app[request[q].app].security]
    BY DEF PrepareLoginStart, At, InFlight
  <1>2. request[q].app \in Applications
    BY <1>1 DEF ConfigurationInv, RequestFits
  <1>3. app[request[q].app].security \in 0..MaxRevision
    BY <1>2 DEF ConfigurationInv, ConfigurationShaped, AppRow
  <1> QED
    BY <1>1, <1>3, AdvanceKeeps, LoginsStay DEF Checked

\* A sign-in is written under the revision that has its redirect.
LEMMA CreateLoginKeeps ==
    ASSUME ConfigurationAssumption, ConfigurationInv, NEW q \in Requests, NEW l \in Logins, CreateLoginTransaction(q, l)
    PROVE  ConfigurationInv'
  <1> DEFINE row == [login[l] EXCEPT !.status = "open", !.app = request[q].app,
                                     !.redirect = request[q].redirect, !.security = request[q].security]
  <1>1. /\ request[q] \in RequestRow /\ login[l] \in LoginRow /\ login \in [Logins -> LoginRow]
        /\ LoginFits(l) /\ RequestFits(q)
    BY DEF ConfigurationInv, ConfigurationShaped
  <1>2. /\ login' = [login EXCEPT ![l] = row] /\ InFlight(q) /\ request[q].stage = "create"
        /\ Advance(q, "answered") /\ UNCHANGED <<app, reader, seen>> /\ login[l].status = "none"
        /\ app[request[q].app].security = request[q].security
        /\ Active(request[q].app) /\ request[q].redirect \in app[request[q].app].redirects
    BY DEF CreateLoginTransaction, InFlight
  <1>3. request[q].app \in Applications
    BY <1>1, <1>2 DEF RequestFits
  <1>4. row \in LoginRow /\ login'[l] = row
    BY <1>1, <1>2 DEF LoginRow, RequestRow
  <1>5. /\ row.app = request[q].app /\ row.redirect = request[q].redirect
        /\ row.security = request[q].security /\ row.session = login[l].session /\ row.status = "open"
    BY <1>1 DEF LoginRow
  <1>6. AppFits(request[q].app) /\ app[request[q].app].security \in Nat /\ app[request[q].app].status = "active"
    BY <1>2, <1>3 DEF ConfigurationInv, ConfigurationShaped, AppRow, Active
  <1>7. app[request[q].app].security >= 1
    BY <1>6 DEF AppFits
  <1> HIDE DEF row
  <1>8. LoginFits(l)'
    BY <1>1, <1>2, <1>3, <1>4, <1>5, <1>6, <1>7 DEF LoginFits
  <1> QED
    BY <1>2, <1>4, <1>5, <1>8, LoginMoves, AdvanceStage, AdvanceKeeps DEF Checked

\* A sign-in goes on without moving to another Application, redirect or revision.
LEMMA LoginGoesOn ==
    ASSUME ConfigurationInv, app' = app, NEW l \in Logins,
           login[l].status # "none",
           \/ login' = [login EXCEPT ![l].status = "handed_off"]
           \/ \E session \in {"active", "revoked"} : login' = [login EXCEPT ![l].session = session]
    PROVE  LoginsGoOn
  <1>1. login[l] \in LoginRow /\ login \in [Logins -> LoginRow] /\ LoginFits(l)
    BY DEF ConfigurationInv, ConfigurationShaped
  <1>2. login'[l] \in LoginRow /\ login' = [login EXCEPT ![l] = login'[l]]
    BY <1>1 DEF LoginRow
  <1>3. /\ login'[l].app = login[l].app /\ login'[l].redirect = login[l].redirect
        /\ login'[l].security = login[l].security /\ login'[l].status # "none"
    BY <1>1 DEF LoginRow
  <1>4. LoginFits(l)'
    BY <1>1, <1>3 DEF LoginFits
  <1> QED
    BY <1>2, <1>3, <1>4, LoginMoves

LEMMA SignInsKeep ==
    ASSUME ConfigurationInv, NEW q \in Requests, ExchangeHandoff(q) \/ LogoutApplicationSession(q)
    PROVE  ConfigurationInv'
  <1> DEFINE l == request[q].login
  <1>1. /\ InFlight(q) /\ request[q].stage = "work" /\ Advance(q, "answered")
        /\ UNCHANGED <<app, reader, seen>> /\ request[q].kind # "start"
    BY DEF ExchangeHandoff, LogoutApplicationSession, At, InFlight
  <1>2. l \in Logins
    BY <1>1 DEF ConfigurationInv, RequestFits
  <1>3. LoginsGoOn
    <2>1. CASE ExchangeHandoff(q)
      <3>1. login[l].status # "none" /\ login' = [login EXCEPT ![l].session = "active"]
        BY <2>1 DEF ExchangeHandoff
      <3> HIDE DEF l
      <3> QED
        BY <1>1, <1>2, <3>1, LoginGoesOn
    <2>2. CASE LogoutApplicationSession(q)
      <3>1. login' = [login EXCEPT ![l].session = "revoked"] /\ request[q].kind = "logout"
        BY <2>2 DEF LogoutApplicationSession, At
      <3>2. login[l].status # "none"
        BY <1>1, <3>1 DEF ConfigurationInv, RequestFits, Bearing
      <3> HIDE DEF l
      <3> QED
        BY <1>1, <1>2, <3>1, <3>2, LoginGoesOn
    <2> QED
      BY <2>1, <2>2
  <1> QED
    BY <1>1, <1>3, AdvanceStage, AdvanceKeeps DEF Checked

LEMMA CompleteLoginKeeps ==
    ASSUME ConfigurationInv, NEW l \in Logins, CompleteLogin(l)
    PROVE  ConfigurationInv'
  <1>1. UNCHANGED <<app, reader, request, seen>> /\ LoginsGoOn
    BY LoginGoesOn DEF CompleteLogin
  <1>2. ConfigurationShaped'
    BY <1>1 DEF ConfigurationInv, ConfigurationShaped, LoginsGoOn
  <1>3. \A op \in Operators : ReaderFits(op)'
    BY <1>1 DEF ConfigurationInv, ReaderFits
  <1>4. \A a \in Applications : AppFits(a)'
    BY <1>1 DEF ConfigurationInv, AppFits, Configuration
  <1>5. \A q \in Requests : RequestFits(q)'
    BY <1>1 DEF ConfigurationInv, RequestFits, InFlight, Allowed, Active, LoginsGoOn, Naming, Bearing
  <1> QED
    BY <1>1, <1>2, <1>3, <1>4, <1>5 DEF ConfigurationInv, LoginsGoOn

LEMMA ConfigurationStutters ==
    ASSUME ConfigurationInv, UNCHANGED configurationVars
    PROVE  ConfigurationInv'
  BY DEF configurationVars, ConfigurationInv, ConfigurationShaped, AppFits, Configuration, ReaderFits,
         LoginFits, RequestFits, InFlight, Allowed, Active

\* Every row of the Applications, of what operators read, of sign-ins and of
\* requests fits the others in every reachable state.
THEOREM ConfigurationInvariant ==
    ASSUME ConfigurationAssumption
    PROVE  ConfigurationSpec => []ConfigurationInv
  <1>1. ConfigurationInit => ConfigurationInv
    BY ConfigurationInitEstablishes
  <1>2. ConfigurationInv /\ [ConfigurationNext]_configurationVars => ConfigurationInv'
    <2> SUFFICES ASSUME ConfigurationInv, [ConfigurationNext]_configurationVars
                 PROVE  ConfigurationInv'
      OBVIOUS
    <2>1. ASSUME NEW op \in Operators, Configure(op) PROVE ConfigurationInv'
      BY <2>1, CreateApplicationKeeps, ReadingKeeps, CommandKeeps DEF Configure
    <2>2. ASSUME NEW q \in Requests, Serve(q) PROVE ConfigurationInv'
      BY <2>2, ChecksKeep, PrepareLoginStartKeeps, CreateLoginKeeps, SignInsKeep, RefuseKeeps
      DEF Serve
    <2>3. CASE UNCHANGED configurationVars
      BY <2>3, ConfigurationStutters
    <2> QED
      BY <2>1, <2>2, <2>3, AskKeeps, CompleteLoginKeeps DEF ConfigurationNext
  <1> QED
    BY <1>1, <1>2, PTL DEF ConfigurationSpec

LEMMA ConfigurationInvGivesSafe ==
    ASSUME ConfigurationAssumption, ConfigurationInv
    PROVE  ConfigurationSafe
  <1>1. ASSUME NEW a \in Applications
        PROVE  /\ app[a].status \in {"absent", "active", "disabled"} /\ app[a].security \in 0..MaxRevision
               /\ app[a].redirects \subseteq Redirects /\ app[a].origins \subseteq Origins
               /\ app[a].key = Active(a)
    <2>1. app[a] \in AppRow /\ AppFits(a)
      BY DEF ConfigurationInv, ConfigurationShaped
    <2>2. app[a].key \in BOOLEAN /\ (app[a].key <=> Active(a))
      BY <2>1 DEF AppRow, AppFits, Active
    <2>3. Active(a) \in BOOLEAN
      BY DEF Active
    <2>4. app[a].key = Active(a)
      BY <2>2, <2>3
    <2> QED
      BY <2>1, <2>4 DEF AppRow
  <1>2. \A l \in Logins : login[l].status # "none" => login[l].security <= app[login[l].app].security
    BY DEF ConfigurationInv, LoginFits
  <1>3. AnsweredOriginWasAllowed
    BY DEF ConfigurationInv, RequestFits, AnsweredOriginWasAllowed, Checked
  <1> QED
    BY <1>1, <1>2, <1>3 DEF ConfigurationSafe, ConfigurationTypeOK

\* Whatever operators replace meanwhile, what a browser is answered goes to an
\* origin that the very Application of the request allowed at some moment of it
\* (ConfigurationSafe; application_cors_origin,
\* application_session_origin_allowed).
THEOREM ConfigurationIsSafe ==
    ASSUME ConfigurationAssumption
    PROVE  ConfigurationSpec => []ConfigurationSafe
  <1>1. ConfigurationInv => ConfigurationSafe
    BY ConfigurationInvGivesSafe
  <1> QED
    BY <1>1, ConfigurationInvariant, PTL

\* The only steps that move the revision of an Application that was read.
LEMMA ReplacesWhatWasReadHolds ==
    ASSUME ConfigurationAssumption, ConfigurationInv, ConfigurationNext
    PROVE  ReplacesWhatWasRead
  <1> SUFFICES ASSUME NEW op \in Operators, reader[op].stage = "loaded", reader'[op] # reader[op],
                      app'[reader[op].app].security # app[reader[op].app].security
               PROVE  reader[op].shown = Configuration(reader[op].app)
    BY DEF ReplacesWhatWasRead
  <1>1. PICK o \in Operators : Configure(o)
    <2>1. reader' # reader
      OBVIOUS
    <2>2. ASSUME NEW q \in Requests, Ask(q) \/ Serve(q) PROVE reader' = reader
      BY <2>2 DEF Ask, BeginNaming, BeginBearing, Begin, Serve, ResolveApplication,
           ApplicationCorsOrigin, ProjectCorsOrigin, Authenticate, SessionOrigin, PrepareLoginStart,
           CreateLoginTransaction, ExchangeHandoff, RefreshSession, CurrentUser,
           LogoutApplicationSession, PrepareBrowserLogout, Refuse
    <2>3. ASSUME NEW l \in Logins, CompleteLogin(l) PROVE reader' = reader
      BY <2>3 DEF CompleteLogin
    <2> QED
      BY <2>1, <2>2, <2>3 DEF ConfigurationNext
  <1>2. reader \in [Operators -> ReaderRow] /\ app \in [Applications -> AppRow] /\ ReaderFits(op)
    BY DEF ConfigurationInv, ConfigurationShaped
  <1>3. reader[op].app \in Applications /\ app[reader[op].app].security >= 1
    BY <1>2 DEF ReaderFits
  <1>4. DisableApplication(o) \/ \E redirects \in SUBSET Redirects, origins \in SUBSET Origins :
             ReplaceApplicationConfiguration(o, [redirects |-> redirects, origins |-> origins])
    <2>1. app' # app
      OBVIOUS
    <2>2. \A a \in Applications : ~ CreateApplication(o, a)
      <3> SUFFICES ASSUME NEW a \in Applications, CreateApplication(o, a) PROVE FALSE
        OBVIOUS
      <3>1. app[a].status = "absent" /\ app[a].security = 0
        BY <2>1, <1>2 DEF CreateApplication, ConfigurationInv, AppFits
      <3>2. a # reader[op].app
        BY <1>3, <3>1
      <3> QED
        BY <1>2, <1>3, <3>2 DEF CreateApplication
    <2> QED
      BY <1>1, <2>1, <2>2 DEF Configure, GetApplication, ReadRow, ReadRedirects, ReadOrigins, UpdateApplication
  <1>5. o = op /\ Fenced(o)
    BY <1>2, <1>4 DEF DisableApplication, ReplaceApplicationConfiguration
  <1> QED
    BY <1>5, FencedRead

LEMMA RedirectStillConfiguredHolds ==
    ASSUME ConfigurationInv, ConfigurationNext
    PROVE  RedirectStillConfigured
  <1>1. ASSUME NEW l \in Logins, login'[l].status = "handed_off", login[l].status # "handed_off"
        PROVE  login[l].redirect \in app[login[l].app].redirects
    <2>1. login \in [Logins -> LoginRow] /\ LoginFits(l)
      BY DEF ConfigurationInv, ConfigurationShaped
    <2>2. CompleteLogin(l)
      <3>1. login' # login
        BY <1>1
      <3>2. ASSUME NEW q \in Requests, NEW k \in Logins, CreateLoginTransaction(q, k) PROVE FALSE
        <4>1. login'[l].status \in {login[l].status, "open"}
          BY <2>1, <3>2 DEF CreateLoginTransaction, LoginRow
        <4> QED
          BY <1>1, <4>1
      <3>3. ASSUME NEW q \in Requests, ExchangeHandoff(q) \/ LogoutApplicationSession(q) PROVE FALSE
        <4>1. login'[l].status = login[l].status
          BY <2>1, <3>3 DEF ExchangeHandoff, LogoutApplicationSession, LoginRow
        <4> QED
          BY <1>1, <4>1
      <3>4. PICK k \in Logins : CompleteLogin(k)
        BY <3>1, <3>2, <3>3
        DEF ConfigurationNext, Ask, BeginNaming, BeginBearing, Begin, Serve, ResolveApplication,
            ApplicationCorsOrigin, ProjectCorsOrigin, Authenticate, SessionOrigin, PrepareLoginStart,
            RefreshSession, CurrentUser, PrepareBrowserLogout, Refuse, Configure, CreateApplication,
            GetApplication, ReadRow, ReadRedirects, ReadOrigins, UpdateApplication, DisableApplication,
            ReplaceApplicationConfiguration
      <3>5. k = l
        BY <1>1, <2>1, <3>4 DEF CompleteLogin
      <3> QED
        BY <3>4, <3>5
    <2> QED
      BY <2>1, <2>2 DEF CompleteLogin, CurrentOwners, LoginFits
  <1>2. ASSUME NEW q \in Requests, request[q].kind \in {"exchange", "refresh"}, request[q].stage = "work",
               request'[q].stage = "answered"
        PROVE  /\ Active(request[q].app)
               /\ login[request[q].login].redirect \in app[request[q].app].redirects
    <2>1. request \in [Requests -> RequestRow] /\ RequestFits(q)
      BY DEF ConfigurationInv, ConfigurationShaped
    <2>2. request' # request
      BY <1>2
    <2>3. ASSUME NEW p \in Requests, Ask(p) \/ Serve(p) PROVE p = q
      <3> SUFFICES ASSUME p # q PROVE request'[q] = request[q]
        BY <1>2
      <3> QED
        BY <2>1, <2>3 DEF Ask, BeginNaming, BeginBearing, Begin, Serve, Advance, ResolveApplication,
           ApplicationCorsOrigin, ProjectCorsOrigin, Authenticate, SessionOrigin, PrepareLoginStart,
           CreateLoginTransaction, ExchangeHandoff, RefreshSession, CurrentUser,
           LogoutApplicationSession, PrepareBrowserLogout, Refuse
    <2>4. Ask(q) \/ Serve(q)
      <3>1. ASSUME NEW op \in Operators, Configure(op) PROVE FALSE
        BY <2>2, <3>1 DEF Configure, CreateApplication, GetApplication, ReadRow, ReadRedirects, ReadOrigins,
           UpdateApplication, DisableApplication, ReplaceApplicationConfiguration
      <3>2. ASSUME NEW l \in Logins, CompleteLogin(l) PROVE FALSE
        BY <2>2, <3>2 DEF CompleteLogin
      <3> QED
        BY <2>3, <3>1, <3>2 DEF ConfigurationNext
    <2>5. ~ Ask(q)
      BY <1>2 DEF Ask, BeginNaming, BeginBearing, Begin, InFlight
    <2>6. ~ Refuse(q)
      BY <1>2, <2>1 DEF Refuse, Idle
    <2>7. ExchangeHandoff(q) \/ RefreshSession(q)
      BY <1>2, <2>1, <2>4, <2>5, <2>6 DEF Serve, ResolveApplication,
           ApplicationCorsOrigin, ProjectCorsOrigin, Authenticate, SessionOrigin, PrepareLoginStart,
           CreateLoginTransaction, CurrentUser, At, LogoutApplicationSession, PrepareBrowserLogout
    <2>8. request[q].login \in Logins
      BY <1>2, <2>1 DEF RequestFits, InFlight
    <2>9. LoginFits(request[q].login)
      BY <2>8 DEF ConfigurationInv
    <2> QED
      BY <2>7, <2>8, <2>9 DEF ExchangeHandoff, RefreshSession, CurrentOwners, LoginFits
  <1> QED
    BY <1>1, <1>2 DEF RedirectStillConfigured

\* An operator overwrites only what it was shown, and nobody is sent to, or given
\* credentials for, a redirect that is not configured at that moment
\* (replace_application_configuration, lock_login_application_owners).
THEOREM ConfigurationDecides ==
    ASSUME ConfigurationAssumption
    PROVE  ConfigurationSpec => [][ReplacesWhatWasRead /\ RedirectStillConfigured]_configurationVars
  <1>1. ConfigurationInv /\ [ConfigurationNext]_configurationVars
           => [ReplacesWhatWasRead /\ RedirectStillConfigured]_configurationVars
    BY ReplacesWhatWasReadHolds, RedirectStillConfiguredHolds
  <1> QED
    BY <1>1, ConfigurationInvariant, PTL DEF ConfigurationSpec

-----------------------------------------------------------------------------
(* The deployment's SMTP generations: the inductive invariant *)

\* What the proofs use of the constants.
LEMMA DeploymentConstants ==
    ASSUME DeploymentAssumption
    PROVE  /\ Generations \subseteq Nat /\ 0 \notin Generations /\ "none" \notin Secrets
           /\ Retention \in Nat /\ LoginLife \in Nat
  BY DEF DeploymentAssumption

GenRow == [status : {"none", "reconciled", "active", "retained"} \cup Terminated, revision : Nat,
           eligibility : Nat, fingerprint : Secrets \cup {"none"},
           operation : {"none", "prepared", "completed"}, retained : 0..Retention]
EnvelopeRow == [state : {"absent", "pending", "live", "erased"}, secret : Secrets \cup {"none"}]
ProcessRow == [pc : {"down", "reconcile", "up"}, of : Generations \cup {0},
               wants : {"none", "reconciled", "active", "disabled", "compromised"},
               fingerprint : Secrets \cup {"none"}]
RegistrationRow == [pc : {"idle", "prepare", "seal", "finalize"}, of : Generations \cup {0},
                    secret : Secrets \cup {"none"}, expected : Secrets \cup {"none"}]
PinRow == [pinned : Generations \cup {0}, eligibility : Nat, left : 0..LoginLife]

DeploymentShaped ==
    /\ gen \in [Generations -> GenRow]
    /\ envelope \in [Generations -> EnvelopeRow]
    /\ process \in [Servers -> ProcessRow]
    /\ registration \in [Registrations -> RegistrationRow]
    /\ pin \in [MailLogins -> PinRow]

\* A generation has its credential from its registration to its retirement.
GenFits(g) ==
    /\ gen[g].status = "none" => gen[g].eligibility = 0
    /\ gen[g].operation = "completed" <=> gen[g].fingerprint # "none"
    /\ gen[g].operation # "completed" => gen[g].status \in {"none", "reconciled"}
    /\ gen[g].operation = "completed" /\ gen[g].status # "retired" =>
           envelope[g].state = "live" /\ envelope[g].secret = gen[g].fingerprint

OneActive == \A g, h \in Generations : gen[g].status = "active" /\ gen[h].status = "active" => g = h

\* A login is pinned to a generation under its eligibility only while that was not ended.
PinFits(l) ==
    LET g == pin[l].pinned
    IN pin[l].left > 0 =>
          /\ g \in Generations /\ pin[l].eligibility <= gen[g].eligibility
          /\ pin[l].eligibility = gen[g].eligibility => gen[g].status \in {"active", "retained"}

ProcessFits(p) ==
    process[p].pc = "reconcile" =>
        process[p].of \in Generations /\ process[p].fingerprint \in Secrets /\ process[p].wants # "none"

RegistrationFits(r) ==
    registration[r].pc # "idle" => registration[r].of \in Generations /\ registration[r].secret \in Secrets

RegistryFits ==
    /\ gen \in [Generations -> GenRow]
    /\ envelope \in [Generations -> EnvelopeRow]
    /\ \A g \in Generations : GenFits(g)
    /\ OneActive

DeploymentInv ==
    /\ DeploymentShaped
    /\ RegistryFits
    /\ \A l \in MailLogins : PinFits(l)
    /\ \A p \in Servers : ProcessFits(p)
    /\ \A r \in Registrations : RegistrationFits(r)

LEMMA DeploymentInitEstablishes ==
    ASSUME DeploymentAssumption, DeploymentInit
    PROVE  DeploymentInv
  <1> USE DeploymentConstants DEF DeploymentInit
  <1>1. DeploymentShaped
    BY DEF DeploymentShaped, GenRow, EnvelopeRow, ProcessRow, RegistrationRow, PinRow,
           NoGen, NoMaterial, NoProcess, NoRequest, NoLogin
  <1>2. \A g \in Generations : GenFits(g) /\ gen[g].status # "active"
    BY DEF GenFits, NoGen
  <1>3. \A l \in MailLogins : PinFits(l)
    BY DEF PinFits, NoLogin
  <1>4. \A p \in Servers : ProcessFits(p)
    BY DEF ProcessFits, NoProcess
  <1>5. \A r \in Registrations : RegistrationFits(r)
    BY DEF RegistrationFits, NoRequest
  <1> QED
    BY <1>1, <1>2, <1>3, <1>4, <1>5 DEF DeploymentInv, RegistryFits, OneActive, DeploymentShaped

-----------------------------------------------------------------------------
(* The registry *)

\* A generation that was active or retained leaves that with another eligibility.
Onwards(old, new) ==
    /\ old.eligibility <= new.eligibility
    /\ old.status \in {"active", "retained"} /\ new.status \notin {"active", "retained"} =>
           old.eligibility < new.eligibility

\* What a step does that moves one generation and makes none active.
LEMMA GenerationMoves ==
    ASSUME DeploymentAssumption, DeploymentInv, NEW g \in Generations, NEW row \in GenRow, NEW e \in EnvelopeRow,
           gen' = [gen EXCEPT ![g] = row], envelope' = [envelope EXCEPT ![g] = e],
           GenFits(g)', row.status = "active" => gen[g].status = "active"
    PROVE  RegistryFits'
  <1>1. gen \in [Generations -> GenRow] /\ envelope \in [Generations -> EnvelopeRow] /\ OneActive
    BY DEF DeploymentInv, RegistryFits
  <1>2. gen'[g] = row /\ \A h \in Generations : h # g => gen'[h] = gen[h] /\ envelope'[h] = envelope[h]
    BY <1>1
  <1>3. \A h \in Generations : GenFits(h)'
    BY <1>2 DEF DeploymentInv, RegistryFits, GenFits
  <1>4. OneActive'
    BY <1>1, <1>2 DEF OneActive
  <1>5. gen' \in [Generations -> GenRow] /\ envelope' \in [Generations -> EnvelopeRow]
    BY <1>1
  <1> QED
    BY <1>3, <1>4, <1>5 DEF RegistryFits

LEMMA PinsStay ==
    ASSUME DeploymentAssumption, DeploymentInv, pin' = pin, gen' \in [Generations -> GenRow],
           \A g \in Generations : Onwards(gen[g], gen'[g])
    PROVE  \A l \in MailLogins : PinFits(l)'
  <1> SUFFICES ASSUME NEW l \in MailLogins PROVE PinFits(l)'
    OBVIOUS
  <1>1. PinFits(l) /\ pin[l] \in PinRow /\ gen \in [Generations -> GenRow]
    BY DEF DeploymentInv, DeploymentShaped
  <1>2. ASSUME pin[l].left > 0
        PROVE  /\ pin[l].eligibility \in Nat /\ pin[l].pinned \in Generations
               /\ gen[pin[l].pinned].eligibility \in Nat /\ gen'[pin[l].pinned].eligibility \in Nat
    BY <1>1, <1>2 DEF PinFits, PinRow, GenRow
  <1> QED
    BY <1>1, <1>2 DEF PinFits, Onwards

LEMMA OthersOnward ==
    ASSUME DeploymentInv, NEW g \in Generations, NEW row \in GenRow,
           gen' = [gen EXCEPT ![g] = row], Onwards(gen[g], row)
    PROVE  gen' \in [Generations -> GenRow] /\ \A h \in Generations : Onwards(gen[h], gen'[h])
  <1>1. gen \in [Generations -> GenRow]
    BY DEF DeploymentInv, DeploymentShaped
  <1>2. \A h \in Generations : gen[h].eligibility \in Nat
    BY <1>1 DEF GenRow
  <1> QED
    BY <1>1, <1>2 DEF Onwards

EndedRow(g, status) ==
    [gen[g] EXCEPT !.status = status, !.retained = 0,
                   !.revision = gen[g].revision + 1, !.eligibility = gen[g].eligibility + 1]

\* The end of a generation.
LEMMA EndedFits ==
    ASSUME DeploymentAssumption, DeploymentInv, NEW g \in Generations, NEW status \in Terminated
    PROVE  /\ EndedRow(g, status) \in GenRow /\ Ended(g, status) = [gen EXCEPT ![g] = EndedRow(g, status)]
           /\ EndedRow(g, status).status = status
           /\ EndedRow(g, status).operation = gen[g].operation
           /\ EndedRow(g, status).fingerprint = gen[g].fingerprint
           /\ Onwards(gen[g], EndedRow(g, status))
  <1>1. gen \in [Generations -> GenRow] /\ gen[g] \in GenRow
    BY DEF DeploymentInv, DeploymentShaped
  <1>2. /\ gen[g].eligibility \in Nat /\ gen[g].eligibility + 1 \in Nat /\ gen[g].revision + 1 \in Nat
        /\ 0 \in 0..Retention
        /\ status \in {"none", "reconciled", "active", "retained"} \cup Terminated
    BY <1>1, DeploymentConstants DEF GenRow
  <1>3. EndedRow(g, status) \in GenRow
    BY <1>1, <1>2 DEF EndedRow, GenRow
  <1>4. /\ EndedRow(g, status).status = status
        /\ EndedRow(g, status).operation = gen[g].operation
        /\ EndedRow(g, status).fingerprint = gen[g].fingerprint
        /\ EndedRow(g, status).eligibility = gen[g].eligibility + 1
    BY <1>1 DEF EndedRow, GenRow
  <1>5. Ended(g, status) = [gen EXCEPT ![g] = EndedRow(g, status)]
    BY <1>1 DEF Ended, EndedRow
  <1>6. Onwards(gen[g], EndedRow(g, status))
    BY <1>2, <1>4 DEF Onwards
  <1> QED
    BY <1>3, <1>4, <1>5, <1>6

\* What a step leaves standing that ends a generation that was registered.
LEMMA EndKeeps ==
    ASSUME DeploymentAssumption, DeploymentInv, NEW g \in Generations, NEW status \in Terminated,
           gen' = Ended(g, status), gen[g].operation = "completed",
           \/ envelope' = envelope /\ gen[g].status # "retired"
           \/ envelope' = [envelope EXCEPT ![g].state = "erased"] /\ status = "retired",
           pin' = pin
    PROVE  RegistryFits' /\ \A l \in MailLogins : PinFits(l)'
  <1> DEFINE row == EndedRow(g, status)
  <1>1. /\ gen \in [Generations -> GenRow] /\ envelope \in [Generations -> EnvelopeRow] /\ GenFits(g)
    BY DEF DeploymentInv, RegistryFits
  <1>2. /\ row \in GenRow /\ gen' = [gen EXCEPT ![g] = row] /\ row.status = status
        /\ row.operation = gen[g].operation /\ row.fingerprint = gen[g].fingerprint
        /\ Onwards(gen[g], row)
    BY EndedFits
  <1> HIDE DEF row
  <1>3. envelope'[g] \in EnvelopeRow /\ envelope' = [envelope EXCEPT ![g] = envelope'[g]]
    BY <1>1 DEF EnvelopeRow
  <1>4. gen'[g] = row /\ row.status # "active"
    BY <1>1, <1>2 DEF Terminated
  <1>5. GenFits(g)'
    BY <1>1, <1>2, <1>4 DEF GenFits, Terminated
  <1>6. RegistryFits'
    BY <1>2, <1>3, <1>4, <1>5, GenerationMoves
  <1> QED
    BY <1>2, <1>6, OthersOnward, PinsStay

LEMMA TerminateKeeps ==
    ASSUME DeploymentAssumption, DeploymentInv, NEW g \in Generations, NEW status \in {"disabled", "compromised"},
           TerminateDeploymentSmtpGeneration(g, status)
    PROVE  DeploymentInv'
  <1>1. /\ gen' = Ended(g, status) /\ UNCHANGED <<envelope, process, registration, pin>>
        /\ gen[g].fingerprint # "none" /\ gen[g].status # "retired" /\ status \in Terminated
    BY DEF TerminateDeploymentSmtpGeneration, Ended, Terminated
  <1>2. gen[g].operation = "completed"
    BY <1>1 DEF DeploymentInv, RegistryFits, GenFits
  <1>3. RegistryFits' /\ \A l \in MailLogins : PinFits(l)'
    BY <1>1, <1>2, EndKeeps
  <1> QED
    BY <1>1, <1>3 DEF DeploymentInv, DeploymentShaped, RegistryFits, ProcessFits, RegistrationFits

LEMMA RetireKeeps ==
    ASSUME DeploymentAssumption, DeploymentInv, NEW g \in Generations, RetireDeploymentGeneration(g)
    PROVE  DeploymentInv'
  <1>1. /\ gen' = Ended(g, "retired") /\ UNCHANGED <<process, registration, pin>>
        /\ envelope' = [envelope EXCEPT ![g].state = "erased"] /\ "retired" \in Terminated
        /\ gen[g].status \in {"disabled", "compromised", "retained"}
    BY DEF RetireDeploymentGeneration, Retirable, Ended, Terminated
  <1>2. gen[g].operation = "completed"
    BY <1>1 DEF DeploymentInv, RegistryFits, GenFits
  <1>3. RegistryFits' /\ \A l \in MailLogins : PinFits(l)'
    BY <1>1, <1>2, EndKeeps
  <1> QED
    BY <1>1, <1>3 DEF DeploymentInv, DeploymentShaped, RegistryFits, ProcessFits, RegistrationFits

-----------------------------------------------------------------------------
(* Registration *)

LEMMA RegistrationStays ==
    ASSUME DeploymentAssumption, DeploymentInv, NEW r \in Registrations, NEW row \in RegistrationRow,
           registration' = [registration EXCEPT ![r] = row],
           row.pc # "idle" => row.of \in Generations /\ row.secret \in Secrets
    PROVE  /\ registration' \in [Registrations -> RegistrationRow]
           /\ \A q \in Registrations : RegistrationFits(q)'
  BY DEF DeploymentInv, DeploymentShaped, RegistrationFits

LEMMA RegistrationMoves ==
    ASSUME DeploymentAssumption, DeploymentInv, NEW r \in Registrations,
           \/ registration' = [registration EXCEPT ![r] = NoRequest]
           \/ \E pc \in {"seal", "finalize"} :
                 registration[r].pc # "idle" /\ registration' = [registration EXCEPT ![r].pc = pc]
    PROVE  /\ registration' \in [Registrations -> RegistrationRow]
           /\ \A q \in Registrations : RegistrationFits(q)'
  <1> USE DeploymentConstants
  <1>1. registration \in [Registrations -> RegistrationRow] /\ RegistrationFits(r)
    BY DEF DeploymentInv, DeploymentShaped
  <1>2. NoRequest \in RegistrationRow /\ NoRequest.pc = "idle"
    BY DEF NoRequest, RegistrationRow
  <1>3. CASE registration' = [registration EXCEPT ![r] = NoRequest]
    BY <1>2, <1>3, RegistrationStays
  <1>4. ASSUME NEW pc \in {"seal", "finalize"}, registration[r].pc # "idle",
               registration' = [registration EXCEPT ![r].pc = pc]
        PROVE  /\ registration' \in [Registrations -> RegistrationRow]
               /\ \A q \in Registrations : RegistrationFits(q)'
    <2> DEFINE row == [registration[r] EXCEPT !.pc = pc]
    <2>1. row \in RegistrationRow /\ row.of = registration[r].of /\ row.secret = registration[r].secret
      BY <1>1 DEF RegistrationRow
    <2>2. registration' = [registration EXCEPT ![r] = row]
      BY <1>1, <1>4
    <2>3. row.of \in Generations /\ row.secret \in Secrets
      BY <1>1, <1>4, <2>1 DEF RegistrationFits
    <2> HIDE DEF row
    <2> QED
      BY <2>1, <2>2, <2>3, RegistrationStays
  <1> QED
    BY <1>3, <1>4

LEMMA AskToRegisterKeeps ==
    ASSUME DeploymentAssumption, DeploymentInv, NEW r \in Registrations, NEW g \in Generations,
           NEW s \in Secrets, NEW e \in Secrets \cup {"none"}, ReconcileGeneration(r, g, s, e)
    PROVE  DeploymentInv'
  <1> DEFINE row == [pc |-> "prepare", of |-> g, secret |-> s, expected |-> e]
  <1>1. /\ registration' = [registration EXCEPT ![r] = row]
        /\ UNCHANGED <<gen, envelope, process, pin>>
    BY DEF ReconcileGeneration
  <1>2. row \in RegistrationRow /\ row.of = g /\ row.secret = s
    BY DEF RegistrationRow
  <1> HIDE DEF row
  <1>3. /\ registration' \in [Registrations -> RegistrationRow]
        /\ \A q \in Registrations : RegistrationFits(q)'
    BY <1>1, <1>2, RegistrationStays
  <1> QED
    BY <1>1, <1>3 DEF DeploymentInv, DeploymentShaped, RegistryFits, GenFits, OneActive, PinFits, ProcessFits

LEMMA SealKeeps ==
    ASSUME DeploymentAssumption, DeploymentInv, NEW r \in Registrations, SealCredential(r)
    PROVE  DeploymentInv'
  <1>1. /\ registration' \in [Registrations -> RegistrationRow]
        /\ \A q \in Registrations : RegistrationFits(q)'
        /\ UNCHANGED <<gen, envelope, process, pin>>
    BY RegistrationMoves DEF SealCredential
  <1> QED
    BY <1>1 DEF DeploymentInv, DeploymentShaped, RegistryFits, GenFits, OneActive, PinFits, ProcessFits

LEMMA PrepareGenerationKeeps ==
    ASSUME DeploymentAssumption, DeploymentInv, NEW r \in Registrations, PrepareDeploymentSmtpGeneration(r)
    PROVE  DeploymentInv'
  <1> USE DeploymentConstants
  <1>1. /\ registration' \in [Registrations -> RegistrationRow]
        /\ \A q \in Registrations : RegistrationFits(q)'
        /\ UNCHANGED <<process, pin>>
    BY RegistrationMoves DEF PrepareDeploymentSmtpGeneration
  <1>2. PICK g \in Generations : g = registration[r].of
    BY DEF PrepareDeploymentSmtpGeneration, DeploymentInv, RegistrationFits
  <1>3. CASE UNCHANGED <<gen, envelope>>
    BY <1>1, <1>3 DEF DeploymentInv, DeploymentShaped, RegistryFits, GenFits, OneActive, PinFits, ProcessFits
  <1>4. CASE gen[g].status = "none" /\ ~ UNCHANGED <<gen, envelope>>
    <2> DEFINE row == [NoGen EXCEPT !.status = "reconciled", !.revision = 1,
                                    !.eligibility = 1, !.operation = "prepared"]
    <2>1. /\ gen' = [gen EXCEPT ![g] = row]
          /\ envelope' = [envelope EXCEPT ![g].state = "pending"]
      BY <1>2, <1>4 DEF PrepareDeploymentSmtpGeneration
    <2>2. /\ row \in GenRow /\ row.status = "reconciled" /\ row.eligibility = 1
          /\ row.operation = "prepared" /\ row.fingerprint = "none"
      <3>1. NoGen \in GenRow /\ NoGen.fingerprint = "none"
        BY DEF NoGen, GenRow
      <3> QED
        BY <3>1 DEF GenRow
    <2> HIDE DEF row
    <2>3. /\ gen \in [Generations -> GenRow] /\ envelope \in [Generations -> EnvelopeRow]
          /\ GenFits(g) /\ gen[g].eligibility \in Nat
      BY DEF DeploymentInv, RegistryFits, GenRow
    <2>4. envelope'[g] \in EnvelopeRow /\ envelope' = [envelope EXCEPT ![g] = envelope'[g]]
      BY <2>1, <2>3 DEF EnvelopeRow
    <2>5. GenFits(g)'
      BY <2>1, <2>2, <2>3 DEF GenFits
    <2>6. RegistryFits'
      BY <2>1, <2>2, <2>4, <2>5, GenerationMoves
    <2>7. Onwards(gen[g], row)
      BY <1>4, <2>2, <2>3 DEF Onwards, GenFits
    <2>8. \A l \in MailLogins : PinFits(l)'
      BY <1>1, <2>1, <2>2, <2>7, OthersOnward, PinsStay
    <2> QED
      BY <1>1, <2>6, <2>8 DEF DeploymentInv, DeploymentShaped, RegistryFits, ProcessFits
  <1> QED
    BY <1>2, <1>3, <1>4 DEF PrepareDeploymentSmtpGeneration

LEMMA FinalizeGenerationKeeps ==
    ASSUME DeploymentAssumption, DeploymentInv, NEW r \in Registrations, FinalizeDeploymentSmtpGeneration(r)
    PROVE  DeploymentInv'
  <1> USE DeploymentConstants
  <1>1. /\ registration' \in [Registrations -> RegistrationRow]
        /\ \A q \in Registrations : RegistrationFits(q)'
        /\ UNCHANGED <<process, pin>>
    BY RegistrationMoves DEF FinalizeDeploymentSmtpGeneration
  <1>2. PICK g \in Generations, s \in Secrets : g = registration[r].of /\ s = registration[r].secret
    BY DEF FinalizeDeploymentSmtpGeneration, DeploymentInv, RegistrationFits
  <1>3. CASE UNCHANGED <<gen, envelope>>
    BY <1>1, <1>3 DEF DeploymentInv, DeploymentShaped, RegistryFits, GenFits, OneActive, PinFits, ProcessFits
  <1>4. CASE gen[g].operation = "prepared" /\ ~ UNCHANGED <<gen, envelope>>
    <2> DEFINE row == [gen[g] EXCEPT !.fingerprint = s, !.operation = "completed"]
    <2>1. /\ gen \in [Generations -> GenRow] /\ envelope \in [Generations -> EnvelopeRow]
          /\ GenFits(g) /\ gen[g] \in GenRow
      BY DEF DeploymentInv, RegistryFits
    <2>2. /\ gen' = [gen EXCEPT ![g] = row]
          /\ envelope' = [envelope EXCEPT ![g] = [state |-> "live", secret |-> s]]
      BY <1>2, <1>4, <2>1 DEF FinalizeDeploymentSmtpGeneration
    <2>3. /\ row \in GenRow /\ row.status = gen[g].status /\ row.eligibility = gen[g].eligibility
          /\ row.operation = "completed" /\ row.fingerprint = s
      BY <2>1 DEF GenRow
    <2>4. /\ [state |-> "live", secret |-> s] \in EnvelopeRow
          /\ envelope'[g].state = "live" /\ envelope'[g].secret = s /\ gen'[g] = row
      BY <2>1, <2>2 DEF EnvelopeRow
    <2> HIDE DEF row
    <2>5. GenFits(g)'
      BY <2>1, <2>3, <2>4 DEF GenFits
    <2>6. RegistryFits'
      BY <2>2, <2>3, <2>4, <2>5, GenerationMoves
    <2>7. Onwards(gen[g], row)
      <3>1. gen[g].eligibility \in Nat
        BY <2>1 DEF GenRow
      <3> QED
        BY <2>3, <3>1 DEF Onwards
    <2>8. \A l \in MailLogins : PinFits(l)'
      BY <1>1, <2>2, <2>3, <2>7, OthersOnward, PinsStay
    <2> QED
      BY <1>1, <2>6, <2>8 DEF DeploymentInv, DeploymentShaped, RegistryFits, ProcessFits
  <1> QED
    BY <1>2, <1>3, <1>4 DEF FinalizeDeploymentSmtpGeneration

-----------------------------------------------------------------------------
(* Processes *)

LEMMA ProcessMoves ==
    ASSUME DeploymentAssumption, DeploymentInv, NEW p \in Servers, NEW row \in ProcessRow,
           process' = [process EXCEPT ![p] = row],
           row.pc = "reconcile" =>
               row.of \in Generations /\ row.fingerprint \in Secrets /\ row.wants # "none"
    PROVE  process' \in [Servers -> ProcessRow] /\ \A q \in Servers : ProcessFits(q)'
  BY DEF DeploymentInv, DeploymentShaped, ProcessFits

LEMMA ProcessGoesOn ==
    ASSUME DeploymentAssumption, DeploymentInv, NEW p \in Servers,
           \/ process' = [process EXCEPT ![p] = NoProcess]
           \/ \E pc \in {"up", "down"} : process' = [process EXCEPT ![p].pc = pc]
    PROVE  process' \in [Servers -> ProcessRow] /\ \A q \in Servers : ProcessFits(q)'
  <1> USE DeploymentConstants
  <1>1. process \in [Servers -> ProcessRow] /\ ProcessFits(p)
    BY DEF DeploymentInv, DeploymentShaped
  <1>2. NoProcess \in ProcessRow /\ NoProcess.pc = "down"
    BY DEF NoProcess, ProcessRow
  <1>3. CASE process' = [process EXCEPT ![p] = NoProcess]
    BY <1>2, <1>3, ProcessMoves
  <1>4. ASSUME NEW pc \in {"up", "down"}, process' = [process EXCEPT ![p].pc = pc]
        PROVE  process' \in [Servers -> ProcessRow] /\ \A q \in Servers : ProcessFits(q)'
    <2> DEFINE row == [process[p] EXCEPT !.pc = pc]
    <2>1. row \in ProcessRow /\ row.pc = pc
      BY <1>1 DEF ProcessRow
    <2>2. process' = [process EXCEPT ![p] = row]
      BY <1>1, <1>4
    <2> HIDE DEF row
    <2> QED
      BY <2>1, <2>2, ProcessMoves
  <1> QED
    BY <1>3, <1>4

LEMMA StartsKeep ==
    ASSUME DeploymentAssumption, DeploymentInv, NEW p \in Servers,
           \/ StartUnconfigured(p) \/ StopProcess(p)
           \/ \E g \in Generations, s \in Secrets :
                 \E w \in {"reconciled", "active", "disabled", "compromised"} : StartConfigured(p, g, w, s)
    PROVE  DeploymentInv'
  <1>1. UNCHANGED <<gen, envelope, registration, pin>>
    BY DEF StartUnconfigured, StopProcess, StartConfigured
  <1>2. process' \in [Servers -> ProcessRow] /\ \A q \in Servers : ProcessFits(q)'
    <2>1. CASE StartUnconfigured(p) \/ StopProcess(p)
      BY <2>1, ProcessGoesOn DEF StartUnconfigured, StopProcess
    <2>2. ASSUME NEW g \in Generations, NEW s \in Secrets,
                 NEW w \in {"reconciled", "active", "disabled", "compromised"}, StartConfigured(p, g, w, s)
          PROVE  process' \in [Servers -> ProcessRow] /\ \A q \in Servers : ProcessFits(q)'
      <3> DEFINE row == [pc |-> "reconcile", of |-> g, wants |-> w, fingerprint |-> s]
      <3>1. row \in ProcessRow /\ row.of = g /\ row.fingerprint = s /\ row.wants # "none"
        BY DEF ProcessRow
      <3>2. process' = [process EXCEPT ![p] = row]
        BY <2>2 DEF StartConfigured
      <3> HIDE DEF row
      <3> QED
        BY <3>1, <3>2, ProcessMoves
    <2> QED
      BY <2>1, <2>2
  <1> QED
    BY <1>1, <1>2 DEF DeploymentInv, DeploymentShaped, RegistryFits, GenFits, OneActive, PinFits, RegistrationFits

\* The rows an activation leaves.
LEMMA ActivatedRows ==
    ASSUME DeploymentAssumption, DeploymentInv, NEW g \in Generations, gen' = Activated(g)
    PROVE  /\ gen' \in [Generations -> GenRow]
           /\ gen'[g].status = "active"
           /\ \A h \in Generations :
                 /\ h # g /\ gen[h].status = "active" => gen'[h].status = "retained"
                 /\ h # g /\ gen[h].status # "active" => gen'[h].status = gen[h].status
                 /\ gen'[h].eligibility = gen[h].eligibility /\ gen'[h].operation = gen[h].operation
                 /\ gen'[h].fingerprint = gen[h].fingerprint /\ gen[h].eligibility \in Nat
  <1> USE DeploymentConstants
  <1>1. gen \in [Generations -> GenRow]
    BY DEF DeploymentInv, DeploymentShaped
  <1>2. ASSUME NEW h \in Generations
        PROVE  /\ gen'[h] \in GenRow
               /\ h = g => gen'[h].status = "active"
               /\ h # g /\ gen[h].status = "active" => gen'[h].status = "retained"
               /\ h # g /\ gen[h].status # "active" => gen'[h].status = gen[h].status
               /\ gen'[h].eligibility = gen[h].eligibility /\ gen'[h].operation = gen[h].operation
               /\ gen'[h].fingerprint = gen[h].fingerprint /\ gen[h].eligibility \in Nat
    <2>1. /\ gen[h] \in GenRow /\ gen[h].revision \in Nat /\ gen[h].revision + 1 \in Nat
          /\ 0 \in 0..Retention /\ Retention \in 0..Retention
      BY <1>1 DEF GenRow
    <2>2. CASE h = g
      <3>1. PICK n \in Nat : gen'[h] = [gen[g] EXCEPT !.status = "active", !.retained = 0, !.revision = n]
        BY <2>1, <2>2 DEF Activated
      <3> QED
        BY <2>1, <2>2, <3>1 DEF GenRow
    <2>3. CASE h # g /\ gen[h].status = "active"
      <3>1. PICK n \in Nat :
               gen'[h] = [gen[h] EXCEPT !.status = "retained", !.retained = Retention, !.revision = n]
        BY <2>1, <2>3 DEF Activated
      <3> QED
        BY <2>1, <2>3, <3>1 DEF GenRow
    <2>4. CASE h # g /\ gen[h].status # "active"
      BY <2>1, <2>4 DEF Activated, GenRow
    <2> QED
      BY <2>2, <2>3, <2>4
  <1>3. gen' = [h \in Generations |-> gen'[h]]
    BY DEF Activated
  <1> QED
    BY <1>2, <1>3

LEMMA ReconcileKeeps ==
    ASSUME DeploymentAssumption, DeploymentInv, NEW p \in Servers, ReconcileDeploymentSmtp(p)
    PROVE  DeploymentInv'
  <1> USE DeploymentConstants
  <1>1. /\ process' \in [Servers -> ProcessRow] /\ \A q \in Servers : ProcessFits(q)'
        /\ UNCHANGED <<envelope, registration, pin>>
    BY ProcessGoesOn DEF ReconcileDeploymentSmtp
  <1>2. PICK g \in Generations : g = process[p].of
    BY DEF ReconcileDeploymentSmtp, DeploymentInv, ProcessFits
  <1>3. /\ process[p].fingerprint \in Secrets
        /\ process[p].wants \in {"reconciled", "active", "disabled", "compromised"}
    BY DEF ReconcileDeploymentSmtp, DeploymentInv, DeploymentShaped, ProcessFits, ProcessRow
  <1>4. GenFits(g) /\ envelope \in [Generations -> EnvelopeRow] /\ gen \in [Generations -> GenRow] /\ OneActive
    BY DEF DeploymentInv, RegistryFits
  <1>5. CASE gen' = gen
    BY <1>1, <1>5 DEF DeploymentInv, DeploymentShaped, RegistryFits, GenFits, OneActive, PinFits, RegistrationFits
  <1>6. CASE gen' # gen
    <2>1. /\ gen[g].fingerprint = process[p].fingerprint
          /\ \/ Activatable(g) /\ gen' = Activated(g)
             \/ process[p].wants \in Terminated /\ gen[g].status # "retired"
                   /\ gen' = Ended(g, process[p].wants)
      <3>1. process[p].wants # "reconciled" /\ process[p].wants # gen[g].status
        BY <1>2, <1>6 DEF ReconcileDeploymentSmtp
      <3>2. SameConfiguration(g, process[p].fingerprint)
        BY <1>2, <1>6 DEF ReconcileDeploymentSmtp
      <3>3. CASE process[p].wants = "active"
        BY <1>2, <1>6, <3>1, <3>2, <3>3 DEF ReconcileDeploymentSmtp, SameConfiguration
      <3>4. CASE process[p].wants \in {"disabled", "compromised"}
        BY <1>2, <1>6, <3>1, <3>2, <3>4 DEF ReconcileDeploymentSmtp, SameConfiguration, Terminated
      <3> QED
        BY <1>3, <3>1, <3>3, <3>4
    <2>2. gen[g].operation = "completed"
      BY <1>3, <1>4, <2>1 DEF GenFits
    <2>3. RegistryFits' /\ \A l \in MailLogins : PinFits(l)'
      <3>1. CASE Activatable(g) /\ gen' = Activated(g)
        <4>1. /\ gen' \in [Generations -> GenRow]
              /\ gen'[g].status = "active"
              /\ \A h \in Generations :
                    /\ h # g /\ gen[h].status = "active" => gen'[h].status = "retained"
                    /\ h # g /\ gen[h].status # "active" => gen'[h].status = gen[h].status
                    /\ gen'[h].eligibility = gen[h].eligibility /\ gen'[h].operation = gen[h].operation
                    /\ gen'[h].fingerprint = gen[h].fingerprint /\ gen[h].eligibility \in Nat
          BY <3>1, ActivatedRows
        <4>2. OneActive'
          BY <4>1 DEF OneActive
        <4>3. ASSUME NEW h \in Generations PROVE GenFits(h)'
          <5>1. GenFits(h) /\ envelope'[h] = envelope[h]
            BY <1>1 DEF DeploymentInv, RegistryFits
          <5> QED
            BY <2>2, <3>1, <4>1, <5>1 DEF GenFits, Activatable
        <4>4. \A h \in Generations : Onwards(gen[h], gen'[h])
          BY <4>1 DEF Onwards
        <4>5. \A l \in MailLogins : PinFits(l)'
          BY <1>1, <4>1, <4>4, PinsStay
        <4> QED
          BY <1>1, <1>4, <4>1, <4>2, <4>3, <4>5 DEF RegistryFits
      <3>2. CASE process[p].wants \in Terminated /\ gen[g].status # "retired"
                   /\ gen' = Ended(g, process[p].wants)
        BY <1>1, <2>2, <3>2, EndKeeps
      <3> QED
        BY <2>1, <3>1, <3>2
    <2> QED
      BY <1>1, <2>3 DEF DeploymentInv, DeploymentShaped, RegistryFits, RegistrationFits
  <1> QED
    BY <1>5, <1>6

-----------------------------------------------------------------------------
(* Logins and time *)

LEMMA LoginsKeep ==
    ASSUME DeploymentAssumption, DeploymentInv, NEW l \in MailLogins,
           EndLogin(l) \/ \E g \in Generations : PinLogin(l, g)
    PROVE  DeploymentInv'
  <1> USE DeploymentConstants
  <1>1. UNCHANGED <<gen, envelope, process, registration>>
    BY DEF EndLogin, PinLogin
  <1>2. pin \in [MailLogins -> PinRow] /\ gen \in [Generations -> GenRow]
    BY DEF DeploymentInv, DeploymentShaped
  <1>3. PICK row \in PinRow :
           /\ pin' = [pin EXCEPT ![l] = row]
           /\ row.left > 0 => /\ row.pinned \in Generations
                              /\ row.eligibility = gen[row.pinned].eligibility
                              /\ gen[row.pinned].status = "active"
    <2>1. CASE EndLogin(l)
      <3>1. NoLogin \in PinRow /\ ~(NoLogin.left > 0)
        BY DEF NoLogin, PinRow
      <3> QED
        BY <2>1, <3>1 DEF EndLogin
    <2>2. ASSUME NEW g \in Generations, PinLogin(l, g)
          PROVE  \E row \in PinRow :
                    /\ pin' = [pin EXCEPT ![l] = row]
                    /\ row.left > 0 => /\ row.pinned \in Generations
                                       /\ row.eligibility = gen[row.pinned].eligibility
                                       /\ gen[row.pinned].status = "active"
      <3> DEFINE row == [pinned |-> g, eligibility |-> gen[g].eligibility, left |-> LoginLife]
      <3>1. gen[g].eligibility \in Nat /\ LoginLife \in 0..LoginLife
        BY <1>2 DEF GenRow
      <3>2. row \in PinRow /\ row.pinned = g /\ row.eligibility = gen[g].eligibility
        BY <3>1 DEF PinRow
      <3>3. pin' = [pin EXCEPT ![l] = row] /\ gen[g].status = "active"
        BY <2>2 DEF PinLogin
      <3> HIDE DEF row
      <3> QED
        BY <3>2, <3>3
    <2> QED
      BY <2>1, <2>2
  <1>4. \A k \in MailLogins : PinFits(k)'
    <2> SUFFICES ASSUME NEW k \in MailLogins PROVE PinFits(k)'
      OBVIOUS
    <2>1. CASE k = l
      <3>1. pin'[k] = row
        BY <1>2, <1>3, <2>1
      <3>2. ASSUME row.left > 0 PROVE gen[row.pinned].eligibility \in Nat
        BY <1>2, <1>3, <3>2 DEF GenRow
      <3> QED
        BY <1>1, <1>3, <3>1, <3>2 DEF PinFits
    <2>2. CASE k # l
      BY <1>1, <1>2, <1>3, <2>2 DEF DeploymentInv, PinFits
    <2> QED
      BY <2>1, <2>2
  <1>5. pin' \in [MailLogins -> PinRow]
    BY <1>2, <1>3
  <1> QED
    BY <1>1, <1>4, <1>5
    DEF DeploymentInv, DeploymentShaped, RegistryFits, GenFits, OneActive, ProcessFits, RegistrationFits

LEMMA TickKeeps ==
    ASSUME DeploymentAssumption, DeploymentInv, Tick
    PROVE  DeploymentInv'
  <1> USE DeploymentConstants
  <1>1. /\ UNCHANGED <<envelope, process, registration>>
        /\ gen' = [g \in Generations |-> [gen[g] EXCEPT !.retained = Down(gen[g].retained)]]
        /\ pin' = [l \in MailLogins |-> IF pin[l].left <= 1 THEN NoLogin
                                        ELSE [pin[l] EXCEPT !.left = pin[l].left - 1]]
    BY DEF Tick
  <1>2. pin \in [MailLogins -> PinRow] /\ gen \in [Generations -> GenRow]
    BY DEF DeploymentInv, DeploymentShaped
  <1>3. ASSUME NEW g \in Generations
        PROVE  /\ gen'[g] \in GenRow /\ gen'[g].status = gen[g].status
               /\ gen'[g].eligibility = gen[g].eligibility /\ gen'[g].operation = gen[g].operation
               /\ gen'[g].fingerprint = gen[g].fingerprint
    <2>1. gen[g] \in GenRow /\ gen'[g] = [gen[g] EXCEPT !.retained = Down(gen[g].retained)]
      BY <1>1, <1>2
    <2>2. Down(gen[g].retained) \in 0..Retention
      BY <2>1 DEF GenRow, Down
    <2> QED
      BY <2>1, <2>2 DEF GenRow
  <1>4. gen' \in [Generations -> GenRow]
    BY <1>1, <1>3
  <1>5. RegistryFits'
    BY <1>1, <1>3, <1>4 DEF RegistryFits, DeploymentInv, GenFits, OneActive
  <1>6. ASSUME NEW l \in MailLogins
        PROVE  /\ pin'[l] \in PinRow
               /\ pin'[l].left > 0 => /\ pin[l].left > 0 /\ pin'[l].pinned = pin[l].pinned
                                      /\ pin'[l].eligibility = pin[l].eligibility
    <2>1. pin[l] \in PinRow /\ pin[l].left \in Nat /\ pin[l].left <= LoginLife
      BY <1>2 DEF PinRow
    <2>2. CASE pin[l].left <= 1
      BY <1>1, <2>2 DEF NoLogin, PinRow
    <2>3. CASE ~(pin[l].left <= 1)
      <3>1. pin[l].left - 1 \in 0..LoginLife /\ pin[l].left > 0
        BY <2>1, <2>3
      <3>2. pin'[l] = [pin[l] EXCEPT !.left = pin[l].left - 1]
        BY <1>1, <2>3
      <3> QED
        BY <2>1, <3>1, <3>2 DEF PinRow
    <2> QED
      BY <2>2, <2>3
  <1>7. pin' \in [MailLogins -> PinRow]
    BY <1>1, <1>6
  <1>8. ASSUME NEW l \in MailLogins PROVE PinFits(l)'
    BY <1>3, <1>6 DEF PinFits, DeploymentInv
  <1> QED
    BY <1>1, <1>5, <1>7, <1>8
    DEF DeploymentInv, DeploymentShaped, RegistryFits, ProcessFits, RegistrationFits

-----------------------------------------------------------------------------
(* The theorems about the deployment's generations *)

LEMMA DeploymentStepKeeps ==
    ASSUME DeploymentAssumption, DeploymentInv, [DeploymentNext]_deploymentVars
    PROVE  DeploymentInv'
  <1>1. CASE UNCHANGED deploymentVars
    BY <1>1 DEF deploymentVars, DeploymentInv, DeploymentShaped, RegistryFits, GenFits, OneActive,
                PinFits, ProcessFits, RegistrationFits
  <1>2. ASSUME NEW r \in Registrations, Register(r) PROVE DeploymentInv'
    BY <1>2, AskToRegisterKeeps, PrepareGenerationKeeps, SealKeeps, FinalizeGenerationKeeps DEF Register
  <1>3. ASSUME NEW p \in Servers, Run(p) PROVE DeploymentInv'
    BY <1>3, StartsKeep, ReconcileKeeps DEF Run
  <1> QED
    BY <1>1, <1>2, <1>3, TerminateKeeps, RetireKeeps, LoginsKeep, TickKeeps DEF DeploymentNext

(***************************************************************************)
(* The registry of deployment-default generations keeps its inductive      *)
(* invariant under every operator command, start, login and retirement.    *)
(***************************************************************************)
THEOREM DeploymentInvariant == ASSUME DeploymentAssumption PROVE DeploymentSpec => []DeploymentInv
  <1>1. DeploymentInit => DeploymentInv
    BY DeploymentInitEstablishes
  <1>2. DeploymentInv /\ [DeploymentNext]_deploymentVars => DeploymentInv'
    BY DeploymentStepKeeps
  <1> QED
    BY <1>1, <1>2, PTL DEF DeploymentSpec

LEMMA AtMostOne ==
    ASSUME NEW S, \A x, y \in S : x = y
    PROVE  Cardinality(S) <= 1
  <1>1. CASE S = {}
    BY <1>1, FS_EmptySet
  <1>2. ASSUME NEW x \in S PROVE Cardinality(S) <= 1
    <2>1. S = {x}
      OBVIOUS
    <2> QED
      BY <2>1, FS_Singleton
  <1> QED
    BY <1>1, <1>2

LEMMA DeploymentInvIsSafe ==
    ASSUME DeploymentAssumption, DeploymentInv
    PROVE  DeploymentSafe
  <1> USE DeploymentConstants
  <1>1. /\ gen \in [Generations -> GenRow] /\ envelope \in [Generations -> EnvelopeRow]
        /\ OneActive /\ \A g \in Generations : GenFits(g)
    BY DEF DeploymentInv, RegistryFits
  <1>2. Cardinality({g \in Generations : gen[g].status = "active"}) <= 1
    BY <1>1, AtMostOne DEF OneActive
  <1>3. DeploymentTypeOK
    <2>1. ASSUME NEW g \in Generations
          PROVE  /\ gen[g].status \in {"none", "reconciled", "active", "retained"} \cup Terminated
                 /\ (gen[g].operation = "completed") = (gen[g].fingerprint # "none")
                 /\ gen[g].retained \in 0..Retention
                 /\ envelope[g].state \in {"absent", "pending", "live", "erased"}
      <3>1. gen[g] \in GenRow /\ envelope[g] \in EnvelopeRow /\ GenFits(g)
        BY <1>1
      <3>2. (gen[g].operation = "completed") = (gen[g].fingerprint # "none")
        BY <3>1 DEF GenFits
      <3> QED
        BY <3>1, <3>2 DEF GenRow, EnvelopeRow
    <2> QED
      BY <1>2, <2>1 DEF DeploymentTypeOK
  <1>4. UsableOpens
    <2> SUFFICES ASSUME NEW g \in Generations,
                        \/ gen[g].status = "active"
                        \/ \E l \in MailLogins : /\ pin[l].pinned = g /\ pin[l].left > 0
                                                 /\ pin[l].eligibility = gen[g].eligibility
                 PROVE  envelope[g] = [state |-> "live", secret |-> gen[g].fingerprint]
      BY DEF UsableOpens
    <2>1. gen[g].status \in {"active", "retained"}
      BY DEF DeploymentInv, PinFits
    <2>2. envelope[g].state = "live" /\ envelope[g].secret = gen[g].fingerprint
      BY <1>1, <2>1 DEF GenFits
    <2>3. envelope[g] \in EnvelopeRow
      BY <1>1
    <2> QED
      BY <2>2, <2>3 DEF EnvelopeRow
  <1> QED
    BY <1>3, <1>4 DEF DeploymentSafe

(***************************************************************************)
(* However the starts of differently configured processes, the commands of *)
(* operators and the retiring worker interleave, at most one generation is *)
(* active and what may still send has the credential of its fingerprint.   *)
(***************************************************************************)
THEOREM DeploymentIsSafe == ASSUME DeploymentAssumption PROVE DeploymentSpec => []DeploymentSafe
  <1>1. DeploymentInv => DeploymentSafe
    BY DeploymentInvIsSafe
  <1> QED
    BY <1>1, DeploymentInvariant, PTL

LEMMA StepKeepsTermination ==
    ASSUME DeploymentAssumption, DeploymentInv, [DeploymentNext]_deploymentVars
    PROVE  TerminationKept
  <1> USE DeploymentConstants
  <1> SUFFICES ASSUME NEW g \in Generations, gen[g].status \in Terminated
               PROVE  gen'[g].status \in Terminated /\ gen'[g].eligibility >= gen[g].eligibility
    BY DEF TerminationKept
  <1>1. /\ gen \in [Generations -> GenRow] /\ gen[g].eligibility \in Nat /\ GenFits(g)
        /\ gen[g].status \notin {"none", "reconciled", "active", "retained"}
    BY DEF DeploymentInv, RegistryFits, GenRow, Terminated
  <1>2. gen[g].operation = "completed"
    BY <1>1 DEF GenFits
  <1>3. CASE gen'[g] = gen[g]
    BY <1>1, <1>3
  <1>4. ASSUME NEW h \in Generations, NEW status \in Terminated, gen' = Ended(h, status)
        PROVE  gen'[g].status \in Terminated /\ gen'[g].eligibility >= gen[g].eligibility
    <2>1. CASE h = g
      <3>1. gen'[g] = EndedRow(g, status) /\ Onwards(gen[g], gen'[g]) /\ gen'[g].status = status
        BY <1>1, <1>4, <2>1, EndedFits
      <3>2. EndedRow(g, status) \in GenRow
        BY EndedFits
      <3>3. gen'[g].eligibility \in Nat
        BY <3>1, <3>2 DEF GenRow
      <3> QED
        BY <1>1, <3>1, <3>3 DEF Onwards
    <2>2. CASE h # g
      <3>1. gen'[g] = gen[g]
        BY <1>1, <1>4, <2>2 DEF Ended
      <3> QED
        BY <1>3, <3>1
    <2> QED
      BY <2>1, <2>2
  <1>5. ASSUME NEW r \in Registrations, Register(r) PROVE gen'[g] = gen[g]
    BY <1>1, <1>2, <1>5 DEF Register, ReconcileGeneration, PrepareDeploymentSmtpGeneration, SealCredential,
                            FinalizeDeploymentSmtpGeneration
  <1>6. ASSUME NEW p \in Servers, ReconcileDeploymentSmtp(p)
        PROVE  gen'[g].status \in Terminated /\ gen'[g].eligibility >= gen[g].eligibility
    <2>1. /\ process[p].of \in Generations
          /\ process[p].wants \in {"reconciled", "active", "disabled", "compromised"}
      BY <1>6 DEF ReconcileDeploymentSmtp, DeploymentInv, DeploymentShaped, ProcessFits, ProcessRow
    <2>2. \/ gen' = gen
          \/ Activatable(process[p].of) /\ gen' = Activated(process[p].of)
          \/ process[p].wants \in {"disabled", "compromised"} /\ gen' = Ended(process[p].of, process[p].wants)
      BY <1>6, <2>1 DEF ReconcileDeploymentSmtp
    <2>3. CASE gen' = gen
      BY <1>3, <2>3
    <2>4. CASE Activatable(process[p].of) /\ gen' = Activated(process[p].of)
      <3>1. process[p].of # g
        BY <1>1, <2>4 DEF Activatable
      <3>2. gen'[g].status = gen[g].status /\ gen'[g].eligibility = gen[g].eligibility
        BY <1>1, <2>1, <2>4, <3>1, ActivatedRows
      <3> QED
        BY <1>1, <3>2
    <2>5. CASE process[p].wants \in {"disabled", "compromised"} /\ gen' = Ended(process[p].of, process[p].wants)
      BY <1>4, <2>1, <2>5 DEF Terminated
    <2> QED
      BY <2>2, <2>3, <2>4, <2>5
  <1>7. ASSUME NEW p \in Servers, Run(p)
        PROVE  gen'[g].status \in Terminated /\ gen'[g].eligibility >= gen[g].eligibility
    BY <1>3, <1>6, <1>7 DEF Run, StartUnconfigured, StartConfigured, StopProcess
  <1>8. ASSUME Tick PROVE gen'[g].status = gen[g].status /\ gen'[g].eligibility = gen[g].eligibility
    <2>1. gen[g] \in GenRow /\ gen'[g] = [gen[g] EXCEPT !.retained = Down(gen[g].retained)]
      BY <1>1, <1>8 DEF Tick
    <2> QED
      BY <2>1 DEF GenRow
  <1>9. ASSUME NEW h \in Generations, NEW status \in {"disabled", "compromised"},
               TerminateDeploymentSmtpGeneration(h, status)
        PROVE  gen'[g].status \in Terminated /\ gen'[g].eligibility >= gen[g].eligibility
    <2>1. gen' = Ended(h, status) /\ status \in Terminated
      BY <1>9 DEF TerminateDeploymentSmtpGeneration, Ended, Terminated
    <2> QED
      BY <1>4, <2>1
  <1>10. ASSUME NEW h \in Generations, RetireDeploymentGeneration(h)
         PROVE  gen'[g].status \in Terminated /\ gen'[g].eligibility >= gen[g].eligibility
    <2>1. gen' = Ended(h, "retired") /\ "retired" \in Terminated
      BY <1>10 DEF RetireDeploymentGeneration, Ended, Terminated
    <2> QED
      BY <1>4, <2>1
  <1>11. ASSUME NEW l \in MailLogins, EndLogin(l) \/ \E h \in Generations : PinLogin(l, h)
         PROVE  gen'[g] = gen[g]
    BY <1>11 DEF EndLogin, PinLogin
  <1>12. CASE UNCHANGED deploymentVars
    BY <1>3, <1>12 DEF deploymentVars
  <1> QED
    BY <1>1, <1>3, <1>5, <1>7, <1>8, <1>9, <1>10, <1>11, <1>12 DEF DeploymentNext

(***************************************************************************)
(* A generation that was disabled, compromised or retired stays so, and    *)
(* the pins of earlier logins never match it again: no start with an old   *)
(* configuration brings it back.                                           *)
(***************************************************************************)
THEOREM TerminationHolds ==
    ASSUME DeploymentAssumption
    PROVE  DeploymentSpec => [][TerminationKept]_deploymentVars
  <1>1. DeploymentInv /\ [DeploymentNext]_deploymentVars => [TerminationKept]_deploymentVars
    BY StepKeepsTermination
  <1> QED
    BY <1>1, DeploymentInvariant, PTL DEF DeploymentSpec

-----------------------------------------------------------------------------
(* The projections of a user: the inductive invariant *)

\* What the proofs use of the constants.
LEMMA ProjectionConstants ==
    ASSUME ProjectionAssumption
    PROVE  Versions \subseteq Nat /\ 0 \notin Versions /\ First \in Versions
           /\ MaxBindings \in Nat /\ IsFiniteSet(Apps)
  BY DEF ProjectionAssumption, First

UserRow == [status : {"active", "disabled"}, revision : Nat, name : Names,
            source : Emails \cup {"provider"}]
DocumentRow == [revision : Nat, user : Nat, status : {"active", "disabled", Nothing},
                name : Names \cup {Nothing}, email : Emails \cup {Nothing}]
CipherRow == [email : Emails \cup {Nothing}, version : Nat, bound : {0} \cup (Apps \X Nat)]
ProjectionRow == [exists : BOOLEAN, revision : Nat, source : Nat, identity : Emails \cup {Nothing},
                  cipher : CipherRow, digest : DocumentRow]
RingRow == [write : Versions, readable : SUBSET Versions]
HandoffRow == [process : Processes, app : Apps, user : Nat, document : DocumentRow]

ProjectionShaped ==
    /\ project \in {"active", "disabled"}
    /\ application \in [Apps -> {"active", "disabled"}]
    /\ user \in UserRow
    /\ proj \in [Apps -> ProjectionRow]
    /\ events \in [Apps -> Seq(DocumentRow)]
    /\ ring \in [Processes -> RingRow]
    /\ handoff \in [Handoffs -> HandoffRow \cup {NoHandoff}]

\* Every process reads what any process writes.
RingsFit == \A p, q \in Processes : ring[p].write \in ring[q].readable

\* The email a row keeps is the one its digest covers, and every process opens it.
KeptEmail(a, row) ==
    /\ row.identity = row.digest.email /\ row.cipher.email = row.digest.email
    /\ row.cipher = NoCipher <=> row.digest.email = Nothing
    /\ row.cipher # NoCipher => /\ row.cipher.bound = <<a, row.revision>>
                                /\ \A q \in Processes : row.cipher.version \in ring[q].readable

\* The events told of a row are its revisions up to now.
Told(row, told) ==
    /\ row.revision > 0 /\ Len(told) = row.revision
    /\ \A i \in 1..Len(told) : told[i].revision = i
    /\ told[row.revision] = row.digest

RowFits(a, row, told) ==
    /\ ~row.exists => row = NoProjection /\ told = <<>>
    /\ row.exists => KeptEmail(a, row) /\ Told(row, told)

Shows(row, u) == row.source = u.revision /\ row.digest = Document(u, row.revision)

ProjectedFits(a) ==
    /\ RowFits(a, proj[a], events[a])
    /\ proj[a].exists /\ application[a] = "active" => Shows(proj[a], user)

ProjectionInv ==
    /\ ProjectionShaped
    /\ RingsFit
    /\ \A a \in Apps : ProjectedFits(a)
    /\ Cardinality(Bound) <= MaxBindings

LEMMA ProjectionInitEstablishes ==
    ASSUME ProjectionAssumption, ProjectionInit
    PROVE  ProjectionInv
  <1> USE ProjectionConstants DEF ProjectionInit
  <1>1. NoProjection \in ProjectionRow /\ ~NoProjection.exists
    BY DEF NoProjection, ProjectionRow, NoCipher, CipherRow, NoDocument, DocumentRow
  <1>2. <<>> \in Seq(DocumentRow)
    OBVIOUS
  <1>3. user \in UserRow
    BY DEF UserRow
  <1>4. [write |-> First, readable |-> {First}] \in RingRow
    BY DEF RingRow
  <1>5. ProjectionShaped
    BY <1>1, <1>2, <1>3, <1>4 DEF ProjectionShaped
  <1>6. RingsFit
    BY DEF RingsFit
  <1>7. \A a \in Apps : ProjectedFits(a)
    BY <1>1 DEF ProjectedFits, RowFits
  <1>8. Bound = {}
    BY <1>1 DEF Bound
  <1>9. Cardinality(Bound) <= MaxBindings
    BY <1>8, FS_EmptySet
  <1> QED
    BY <1>5, <1>6, <1>7, <1>9 DEF ProjectionInv

-----------------------------------------------------------------------------
(* The material of a row *)

LEMMA DocumentShape ==
    ASSUME NEW u \in UserRow, NEW r \in Nat
    PROVE  /\ Document(u, r) \in DocumentRow /\ PrimaryVerifiedEmail(u) \in Emails \cup {Nothing}
           /\ Document(u, r).revision = r /\ Document(u, r).email = PrimaryVerifiedEmail(u)
  BY DEF Document, DocumentRow, UserRow, PrimaryVerifiedEmail

\* What the material of a process is made of.
LEMMA MaterialShape ==
    ASSUME ProjectionAssumption, ProjectionInv, NEW p \in Processes, NEW a \in Apps, NEW u \in UserRow
    PROVE  LET m == Material(p, a, u)
           IN /\ m \in ProjectionRow /\ m.exists /\ m.source = u.revision
              /\ m.revision = IF SemanticChange(p, a, u) THEN proj[a].revision + 1 ELSE proj[a].revision
              /\ m.digest = Document(u, m.revision)
              /\ KeptEmail(a, m)
  <1> DEFINE r == IF SemanticChange(p, a, u) THEN proj[a].revision + 1 ELSE proj[a].revision
             c == Material(p, a, u).cipher
  <1> USE ProjectionConstants
  <1>1. /\ proj[a] \in ProjectionRow /\ proj[a].revision \in Nat /\ r \in Nat
        /\ ProjectedFits(a) /\ ring \in [Processes -> RingRow]
    BY DEF ProjectionInv, ProjectionShaped, ProjectionRow
  <1>2. /\ Material(p, a, u).exists /\ Material(p, a, u).revision = r
        /\ Material(p, a, u).source = u.revision
        /\ Material(p, a, u).identity = PrimaryVerifiedEmail(u)
        /\ Material(p, a, u).digest = Document(u, r)
        /\ Material(p, a, u) = [exists |-> TRUE, revision |-> r, source |-> u.revision,
                                identity |-> PrimaryVerifiedEmail(u), cipher |-> c,
                                digest |-> Document(u, r)]
    BY DEF Material
  <1>3. /\ PrimaryVerifiedEmail(u) = Nothing => c = NoCipher
        /\ PrimaryVerifiedEmail(u) # Nothing =>
              c = IF CanReuseProtected(p, a, u) THEN proj[a].cipher ELSE Protect(p, a, u, r)
    BY DEF Material
  <1> HIDE DEF c
  <1>4. /\ Document(u, r) \in DocumentRow /\ PrimaryVerifiedEmail(u) \in Emails \cup {Nothing}
        /\ Document(u, r).email = PrimaryVerifiedEmail(u) /\ u.revision \in Nat
    BY <1>1, DocumentShape DEF UserRow
  <1>5. /\ c \in CipherRow /\ c.email = PrimaryVerifiedEmail(u)
        /\ c = NoCipher <=> PrimaryVerifiedEmail(u) = Nothing
        /\ c # NoCipher => c.bound = <<a, r>> /\ \A q \in Processes : c.version \in ring[q].readable
    <2>1. CASE PrimaryVerifiedEmail(u) = Nothing
      BY <1>3, <2>1 DEF NoCipher, CipherRow
    <2>2. CASE PrimaryVerifiedEmail(u) # Nothing /\ CanReuseProtected(p, a, u)
      <3>1. /\ proj[a].exists /\ proj[a].identity = PrimaryVerifiedEmail(u) /\ proj[a].cipher # NoCipher
            /\ r = proj[a].revision
        BY <2>2 DEF CanReuseProtected, SemanticChange
      <3>2. KeptEmail(a, proj[a])
        BY <1>1, <3>1 DEF ProjectedFits, RowFits
      <3>3. proj[a].cipher \in CipherRow
        BY <1>1 DEF ProjectionRow
      <3> QED
        BY <1>3, <2>2, <3>1, <3>2, <3>3 DEF KeptEmail
    <2>3. CASE PrimaryVerifiedEmail(u) # Nothing /\ ~CanReuseProtected(p, a, u)
      <3>1. ring[p].write \in Versions /\ \A q \in Processes : ring[p].write \in ring[q].readable
        BY <1>1 DEF ProjectionInv, RingsFit, RingRow
      <3>2. c = [email |-> PrimaryVerifiedEmail(u), version |-> ring[p].write, bound |-> <<a, r>>]
        BY <1>3, <2>3 DEF Protect
      <3>3. <<a, r>> \in Apps \X Nat
        BY <1>1
      <3>4. c \in CipherRow
        BY <1>4, <3>1, <3>2, <3>3 DEF CipherRow
      <3>5. c.email = PrimaryVerifiedEmail(u) /\ c.version = ring[p].write /\ c.bound = <<a, r>>
        BY <3>2
      <3>6. c # NoCipher
        BY <3>1, <3>5 DEF NoCipher
      <3> QED
        BY <2>3, <3>1, <3>4, <3>5, <3>6
    <2> QED
      BY <2>1, <2>2, <2>3
  <1>6. Material(p, a, u) \in ProjectionRow
    BY <1>1, <1>2, <1>4, <1>5 DEF ProjectionRow
  <1>7. KeptEmail(a, Material(p, a, u))
    BY <1>2, <1>4, <1>5 DEF KeptEmail, c
  <1> QED
    BY <1>2, <1>6, <1>7

\* A row that shows the user is not changed by a reader, and is by a change of the user.
LEMMA WhenSemantic ==
    ASSUME ProjectionAssumption, ProjectionInv, NEW p \in Processes, NEW a \in Apps,
           proj[a].exists, application[a] = "active"
    PROVE  /\ ~SemanticChange(p, a, user)
           /\ \A u \in UserRow : u.revision = user.revision + 1 => SemanticChange(p, a, u)
  <1>1. KeptEmail(a, proj[a]) /\ Shows(proj[a], user) /\ user \in UserRow /\ proj[a] \in ProjectionRow
    BY DEF ProjectionInv, ProjectionShaped, ProjectedFits, RowFits
  <1>2. user.revision \in Nat /\ proj[a].revision \in Nat /\ proj[a].source = user.revision
    BY <1>1 DEF UserRow, ProjectionRow, Shows
  <1>3. proj[a].digest.email = PrimaryVerifiedEmail(user)
    BY <1>1, <1>2, DocumentShape DEF Shows
  <1> QED
    BY <1>1, <1>2, <1>3 DEF SemanticChange, KeptEmail

\* A row that is announced.
LEMMA Announced ==
    ASSUME ProjectionAssumption, ProjectionInv, NEW p \in Processes, NEW a \in Apps, NEW u \in UserRow,
           SemanticChange(p, a, u)
    PROVE  LET m == Material(p, a, u)
               told == Append(events[a], m.digest)
           IN m \in ProjectionRow /\ told \in Seq(DocumentRow) /\ RowFits(a, m, told) /\ Shows(m, u) /\ m.exists
  <1> DEFINE m == Material(p, a, u)
             told == Append(events[a], m.digest)
  <1>1. /\ m \in ProjectionRow /\ m.exists /\ m.source = u.revision
        /\ m.revision = proj[a].revision + 1 /\ m.digest = Document(u, m.revision) /\ KeptEmail(a, m)
    BY MaterialShape
  <1> HIDE DEF m
  <1>2. events[a] \in Seq(DocumentRow) /\ proj[a].revision \in Nat /\ RowFits(a, proj[a], events[a])
    BY DEF ProjectionInv, ProjectionShaped, ProjectionRow, ProjectedFits
  <1>3. Len(events[a]) = proj[a].revision /\ \A i \in 1..Len(events[a]) : events[a][i].revision = i
    <2>1. CASE proj[a].exists
      BY <1>2, <2>1 DEF RowFits, Told
    <2>2. CASE ~proj[a].exists
      BY <1>2, <2>2 DEF RowFits, NoProjection
    <2> QED
      BY <2>1, <2>2
  <1>4. m.digest \in DocumentRow /\ m.digest.revision = m.revision
    BY <1>1, DocumentShape DEF ProjectionRow
  <1>5. /\ told \in Seq(DocumentRow) /\ Len(told) = Len(events[a]) + 1
        /\ told[Len(events[a]) + 1] = m.digest
        /\ \A i \in 1..Len(events[a]) : told[i] = events[a][i]
    BY <1>2, <1>4
  <1> HIDE DEF told
  <1>6. Told(m, told)
    <2>1. m.revision > 0 /\ Len(told) = m.revision /\ told[m.revision] = m.digest
      BY <1>1, <1>2, <1>3, <1>5
    <2>2. ASSUME NEW i \in 1..Len(told) PROVE told[i].revision = i
      <3>1. i \in 1..Len(events[a]) \/ i = m.revision
        BY <1>1, <1>2, <1>3, <1>5
      <3> QED
        BY <1>3, <1>4, <1>5, <2>1, <3>1
    <2> QED
      BY <2>1, <2>2 DEF Told
  <1>7. RowFits(a, m, told) /\ Shows(m, u)
    BY <1>1, <1>6 DEF RowFits, Shows
  <1> QED
    BY <1>1, <1>5, <1>7 DEF m, told

\* A row that a reader repairs in silence.
LEMMA Repaired ==
    ASSUME ProjectionAssumption, ProjectionInv, NEW p \in Processes, NEW a \in Apps,
           proj[a].exists, application[a] = "active"
    PROVE  LET m == Material(p, a, user)
           IN m \in ProjectionRow /\ RowFits(a, m, events[a]) /\ Shows(m, user) /\ m.exists
  <1> DEFINE m == Material(p, a, user)
  <1>1. user \in UserRow /\ ~SemanticChange(p, a, user)
    BY WhenSemantic DEF ProjectionInv, ProjectionShaped
  <1>2. /\ m \in ProjectionRow /\ m.exists /\ m.source = user.revision
        /\ m.revision = proj[a].revision /\ m.digest = Document(user, m.revision) /\ KeptEmail(a, m)
    BY <1>1, MaterialShape
  <1> HIDE DEF m
  <1>3. Told(proj[a], events[a]) /\ proj[a].digest = Document(user, proj[a].revision)
    BY DEF ProjectionInv, ProjectedFits, RowFits, Shows
  <1>4. Told(m, events[a])
    BY <1>2, <1>3 DEF Told
  <1> QED
    BY <1>2, <1>4 DEF RowFits, Shows, m

-----------------------------------------------------------------------------
(* The steps *)

\* A change of the user reaches every bound Application that is active.
LEMMA FanOutKeeps ==
    ASSUME ProjectionAssumption, ProjectionInv, NEW p \in Processes, NEW u \in UserRow,
           u.revision = user.revision + 1, user' = u, FanOut(p, u),
           UNCHANGED <<project, application, ring, handoff>>
    PROVE  ProjectionInv'
  <1>1. /\ proj \in [Apps -> ProjectionRow] /\ events \in [Apps -> Seq(DocumentRow)]
        /\ \A a \in Apps : ProjectedFits(a)
    BY DEF ProjectionInv, ProjectionShaped
  <1>2. ASSUME NEW a \in Apps
        PROVE  /\ proj'[a] \in ProjectionRow /\ events'[a] \in Seq(DocumentRow)
               /\ ProjectedFits(a)' /\ proj'[a].exists = proj[a].exists
    <2>1. CASE FannedOut(a)
      <3> DEFINE m == Material(p, a, u)
                 told == Append(events[a], m.digest)
      <3>1. SemanticChange(p, a, u) /\ proj[a].exists
        BY <2>1, WhenSemantic DEF FannedOut
      <3>2. proj'[a] = m /\ events'[a] = told
        BY <2>1, <3>1 DEF FanOut
      <3>3. m \in ProjectionRow /\ told \in Seq(DocumentRow) /\ RowFits(a, m, told) /\ Shows(m, u) /\ m.exists
        BY <3>1, Announced
      <3> HIDE DEF m, told
      <3>4. RowFits(a, proj[a], events[a])'
        BY <3>2, <3>3 DEF RowFits, KeptEmail
      <3>5. Shows(proj[a], user)'
        BY <3>2, <3>3 DEF Shows
      <3> QED
        BY <3>1, <3>2, <3>3, <3>4, <3>5 DEF ProjectedFits
    <2>2. CASE ~FannedOut(a)
      <3>1. proj'[a] = proj[a] /\ events'[a] = events[a] /\ ~(proj[a].exists /\ application[a] = "active")
        BY <2>2 DEF FanOut, FannedOut
      <3>2. RowFits(a, proj[a], events[a])'
        BY <1>1, <3>1 DEF ProjectedFits, RowFits, KeptEmail
      <3> QED
        BY <1>1, <3>1, <3>2 DEF ProjectedFits
    <2> QED
      BY <2>1, <2>2
  <1>3. Bound' = Bound
    BY <1>2 DEF Bound
  <1>4. proj' \in [Apps -> ProjectionRow] /\ events' \in [Apps -> Seq(DocumentRow)]
    BY <1>2 DEF FanOut
  <1> QED
    BY <1>2, <1>3, <1>4 DEF ProjectionInv, ProjectionShaped, RingsFit

\* The row a change leaves of the user.
LEMMA ChangedUser ==
    ASSUME ProjectionInv, NEW n \in Names, NEW s \in Emails \cup {"provider"}, NEW t \in {"active", "disabled"}
    PROVE  \A u \in {[user EXCEPT !.name = n, !.revision = user.revision + 1],
                     [user EXCEPT !.source = s, !.revision = user.revision + 1],
                     [user EXCEPT !.status = t, !.revision = user.revision + 1]} :
              u \in UserRow /\ u.revision = user.revision + 1
  <1>1. user \in UserRow /\ user.revision + 1 \in Nat
    BY DEF ProjectionInv, ProjectionShaped, UserRow
  <1> QED
    BY <1>1 DEF UserRow

LEMMA UserChangesKeep ==
    ASSUME ProjectionAssumption, ProjectionInv, NEW p \in Processes,
           \/ \E n \in Names : ObserveProfile(p, n)
           \/ \E s \in Emails \cup {"provider"} : ChangePrimarySource(p, s)
           \/ DisableProjectUser(p)
           \/ EnableProjectUser(p)
    PROVE  ProjectionInv'
  <1>1. PICK u \in UserRow : /\ u.revision = user.revision + 1 /\ user' = u /\ FanOut(p, u)
                             /\ UNCHANGED <<project, application, ring, handoff>>
    <2>1. user.name \in Names /\ user.source \in Emails \cup {"provider"}
      BY DEF ProjectionInv, ProjectionShaped, UserRow
    <2>2. ASSUME NEW n \in Names, ObserveProfile(p, n)
          PROVE  \E u \in UserRow : /\ u.revision = user.revision + 1 /\ user' = u /\ FanOut(p, u)
                                    /\ UNCHANGED <<project, application, ring, handoff>>
      BY <2>1, <2>2, ChangedUser DEF ObserveProfile
    <2>3. ASSUME NEW s \in Emails \cup {"provider"}, ChangePrimarySource(p, s)
          PROVE  \E u \in UserRow : /\ u.revision = user.revision + 1 /\ user' = u /\ FanOut(p, u)
                                    /\ UNCHANGED <<project, application, ring, handoff>>
      BY <2>1, <2>3, ChangedUser DEF ChangePrimarySource
    <2>4. CASE DisableProjectUser(p)
      BY <2>1, <2>4, ChangedUser DEF DisableProjectUser
    <2>5. CASE EnableProjectUser(p)
      BY <2>1, <2>5, ChangedUser DEF EnableProjectUser
    <2> QED
      BY <2>2, <2>3, <2>4, <2>5
  <1> QED
    BY <1>1, FanOutKeeps

\* A step that writes the row of one Application, for the user as it is.
LEMMA RowMoves ==
    ASSUME ProjectionAssumption, ProjectionInv, NEW a \in Apps, NEW row \in ProjectionRow,
           NEW told \in Seq(DocumentRow), RowFits(a, row, told), Shows(row, user), row.exists, MayBind(a),
           proj' = [proj EXCEPT ![a] = row], events' = [events EXCEPT ![a] = told],
           handoff' \in [Handoffs -> HandoffRow \cup {NoHandoff}],
           UNCHANGED <<project, application, user, ring>>
    PROVE  ProjectionInv'
  <1> USE ProjectionConstants
  <1>1. /\ proj \in [Apps -> ProjectionRow] /\ events \in [Apps -> Seq(DocumentRow)]
        /\ \A b \in Apps : ProjectedFits(b)
    BY DEF ProjectionInv, ProjectionShaped
  <1>2. proj'[a] = row /\ events'[a] = told
    BY <1>1
  <1>3. ASSUME NEW b \in Apps PROVE ProjectedFits(b)'
    <2>1. CASE b = a
      <3>1. RowFits(a, proj[a], events[a])'
        BY <1>2 DEF RowFits, KeptEmail
      <3>2. Shows(proj[a], user)'
        BY <1>2 DEF Shows
      <3> QED
        BY <2>1, <3>1, <3>2 DEF ProjectedFits
    <2>2. CASE b # a
      <3>1. proj'[b] = proj[b] /\ events'[b] = events[b] /\ ProjectedFits(b)
        BY <1>1, <2>2
      <3> QED
        BY <3>1 DEF ProjectedFits, RowFits, KeptEmail, Shows
    <2> QED
      BY <2>1, <2>2
  <1>4. Cardinality(Bound') <= MaxBindings
    <2>1. Bound' = Bound \cup {a} /\ Bound \subseteq Apps
      BY <1>1, <1>2 DEF Bound
    <2>2. IsFiniteSet(Bound) /\ Cardinality(Bound) \in Nat
      BY <2>1, FS_Subset, FS_CardinalityType
    <2>3. CASE a \in Bound
      <3>1. Bound' = Bound
        BY <2>1, <2>3
      <3> QED
        BY <3>1 DEF ProjectionInv
    <2>4. CASE a \notin Bound
      <3>1. Cardinality(Bound) < MaxBindings
        BY <2>4 DEF MayBind, Bound
      <3>2. Cardinality(Bound \cup {a}) = Cardinality(Bound) + 1
        BY <2>2, <2>4, FS_AddElement
      <3> QED
        BY <2>1, <2>2, <3>1, <3>2
    <2> QED
      BY <2>3, <2>4
  <1>5. proj' \in [Apps -> ProjectionRow] /\ events' \in [Apps -> Seq(DocumentRow)]
    BY <1>1
  <1> QED
    BY <1>3, <1>4, <1>5 DEF ProjectionInv, ProjectionShaped, RingsFit

LEMMA RepairKeeps ==
    ASSUME ProjectionAssumption, ProjectionInv, NEW p \in Processes, NEW a \in Apps,
           RepairRuntimeProjection(p, a)
    PROVE  ProjectionInv'
  <1> DEFINE m == Material(p, a, user)
  <1>1. /\ proj[a].exists /\ application[a] = "active" /\ proj' = [proj EXCEPT ![a] = m] /\ MayBind(a)
        /\ UNCHANGED <<project, application, user, events, ring, handoff>>
    BY DEF RepairRuntimeProjection, MayBind
  <1>2. m \in ProjectionRow /\ RowFits(a, m, events[a]) /\ Shows(m, user) /\ m.exists
    BY <1>1, Repaired
  <1> HIDE DEF m
  <1>3. /\ events[a] \in Seq(DocumentRow) /\ events' = [events EXCEPT ![a] = events[a]]
        /\ handoff' \in [Handoffs -> HandoffRow \cup {NoHandoff}]
    BY <1>1 DEF ProjectionInv, ProjectionShaped
  <1> QED
    BY <1>1, <1>2, <1>3, RowMoves

LEMMA ApplicationsStay ==
    ASSUME ProjectionInv, UNCHANGED <<application, user, proj, events, ring>>
    PROVE  RingsFit' /\ (\A a \in Apps : ProjectedFits(a)') /\ Bound' = Bound
  BY DEF ProjectionInv, RingsFit, ProjectedFits, RowFits, KeptEmail, Shows, Bound

LEMMA PrepareExchangeKeeps ==
    ASSUME ProjectionAssumption, ProjectionInv, NEW h \in Handoffs, NEW p \in Processes, NEW a \in Apps,
           PrepareHandoffExchange(h, p, a)
    PROVE  ProjectionInv'
  <1> DEFINE row == [process |-> p, app |-> a, user |-> user.revision,
                     document |-> Material(p, a, user).digest]
  <1>1. /\ handoff' = [handoff EXCEPT ![h] = row]
        /\ UNCHANGED <<project, application, user, proj, events, ring>>
    BY DEF PrepareHandoffExchange
  <1>2. user \in UserRow /\ user.revision \in Nat
    BY DEF ProjectionInv, ProjectionShaped, UserRow
  <1>3. Material(p, a, user).digest \in DocumentRow
    BY <1>2, MaterialShape DEF ProjectionRow
  <1>4. row \in HandoffRow
    BY <1>2, <1>3 DEF HandoffRow
  <1> HIDE DEF row
  <1>5. handoff' \in [Handoffs -> HandoffRow \cup {NoHandoff}]
    BY <1>1, <1>4 DEF ProjectionInv, ProjectionShaped
  <1> QED
    BY <1>1, <1>5, ApplicationsStay DEF ProjectionInv, ProjectionShaped

LEMMA CommitExchangeKeeps ==
    ASSUME ProjectionAssumption, ProjectionInv, NEW h \in Handoffs, CommitHandoffExchange(h)
    PROVE  ProjectionInv'
  <1>1. /\ handoff' = [handoff EXCEPT ![h] = NoHandoff] /\ handoff[h] # NoHandoff
        /\ UNCHANGED <<project, application, user, ring>>
    BY DEF CommitHandoffExchange
  <1>2. /\ handoff' \in [Handoffs -> HandoffRow \cup {NoHandoff}] /\ handoff[h] \in HandoffRow
        /\ user \in UserRow /\ events \in [Apps -> Seq(DocumentRow)]
    BY <1>1 DEF ProjectionInv, ProjectionShaped
  <1>3. PICK p \in Processes, a \in Apps : p = handoff[h].process /\ a = handoff[h].app
    BY <1>2 DEF HandoffRow
  <1>4. CASE UNCHANGED <<proj, events>>
    BY <1>1, <1>2, <1>4, ApplicationsStay DEF ProjectionInv, ProjectionShaped
  <1>5. CASE ~UNCHANGED <<proj, events>>
    <2> DEFINE m == Material(p, a, user)
    <2>1. /\ application[a] = "active" /\ MayBind(a) /\ proj' = [proj EXCEPT ![a] = m]
          /\ events' = IF SemanticChange(p, a, user)
                         THEN [events EXCEPT ![a] = Append(events[a], m.digest)] ELSE events
      BY <1>3, <1>5 DEF CommitHandoffExchange
    <2>2. CASE SemanticChange(p, a, user)
      <3> DEFINE told == Append(events[a], m.digest)
      <3>1. m \in ProjectionRow /\ told \in Seq(DocumentRow) /\ RowFits(a, m, told) /\ Shows(m, user) /\ m.exists
        BY <1>2, <2>2, Announced
      <3>2. events' = [events EXCEPT ![a] = told]
        BY <2>1, <2>2
      <3> HIDE DEF m, told
      <3> QED
        BY <1>1, <1>2, <2>1, <3>1, <3>2, RowMoves
    <2>3. CASE ~SemanticChange(p, a, user)
      <3>1. proj[a].exists
        BY <2>3 DEF SemanticChange
      <3>2. m \in ProjectionRow /\ RowFits(a, m, events[a]) /\ Shows(m, user) /\ m.exists
        BY <2>1, <3>1, Repaired
      <3>3. events' = [events EXCEPT ![a] = events[a]] /\ events[a] \in Seq(DocumentRow)
        BY <1>2, <2>1, <2>3
      <3> HIDE DEF m
      <3> QED
        BY <1>1, <1>2, <2>1, <3>2, <3>3, RowMoves
    <2> QED
      BY <2>2, <2>3
  <1> QED
    BY <1>4, <1>5

LEMMA OwnersKeep ==
    ASSUME ProjectionAssumption, ProjectionInv,
           DisableProject \/ EnableProject \/ \E a \in Apps : DisableBoundApplication(a)
    PROVE  ProjectionInv'
  <1>1. CASE DisableProject \/ EnableProject
    BY <1>1, ApplicationsStay DEF DisableProject, EnableProject, ProjectionInv, ProjectionShaped
  <1>2. ASSUME NEW a \in Apps, DisableBoundApplication(a) PROVE ProjectionInv'
    <2>1. /\ application' = [application EXCEPT ![a] = "disabled"]
          /\ UNCHANGED <<project, user, proj, events, ring, handoff>>
          /\ application \in [Apps -> {"active", "disabled"}]
      BY <1>2 DEF DisableBoundApplication, ProjectionInv, ProjectionShaped
    <2>2. \A b \in Apps : application'[b] = "active" => application[b] = "active"
      BY <2>1
    <2>3. ASSUME NEW b \in Apps PROVE ProjectedFits(b)'
      BY <2>1, <2>2 DEF ProjectionInv, ProjectedFits, RowFits, KeptEmail, Shows
    <2>4. Bound' = Bound /\ RingsFit'
      BY <2>1 DEF Bound, RingsFit, ProjectionInv
    <2> QED
      BY <2>1, <2>3, <2>4 DEF ProjectionInv, ProjectionShaped
  <1> QED
    BY <1>1, <1>2

LEMMA RestartKeeps ==
    ASSUME ProjectionAssumption, ProjectionInv, NEW p \in Processes, NEW w \in Versions,
           NEW readable \in SUBSET Versions, RestartWithRing(p, w, readable)
    PROVE  ProjectionInv'
  <1> DEFINE row == [write |-> w, readable |-> readable]
  <1>1. /\ w \in readable /\ ring' = [ring EXCEPT ![p] = row]
        /\ \A q \in Processes \ {p} : w \in ring[q].readable /\ ring[q].write \in readable
        /\ \A a \in Apps : proj[a].cipher # NoCipher => proj[a].cipher.version \in readable
        /\ UNCHANGED <<project, application, user, proj, events>>
    BY DEF RestartWithRing
  <1>2. handoff' \in [Handoffs -> HandoffRow \cup {NoHandoff}]
    BY DEF RestartWithRing, ProjectionInv, ProjectionShaped
  <1>3. ring \in [Processes -> RingRow] /\ row \in RingRow /\ row.write = w /\ row.readable = readable
    BY DEF ProjectionInv, ProjectionShaped, RingRow
  <1> HIDE DEF row
  <1>4. ring'[p] = row /\ \A q \in Processes : q # p => ring'[q] = ring[q]
    BY <1>1, <1>3
  <1>5. RingsFit'
    BY <1>1, <1>3, <1>4 DEF ProjectionInv, RingsFit
  <1>6. ASSUME NEW a \in Apps PROVE ProjectedFits(a)'
    <2>1. ProjectedFits(a) /\ proj'[a] = proj[a]
      BY <1>1 DEF ProjectionInv
    <2>2. ASSUME proj[a].exists PROVE KeptEmail(a, proj[a])'
      BY <1>1, <1>3, <1>4, <2>1, <2>2 DEF ProjectedFits, RowFits, KeptEmail
    <2> QED
      BY <1>1, <2>1, <2>2 DEF ProjectedFits, RowFits, Shows
  <1>7. ring' \in [Processes -> RingRow] /\ Bound' = Bound
    BY <1>1, <1>3 DEF Bound
  <1> QED
    BY <1>1, <1>2, <1>5, <1>6, <1>7 DEF ProjectionInv, ProjectionShaped

-----------------------------------------------------------------------------
(* The theorems about projections *)

(***************************************************************************)
(* The projections of a user keep their inductive invariant under every    *)
(* change of the user, handoff, repair by a reader and rotation of a ring. *)
(***************************************************************************)
THEOREM ProjectionInvariant == ASSUME ProjectionAssumption PROVE ProjectionSpec => []ProjectionInv
  <1>1. ProjectionInit => ProjectionInv
    BY ProjectionInitEstablishes
  <1>2. ProjectionInv /\ [ProjectionNext]_projectionVars => ProjectionInv'
    <2> SUFFICES ASSUME ProjectionInv, [ProjectionNext]_projectionVars
                 PROVE  ProjectionInv'
      OBVIOUS
    <2>1. ASSUME NEW p \in Processes, Project(p) PROVE ProjectionInv'
      BY <2>1, UserChangesKeep, RepairKeeps, PrepareExchangeKeeps, RestartKeeps DEF Project
    <2>2. CASE UNCHANGED projectionVars
      BY <2>2, ApplicationsStay DEF projectionVars, ProjectionInv, ProjectionShaped
    <2> QED
      BY <2>1, <2>2, CommitExchangeKeeps, OwnersKeep DEF ProjectionNext
  <1> QED
    BY <1>1, <1>2, PTL DEF ProjectionSpec

LEMMA ProjectionInvIsSafe ==
    ASSUME ProjectionAssumption, ProjectionInv
    PROVE  ProjectionSafe
  <1>1. ProjectionTypeOK
    <2>1. {project, user.status} \cup {application[a] : a \in Apps} \subseteq {"active", "disabled"}
      BY DEF ProjectionInv, ProjectionShaped, UserRow
    <2> QED
      BY <2>1 DEF ProjectionTypeOK, ProjectionInv, RingsFit
  <1>2. EventsTellProjection
    BY DEF EventsTellProjection, ProjectionInv, ProjectedFits, RowFits, Told, Bound
  <1>3. ReadersSeeUser
    <2> SUFFICES ASSUME NEW p \in Processes, NEW a \in Bound, application[a] = "active"
                 PROVE  LET d == WireDocument(p, a)
                        IN [revision |-> d.user, status |-> d.status, name |-> d.name, email |-> d.email]
                             = ServerUser
      BY DEF ReadersSeeUser
    <2>1. /\ a \in Apps /\ KeptEmail(a, proj[a]) /\ Shows(proj[a], user)
          /\ proj[a] \in ProjectionRow /\ user \in UserRow
      BY DEF ProjectionInv, ProjectionShaped, ProjectedFits, RowFits, Bound
    <2>2. proj[a].digest \in DocumentRow
      BY <2>1 DEF ProjectionRow
    <2>3. [proj[a].digest EXCEPT !.email = proj[a].cipher.email] = proj[a].digest
      BY <2>1, <2>2 DEF KeptEmail, DocumentRow
    <2>4. WireDocument(p, a) = proj[a].digest
      BY <2>1, <2>3 DEF WireDocument, KeptEmail
    <2>5. proj[a].digest = Document(user, proj[a].revision)
      BY <2>1 DEF Shows
    <2> QED
      BY <2>4, <2>5 DEF Document, ServerUser
  <1> QED
    BY <1>1, <1>2, <1>3 DEF ProjectionSafe

(***************************************************************************)
(* Whatever the interleaving of changes, handoffs and repairs by processes *)
(* with different rings: one event per revision and none missing, and no   *)
(* process ever reads a stale user or an email that was withdrawn.         *)
(***************************************************************************)
THEOREM ProjectionIsSafe == ASSUME ProjectionAssumption PROVE ProjectionSpec => []ProjectionSafe
  <1>1. ProjectionInv => ProjectionSafe
    BY ProjectionInvIsSafe
  <1> QED
    BY <1>1, ProjectionInvariant, PTL
=============================================================================
