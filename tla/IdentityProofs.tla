--------------------------- MODULE IdentityProofs ---------------------------
(***************************************************************************)
(* Proofs about the identities of a user. IdentityMutation: the database   *)
(* handlers, with their two-step requests, resends, refusals and the       *)
(* sweep, implement the domain aggregate, for every lifetime, policy and   *)
(* number of generations. IdentityGraph: what GraphSafe says of every      *)
(* state and IdentityChangesHandsByMerge of every step, for any number of  *)
(* users, identities, applications, intents and tokens.                    *)
(***************************************************************************)
EXTENDS IdentityMutation, IdentityGraph, ControlPlaneProofs, FiniteSetTheorems,
        WellFoundedInduction, TLAPS

-----------------------------------------------------------------------------
(* Deadlines *)

\* A set of numbers that is not empty has a least element ...
LEMMA LeastExists ==
    ASSUME NEW S \in SUBSET Nat, S # {}
    PROVE  \E x \in S : \A y \in S : x <= y
  <1> DEFINE R == {p \in Nat \X Nat : p[1] < p[2]}
  <1>1. IsWellFoundedOn(R, Nat)
    BY NatLessThanWellFounded, Zenon DEF OpToRel
  <1>2. PICK x \in S : \A y \in S : ~(<<y, x>> \in R)
    <2> HIDE DEF R
    <2> QED
      BY <1>1, WFMin
  <1>3. ASSUME NEW a \in Nat, NEW b \in Nat, a < b PROVE <<a, b>> \in R
    BY <1>3
  <1>4. \A y \in S : ~(y < x)
    BY <1>2, <1>3
  <1> QED
    BY <1>4

\* ... which is its Min.
LEMMA MinOfNaturals ==
    ASSUME NEW S \in SUBSET Nat, S # {}
    PROVE  Min(S) \in S /\ \A y \in S : Min(S) <= y
  BY LeastExists DEF Min

-----------------------------------------------------------------------------
(* The inductive invariant of the refinement *)

ProviderSlot == {"provider_authorization_started", "provider_exchange_in_progress"}
EmailSlot == {"email_address_entry", "email_challenge_pending"}
IntentRow == [status : Live \cup Ended, revision : Nat, bound : BOOLEAN, expires : Nat, ended : Nat]

IntentShaped ==
    /\ now \in Nat /\ kind \in Kinds /\ method \in [Role -> Methods]
    /\ intent \in IntentRow
    /\ slot \in [Role -> SlotStatus] /\ receipt \in [Role -> ReceiptRow]

\* A slot under way belongs to a bound browser and a pending intent, is proved by its
\* own method and has no receipt yet.
SlotFollows(r) ==
    /\ slot[r] \in ProviderSlot => method[r] = "provider"
    /\ slot[r] \in EmailSlot => method[r] = "email"
    /\ slot[r] \in ProviderSlot \cup EmailSlot => intent.bound = TRUE /\ intent.status = "pending_proof"
    /\ slot[r] \notin {"proved", "expired"} => receipt[r].status = "none"
    /\ intent.bound = FALSE /\ intent.status = "pending_proof" => slot[r] = "pending"

HandlersInv == IntentShaped /\ \A r \in Role : SlotFollows(r)

\* The roles of the handlers are those of the aggregate.
LEMMA SameRoles == Aggregate!Roles(kind) = Role
  BY DEF Aggregate!Roles, Role, SlotRoles

\* The deadline of the handlers is the aggregate's.
LEMMA DeadlineIsAlive ==
    ASSUME IntentShaped
    PROVE  /\ EffectiveDeadline \in Nat
           /\ \A t \in Nat : t < EffectiveDeadline <=> Aggregate!AliveAt(t)
  <1> DEFINE received == {q \in Role : receipt[q].status # "none"}
             S == {intent.expires} \cup {receipt[r].expires : r \in received}
  <1>1. S \in SUBSET Nat /\ S # {}
    BY DEF IntentShaped, IntentRow, ReceiptRow
  <1>2. Min(S) \in S /\ \A y \in S : Min(S) <= y
    BY <1>1, MinOfNaturals
  <1>3. EffectiveDeadline = Min(S)
    BY DEF EffectiveDeadline
  <1>4. Aggregate!Received = received
    BY SameRoles DEF Aggregate!Received
  <1>5. ASSUME NEW t \in Nat PROVE t < Min(S) <=> Aggregate!AliveAt(t)
    <2>1. t < Min(S) <=> \A y \in S : t < y
      <3> DEFINE m == Min(S)
      <3>1. m \in S /\ m \in Nat /\ \A y \in S : m <= y /\ y \in Nat
        BY <1>1, <1>2
      <3> HIDE DEF S, m
      <3>2. t < m <=> \A y \in S : t < y
        BY <3>1
      <3> QED
        BY <3>2 DEF m
    <2>2. (\A y \in S : t < y) <=> (t < intent.expires /\ \A r \in received : t < receipt[r].expires)
      OBVIOUS
    <2> QED
      BY <1>4, <2>1, <2>2 DEF Aggregate!AliveAt
  <1> HIDE DEF S
  <1> QED
    BY <1>1, <1>2, <1>3, <1>5

LEMMA InTimeIsAlive ==
    ASSUME IntentShaped
    PROVE  InTime <=> Aggregate!AliveAt(now)
  BY DeadlineIsAlive DEF IntentShaped, InTime

\* Only a sweep before the deadline reads differently in the aggregate.
LEMMA StatusMapped ==
    /\ intent.status # "expired" => AggregateStatus = intent.status
    /\ intent.status = "expired" => AggregateStatus \in {"expired", "cancelled"}
  BY DEF AggregateStatus

LEMMA InitEstablishes ==
    ASSUME MutationAssumption, MutationInit
    PROVE  HandlersInv /\ Aggregate!AggregateInit
  <1>1. IntentShaped
    BY DEF MutationInit, ControlInit, IntentShaped, IntentRow, Live, SlotStatus, ReceiptRow, NoReceipt,
           MutationAssumption
  <1>2. \A r \in Role : SlotFollows(r)
    BY DEF MutationInit, SlotFollows, ProviderSlot, EmailSlot, NoReceipt
  <1>3. AggregateStatus = "pending_proof"
    BY StatusMapped DEF MutationInit
  <1>4. IntentLife \in 1..IntentLife /\ Methods \subseteq {"provider", "email"}
    BY DEF MutationAssumption
  <1> QED
    BY <1>1, <1>2, <1>3, <1>4, SameRoles
    DEF HandlersInv, MutationInit, ControlInit, Aggregate!AggregateInit, Aggregate!Method,
        Aggregate!NoReceipt, NoReceipt

-----------------------------------------------------------------------------
(* The kinds of step *)

\* What every step is shown to be.
Kept == HandlersInv' /\ [Aggregate!AggregateNext]_(Aggregate!aggregateVars)

\* The aggregate does not see owners, challenges, evidence and requests under way.
LEMMA UnseenKeeps ==
    ASSUME HandlersInv, UNCHANGED <<now, kind, method, intent, slot, receipt>>
    PROVE  Kept
  <1>1. Role' = Role
    BY DEF Role
  <1>2. HandlersInv'
    BY <1>1 DEF HandlersInv, IntentShaped, SlotFollows
  <1>3. EffectiveDeadline' = EffectiveDeadline
    BY <1>1 DEF EffectiveDeadline
  <1>4. AggregateStatus' = AggregateStatus
    BY <1>3 DEF AggregateStatus
  <1> QED
    BY <1>2, <1>4 DEF Kept, Aggregate!aggregateVars

\* Time passes.
LEMMA TickKeeps ==
    ASSUME HandlersInv, Tick, UNCHANGED mutationVars
    PROVE  Kept
  <1>1. Role' = Role /\ UNCHANGED <<kind, method, intent, slot, receipt>>
    BY DEF Role, mutationVars
  <1>2. HandlersInv'
    BY <1>1 DEF HandlersInv, IntentShaped, SlotFollows, Tick
  <1>3. EffectiveDeadline' = EffectiveDeadline
    BY <1>1 DEF EffectiveDeadline
  <1>4. AggregateStatus' = AggregateStatus
    BY <1>1, <1>3 DEF AggregateStatus
  <1>5. Aggregate!Pass
    BY <1>1, <1>4 DEF Aggregate!Pass, Tick
  <1> QED
    BY <1>2, <1>5 DEF Kept, Aggregate!AggregateNext

\* A slot of the pending intent moves on.
LEMMA MoveSlotKeeps ==
    ASSUME HandlersInv, NEW r \in Role, NEW to \in ProviderSlot \cup EmailSlot,
           RequirePending, intent.bound = TRUE, slot[r] \notin {"proved", "expired"},
           to \in ProviderSlot => method[r] = "provider",
           to \in EmailSlot => method[r] = "email",
           slot' = [slot EXCEPT ![r] = to], Bump, UNCHANGED <<now, kind, method, receipt>>
    PROVE  /\ HandlersInv' /\ AggregateStatus' = AggregateStatus
           /\ intent'.revision = intent.revision + 1 /\ UNCHANGED <<intent.bound, intent.expires>>
           /\ Aggregate!EnsurePending
  <1>1. Role' = Role
    BY DEF Role
  <1>2. intent \in IntentRow /\ intent.status = "pending_proof"
    BY DEF HandlersInv, IntentShaped, RequirePending
  <1>3. /\ intent' \in IntentRow /\ intent'.revision = intent.revision + 1
        /\ intent'.status = intent.status /\ intent'.expires = intent.expires
    BY <1>2 DEF Bump, IntentRow
  <1>4. intent'.bound = intent.bound
    BY <1>2 DEF Bump, IntentRow
  <1>5. to \in SlotStatus /\ to \notin {"proved", "expired", "pending"}
    BY DEF SlotStatus, ProviderSlot, EmailSlot
  <1>6. IntentShaped'
    BY <1>1, <1>3, <1>5 DEF HandlersInv, IntentShaped
  <1>7. ASSUME NEW q \in Role PROVE SlotFollows(q)'
    <2>1. SlotFollows(q) /\ slot'[q] = (IF q = r THEN to ELSE slot[q])
      BY DEF HandlersInv, IntentShaped
    <2>2. CASE q = r
      BY <1>2, <1>3, <1>4, <1>5, <2>1, <2>2 DEF SlotFollows
    <2>3. CASE q # r
      BY <1>2, <1>3, <1>4, <2>1, <2>3 DEF SlotFollows
    <2> QED
      BY <2>2, <2>3
  <1>8. AggregateStatus = "pending_proof" /\ AggregateStatus' = "pending_proof"
    BY <1>2, <1>3 DEF AggregateStatus
  <1>9. Aggregate!EnsurePending
    BY <1>8, InTimeIsAlive DEF HandlersInv, RequirePending, Aggregate!EnsurePending
  <1> QED
    BY <1>1, <1>3, <1>4, <1>6, <1>7, <1>8, <1>9 DEF HandlersInv

\* The moves of a slot are transitions of the aggregate.
Transitions ==
    {<<"provider", "pending", "provider_authorization_started">>,
     <<"provider", "provider_authorization_started", "provider_exchange_in_progress">>,
     <<"email", "pending", "email_address_entry">>,
     <<"email", "email_address_entry", "email_challenge_pending">>,
     <<"email", "email_challenge_pending", "email_challenge_pending">>}

LEMMA TransitionKeeps ==
    ASSUME HandlersInv, NEW r \in Role, RequirePending, intent.bound = TRUE,
           NEW m, NEW from, NEW to, <<m, from, to>> \in Transitions,
           method[r] = m, slot[r] = from, MoveSlot(r, to)
    PROVE  Kept
  <1>1. /\ slot' = [slot EXCEPT ![r] = to] /\ Bump /\ UNCHANGED <<now, kind, method, receipt>>
    BY DEF MoveSlot, controlVars
  <1>2. /\ to \in ProviderSlot \cup EmailSlot /\ from \notin {"proved", "expired"}
        /\ to \in ProviderSlot => m = "provider"
        /\ to \in EmailSlot => m = "email"
    BY DEF ProviderSlot, EmailSlot, Transitions
  <1>3. /\ HandlersInv' /\ AggregateStatus' = AggregateStatus
        /\ intent'.revision = intent.revision + 1 /\ UNCHANGED <<intent.bound, intent.expires>>
        /\ Aggregate!EnsurePending
    BY <1>1, <1>2, MoveSlotKeeps
  <1>4. Aggregate!TransitionSlot(r, m, {from}, to)
    BY <1>1, <1>3 DEF Aggregate!TransitionSlot, Aggregate!Frozen
  <1>5. Aggregate!SlotStep(r)
    BY <1>4 DEF Transitions, Aggregate!SlotStep, Aggregate!StartProvider, Aggregate!ClaimProviderCallback,
                Aggregate!BeginEmail, Aggregate!MarkEmailChallengePending, Aggregate!ReplaceEmailChallenge
  <1> QED
    BY <1>3, <1>5, SameRoles DEF Kept, Aggregate!AggregateNext

\* A proof is received.
LEMMA ProveSlotKeeps ==
    ASSUME MutationAssumption, HandlersInv, NEW r \in Role, NEW rows, RequirePending,
           slot[r] \in {"provider_exchange_in_progress", "email_challenge_pending"}, ProveSlot(r, rows)
    PROVE  Kept
  <1> DEFINE e == Min({now + ReceiptLife, intent.expires})
             new == [status |-> "issued", issued |-> now, captured |-> intent.revision, expires |-> e]
  <1>1. Role' = Role /\ UNCHANGED <<now, kind, method>>
    BY DEF Role, ProveSlot, controlVars
  <1>2. /\ intent \in IntentRow /\ intent.status = "pending_proof" /\ now \in Nat
        /\ intent.bound = TRUE /\ receipt[r].status = "none"
    BY DEF HandlersInv, IntentShaped, RequirePending, SlotFollows, ProviderSlot, EmailSlot
  <1>3. /\ intent' \in IntentRow /\ intent'.revision = intent.revision + 1
        /\ intent'.status = intent.status /\ intent'.expires = intent.expires
    BY <1>2 DEF ProveSlot, Bump, IntentRow
  <1>4. intent'.bound = intent.bound
    BY <1>2 DEF ProveSlot, Bump, IntentRow
  <1>5. AggregateStatus = "pending_proof" /\ AggregateStatus' = "pending_proof"
    BY <1>2, <1>3 DEF AggregateStatus
  <1>6. Aggregate!EnsurePending /\ now < intent.expires
    BY <1>5, InTimeIsAlive DEF HandlersInv, RequirePending, Aggregate!EnsurePending, Aggregate!AliveAt
  <1>7. e \in (now + 1)..(now + ReceiptLife) /\ e <= intent.expires /\ e \in Nat
    <2>1. ReceiptLife \in Nat /\ ReceiptLife > 0 /\ intent.expires \in Nat
      BY <1>2 DEF MutationAssumption, IntentRow
    <2>2. {now + ReceiptLife, intent.expires} \in SUBSET Nat /\ {now + ReceiptLife, intent.expires} # {}
      BY <1>2, <2>1
    <2>3. e \in {now + ReceiptLife, intent.expires} /\ \A y \in {now + ReceiptLife, intent.expires} : e <= y
      BY <2>2, MinOfNaturals
    <2> HIDE DEF e
    <2> QED
      BY <1>2, <1>6, <2>1, <2>3
  <1>8. receipt' = [receipt EXCEPT ![r] = new] /\ slot' = [slot EXCEPT ![r] = "proved"]
    BY DEF ProveSlot
  <1> HIDE DEF e
  <1>9. new \in ReceiptRow
    BY <1>2, <1>7 DEF ReceiptRow, IntentRow
  <1>10. IntentShaped'
    <2> HIDE DEF new
    <2> QED
      BY <1>1, <1>3, <1>8, <1>9 DEF HandlersInv, IntentShaped, SlotStatus
  <1>11. ASSUME NEW q \in Role PROVE SlotFollows(q)'
    <2>1. SlotFollows(q) /\ slot'[q] = (IF q = r THEN "proved" ELSE slot[q])
          /\ (q # r => receipt'[q] = receipt[q])
      BY <1>8 DEF HandlersInv, IntentShaped
    <2>2. CASE q = r
      BY <1>2, <1>3, <1>4, <2>1, <2>2 DEF SlotFollows, ProviderSlot, EmailSlot
    <2>3. CASE q # r
      BY <1>1, <1>2, <1>3, <1>4, <2>1, <2>3 DEF SlotFollows
    <2> QED
      BY <2>2, <2>3
  <1>12. \E t \in (now + 1)..(now + ReceiptLife) :
            /\ t <= intent.expires
            /\ receipt' = [receipt EXCEPT ![r] = [status |-> "issued", issued |-> now,
                                                  expires |-> t, captured |-> intent.revision]]
    BY <1>7, <1>8
  <1>13. Aggregate!AttachReceipt(r)
    BY <1>1, <1>2, <1>3, <1>4, <1>5, <1>6, <1>8, <1>12 DEF Aggregate!AttachReceipt, Aggregate!Frozen
  <1> QED
    BY <1>1, <1>10, <1>11, <1>13, SameRoles
    DEF Kept, HandlersInv, Aggregate!AggregateNext, Aggregate!SlotStep

\* An end, whoever brings it.
LEMMA TerminalizeKeeps ==
    ASSUME HandlersInv, NEW s \in {"expired", "cancelled"}, NEW rows, Open, s = "cancelled" => InTime,
           Terminalize(s, rows)
    PROVE  Kept
  <1>1. Role' = Role /\ UNCHANGED <<now, kind, method>>
    BY DEF Role, Terminalize, controlVars
  <1>2. intent \in IntentRow /\ now \in Nat /\ intent.status \in Live
    BY DEF HandlersInv, IntentShaped, Open
  <1>3. /\ intent' \in IntentRow /\ intent'.revision = intent.revision + 1 /\ intent'.ended = now
        /\ intent'.status = s /\ intent'.expires = intent.expires
    <2> DEFINE next == intent.revision + 1
    <2>1. next \in Nat /\ s \in Live \cup Ended
      BY <1>2 DEF IntentRow, Ended
    <2>2. intent' = [intent EXCEPT !.status = s, !.revision = next, !.ended = now]
      BY DEF Terminalize
    <2> HIDE DEF next
    <2>3. /\ intent' \in IntentRow /\ intent'.revision = next /\ intent'.ended = now
          /\ intent'.status = s /\ intent'.expires = intent.expires
      BY <1>2, <2>1, <2>2 DEF IntentRow
    <2> QED
      BY <2>3 DEF next
  <1>4. intent'.bound = intent.bound
    BY <1>2 DEF Terminalize, IntentRow
  <1>5. slot' = [r \in Role |-> "expired"]
    BY DEF Terminalize
  <1>6. receipt' = [r \in Role |-> IF receipt[r].status = "issued"
                                  THEN [receipt[r] EXCEPT !.status = "expired"] ELSE receipt[r]]
    BY DEF Terminalize
  <1>7. ASSUME NEW r \in Role
        PROVE  /\ receipt'[r] \in ReceiptRow /\ receipt'[r].expires = receipt[r].expires
               /\ receipt'[r].status # "none" <=> receipt[r].status # "none"
    <2>1. receipt[r] \in ReceiptRow
      BY DEF HandlersInv, IntentShaped
    <2>2. CASE receipt[r].status = "issued"
      <3>1. receipt'[r] = [receipt[r] EXCEPT !.status = "expired"]
        BY <1>6, <2>2
      <3> QED
        BY <2>1, <2>2, <3>1 DEF ReceiptRow
    <2>3. CASE receipt[r].status # "issued"
      BY <1>6, <2>1, <2>3
    <2> QED
      BY <2>2, <2>3
  <1>8. EffectiveDeadline' = EffectiveDeadline
    <2>1. {q \in Role : receipt'[q].status # "none"} = {q \in Role : receipt[q].status # "none"}
      BY <1>7
    <2>2. {receipt'[r].expires : r \in {q \in Role : receipt[q].status # "none"}}
            = {receipt[r].expires : r \in {q \in Role : receipt[q].status # "none"}}
      BY <1>7
    <2> QED
      BY <1>1, <1>3, <2>1, <2>2 DEF EffectiveDeadline
  <1>9. IntentShaped'
    BY <1>1, <1>3, <1>5, <1>6, <1>7 DEF HandlersInv, IntentShaped, SlotStatus
  <1>10. ASSUME NEW r \in Role PROVE SlotFollows(r)'
    BY <1>3, <1>5 DEF SlotFollows, ProviderSlot, EmailSlot
  <1>11. AggregateStatus = intent.status /\ intent.status \notin {"completed", "expired", "cancelled"}
    BY <1>2, StatusMapped DEF Live
  <1>12. AggregateStatus' = IF InTime THEN "cancelled" ELSE "expired"
    <2>1. CASE s = "cancelled"
      BY <1>3, <2>1 DEF AggregateStatus
    <2>2. CASE s = "expired"
      BY <1>3, <1>8, <2>2 DEF AggregateStatus, InTime
    <2> QED
      BY <2>1, <2>2
  <1>13. Aggregate!Terminalize(AggregateStatus')
    BY <1>1, <1>3, <1>4, <1>5, <1>6, SameRoles DEF Aggregate!Terminalize, Aggregate!Frozen
  <1>14. Aggregate!Cancel \/ Aggregate!Expire
    BY <1>11, <1>12, <1>13, InTimeIsAlive DEF HandlersInv, Aggregate!Cancel, Aggregate!Expire, Aggregate!Final
  <1> QED
    BY <1>1, <1>9, <1>10, <1>14 DEF Kept, HandlersInv, Aggregate!AggregateNext

\* A browser is bound.
LEMMA BindBrowserKeeps ==
    ASSUME HandlersInv, BindBrowser
    PROVE  Kept
  <1>1. Role' = Role /\ UNCHANGED <<now, kind, method, slot, receipt>>
    BY DEF Role, BindBrowser, controlVars
  <1>2. intent \in IntentRow /\ intent.status = "pending_proof"
    BY DEF HandlersInv, IntentShaped, BindBrowser, RequirePending
  <1>3. intent.bound = FALSE
    BY <1>2 DEF BindBrowser, IntentRow
  <1>4. /\ intent' \in IntentRow /\ intent'.revision = intent.revision + 1
        /\ intent'.status = intent.status /\ intent'.expires = intent.expires /\ intent'.bound = TRUE
    <2> DEFINE next == intent.revision + 1
    <2>1. next \in Nat
      BY <1>2 DEF IntentRow
    <2>2. intent' = [intent EXCEPT !.bound = TRUE, !.revision = next]
      BY DEF BindBrowser
    <2> HIDE DEF next
    <2>3. /\ intent' \in IntentRow /\ intent'.revision = next /\ intent'.bound = TRUE
          /\ intent'.status = intent.status /\ intent'.expires = intent.expires
      BY <1>2, <2>1, <2>2 DEF IntentRow
    <2> QED
      BY <2>3 DEF next
  <1>5. AggregateStatus = "pending_proof" /\ AggregateStatus' = "pending_proof"
    BY <1>2, <1>4 DEF AggregateStatus
  <1>6. Aggregate!EnsurePending
    BY <1>5, InTimeIsAlive DEF HandlersInv, BindBrowser, RequirePending, Aggregate!EnsurePending
  <1>7. \A r \in Role : slot[r] = "pending" /\ receipt[r].status = "none"
    BY <1>2, <1>3 DEF HandlersInv, SlotFollows
  <1>8. IntentShaped'
    BY <1>1, <1>4 DEF HandlersInv, IntentShaped
  <1>9. \A r \in Role : SlotFollows(r)'
    BY <1>1, <1>4, <1>7 DEF SlotFollows, ProviderSlot, EmailSlot
  <1>10. Aggregate!BindBrowser
    BY <1>1, <1>3, <1>4, <1>5, <1>6, <1>7, SameRoles DEF Aggregate!BindBrowser, Aggregate!Frozen
  <1> QED
    BY <1>1, <1>8, <1>9, <1>10 DEF Kept, HandlersInv, Aggregate!AggregateNext

\* The proofs are all there.
LEMMA ConfirmReadyKeeps ==
    ASSUME HandlersInv, ConfirmReady
    PROVE  Kept
  <1>1. Role' = Role /\ UNCHANGED <<now, kind, method, slot, receipt>>
    BY DEF Role, ConfirmReady, controlVars
  <1>2. intent \in IntentRow /\ intent.status = "pending_proof"
    BY DEF HandlersInv, IntentShaped, ConfirmReady, RequirePending
  <1>3. /\ intent' \in IntentRow /\ intent'.revision = intent.revision + 1
        /\ intent'.status = "ready" /\ intent'.expires = intent.expires
    <2> DEFINE next == intent.revision + 1
    <2>1. next \in Nat /\ "ready" \in Live \cup Ended
      BY <1>2 DEF IntentRow, Live
    <2>2. intent' = [intent EXCEPT !.status = "ready", !.revision = next]
      BY DEF ConfirmReady
    <2> HIDE DEF next
    <2>3. /\ intent' \in IntentRow /\ intent'.revision = next
          /\ intent'.status = "ready" /\ intent'.expires = intent.expires
      BY <1>2, <2>1, <2>2 DEF IntentRow
    <2> QED
      BY <2>3 DEF next
  <1>4. intent'.bound = intent.bound
    BY <1>2 DEF ConfirmReady, IntentRow
  <1>5. AggregateStatus = "pending_proof" /\ AggregateStatus' = "ready"
    BY <1>2, <1>3 DEF AggregateStatus
  <1>6. Aggregate!EnsurePending
    BY <1>5, InTimeIsAlive DEF HandlersInv, ConfirmReady, RequirePending, Aggregate!EnsurePending
  <1>7. \A r \in Role : slot[r] = "proved" /\ receipt[r].status = "issued"
    BY DEF ConfirmReady
  <1>8. IntentShaped'
    BY <1>1, <1>3 DEF HandlersInv, IntentShaped
  <1>9. \A r \in Role : SlotFollows(r)'
    BY <1>1, <1>3, <1>7 DEF SlotFollows, ProviderSlot, EmailSlot
  <1>10. Aggregate!ConfirmReady
    BY <1>1, <1>3, <1>4, <1>5, <1>6, <1>7, SameRoles DEF Aggregate!ConfirmReady, Aggregate!Frozen
  <1> QED
    BY <1>1, <1>8, <1>9, <1>10 DEF Kept, HandlersInv, Aggregate!AggregateNext

\* The operation is carried out.
LEMMA ConfirmControlKeeps ==
    ASSUME HandlersInv, ConfirmControl
    PROVE  Kept
  <1>1. Role' = Role /\ UNCHANGED <<now, kind, method, slot>>
    BY DEF Role, ConfirmControl, controlVars
  <1>2. intent \in IntentRow /\ intent.status = "ready" /\ now \in Nat
    BY DEF HandlersInv, IntentShaped, ConfirmControl, LiveReady
  <1>3. /\ intent' \in IntentRow /\ intent'.revision = intent.revision + 1
        /\ intent'.status = "completed" /\ intent'.expires = intent.expires
    <2> DEFINE next == intent.revision + 1
    <2>1. next \in Nat /\ "completed" \in Live \cup Ended
      BY <1>2 DEF IntentRow, Ended
    <2>2. intent' = [intent EXCEPT !.status = "completed", !.revision = next, !.ended = now]
      BY DEF ConfirmControl
    <2> HIDE DEF next
    <2>3. /\ intent' \in IntentRow /\ intent'.revision = next
          /\ intent'.status = "completed" /\ intent'.expires = intent.expires
      BY <1>2, <2>1, <2>2 DEF IntentRow
    <2> QED
      BY <2>3 DEF next
  <1>4. intent'.bound = intent.bound
    BY <1>2 DEF ConfirmControl, IntentRow
  <1>5. AggregateStatus = "ready" /\ AggregateStatus' = "completed"
    BY <1>2, <1>3 DEF AggregateStatus
  <1>6. Aggregate!AliveAt(now)
    BY InTimeIsAlive DEF HandlersInv, ConfirmControl, LiveReady
  <1>7. \A r \in Role : slot[r] = "proved" /\ receipt[r].status = "issued"
    BY DEF ConfirmControl, LiveReady
  <1>8. receipt' = [r \in Role |-> [receipt[r] EXCEPT !.status = "consumed"]]
    BY DEF ConfirmControl
  <1>9. \A r \in Role : [receipt[r] EXCEPT !.status = "consumed"] \in ReceiptRow
    BY DEF HandlersInv, IntentShaped, ReceiptRow
  <1>10. IntentShaped'
    BY <1>1, <1>3, <1>8, <1>9 DEF HandlersInv, IntentShaped
  <1>11. \A r \in Role : SlotFollows(r)'
    BY <1>1, <1>3, <1>7 DEF SlotFollows, ProviderSlot, EmailSlot
  <1>12. Aggregate!Complete
    BY <1>1, <1>3, <1>4, <1>5, <1>6, <1>7, <1>8, SameRoles DEF Aggregate!Complete, Aggregate!Frozen
  <1> QED
    BY <1>1, <1>10, <1>11, <1>12 DEF Kept, HandlersInv, Aggregate!AggregateNext

-----------------------------------------------------------------------------
(* The handlers *)

LEMMA ControlKeeps ==
    ASSUME HandlersInv, ControlNext, UNCHANGED mutationVars
    PROVE  Kept
  <1>1. CASE Tick
    BY <1>1, TickKeeps
  <1>2. CASE ~Tick
    <2>1. UNCHANGED now
      BY <1>2 DEF ControlNext, ProjectCommand, MethodCommand, SubjectCommand, Revise,
         UpdateProject, UpdateProjectPolicy, DisableProject, EnableProject, DeleteProject,
         ReplaceApplicationConfiguration, DisableApplication, UpdateProvider,
         UpdateProviderEgressPolicy, AssignProvider, UnassignProvider, DisableProvider,
         UpdateEmailPolicy, AssignEmailMethod, DisableProjectUser, EnableProjectUser,
         FanOutProjectedUser, ActivateSigningKey, TransitionSigningKey
    <2> QED
      BY <2>1, UnseenKeeps DEF mutationVars
  <1> QED
    BY <1>1, <1>2

LEMMA IntentStepKeeps ==
    ASSUME HandlersInv, IntentStep
    PROVE  Kept
  <1>1. CASE ExpireLockedIfNeeded \/ TerminalizeDue
    BY <1>1, TerminalizeKeeps DEF ExpireLockedIfNeeded, TerminalizeDue
  <1>2. CASE CancelIntent
    BY <1>2, TerminalizeKeeps DEF CancelIntent
  <1>3. CASE BindingLimitExceeded
    BY <1>3, TerminalizeKeeps DEF BindingLimitExceeded, LiveReady, Open, Live
  <1> QED
    BY <1>1, <1>2, <1>3, BindBrowserKeeps, ConfirmReadyKeeps, ConfirmControlKeeps DEF IntentStep

\* A slot under way belongs to an intent that is open.
LEMMA UnderWayIsOpen ==
    ASSUME HandlersInv, NEW r \in Role, slot[r] \in ProviderSlot \cup EmailSlot
    PROVE  Open /\ intent.status = "pending_proof" /\ intent.bound = TRUE
  BY DEF HandlersInv, SlotFollows, Open, Live

LEMMA ProviderStepKeeps ==
    ASSUME MutationAssumption, HandlersInv, NEW r \in Role, ProviderStep(r)
    PROVE  Kept
  <1>1. CASE StartProvider(r)
    <2>1. intent.bound = TRUE
      BY <1>1 DEF StartProvider, HandlersInv, IntentShaped, IntentRow
    <2> QED
      BY <1>1, <2>1, TransitionKeeps DEF StartProvider, Transitions
  <1>2. CASE ClaimProviderCallback(r)
    <2>1. /\ Open /\ intent.status = "pending_proof" /\ intent.bound = TRUE
          /\ slot[r] = "provider_authorization_started" /\ InTime /\ method[r] = "provider"
      BY <1>2, UnderWayIsOpen DEF ClaimProviderCallback, ProviderSlot, HandlersInv, SlotFollows
    <2>2. CASE SlotAuthority(r)
      <3>1. RequirePending /\ MoveSlot(r, "provider_exchange_in_progress")
        BY <1>2, <2>1, <2>2 DEF ClaimProviderCallback, RequirePending
      <3>2. <<"provider", "provider_authorization_started", "provider_exchange_in_progress">> \in Transitions
        BY DEF Transitions
      <3> QED
        BY <2>1, <3>1, <3>2, TransitionKeeps
    <2>3. CASE ~SlotAuthority(r)
      <3>1. Terminalize("cancelled", challenge)
        BY <1>2, <2>3 DEF ClaimProviderCallback
      <3> QED
        BY <2>1, <3>1, TerminalizeKeeps
    <2> QED
      BY <2>2, <2>3
  <1>3. CASE DenyProviderCallback(r)
    <2>1. Open /\ InTime /\ Terminalize("cancelled", challenge)
      BY <1>3, UnderWayIsOpen DEF DenyProviderCallback, ProviderSlot
    <2> QED
      BY <2>1, TerminalizeKeeps
  <1>4. CASE CompleteProviderCallback(r)
    BY <1>4, ProveSlotKeeps DEF CompleteProviderCallback
  <1>5. CASE FailProviderCallback(r)
    <2>1. CASE Open /\ ~InTime
      BY <1>5, <2>1, TerminalizeKeeps DEF FailProviderCallback
    <2>2. CASE /\ ~(Open /\ ~InTime)
               /\ slot[r] = "provider_exchange_in_progress" /\ exchange[r] = intent.revision
      <3>1. Open /\ InTime
        BY <2>2, UnderWayIsOpen DEF ProviderSlot
      <3>2. Terminalize("cancelled", challenge)
        BY <1>5, <2>2 DEF FailProviderCallback
      <3> QED
        BY <3>1, <3>2, TerminalizeKeeps
    <2>3. CASE /\ ~(Open /\ ~InTime)
               /\ ~(slot[r] = "provider_exchange_in_progress" /\ exchange[r] = intent.revision)
      <3>1. UNCHANGED <<controlVars, kind, method, intent, slot, receipt>>
        BY <1>5, <2>3 DEF FailProviderCallback
      <3> QED
        BY <3>1, UnseenKeeps DEF controlVars
    <2> QED
      BY <2>1, <2>2, <2>3
  <1> QED
    BY <1>1, <1>2, <1>3, <1>4, <1>5 DEF ProviderStep

LEMMA EmailStepKeeps ==
    ASSUME MutationAssumption, HandlersInv, NEW r \in Role, EmailStep(r)
    PROVE  Kept
  <1>1. CASE BeginEmail(r)
    <2>1. intent.bound = TRUE
      BY <1>1 DEF BeginEmail, HandlersInv, IntentShaped, IntentRow
    <2> QED
      BY <1>1, <2>1, TransitionKeeps DEF BeginEmail, Transitions
  <1>2. CASE PrepareEmailGeneration(r)
    BY <1>2, UnseenKeeps DEF PrepareEmailGeneration, controlVars
  <1>3. ASSUME NEW dispatch \in BOOLEAN, CommitEmailGeneration(r, dispatch) PROVE Kept
    <2>1. /\ RequirePending /\ slot[r] \in EmailSlot /\ MoveSlot(r, "email_challenge_pending")
      BY <1>3 DEF CommitEmailGeneration, EmailOpen, EmailSlot
    <2>2. intent.bound = TRUE /\ method[r] = "email"
      BY <2>1, UnderWayIsOpen DEF HandlersInv, SlotFollows
    <2>3. <<"email", slot[r], "email_challenge_pending">> \in Transitions
      BY <2>1 DEF EmailSlot, Transitions
    <2> QED
      BY <2>1, <2>2, <2>3, TransitionKeeps
  <1>4. CASE ChallengeTimedOut(r)
    BY <1>4, TerminalizeKeeps DEF ChallengeTimedOut, Open, Live
  <1>5. CASE WrongCode(r)
    <2>1. Open /\ InTime
      BY <1>5 DEF WrongCode, Verifiable, Open, Live
    <2> DEFINE attempts == challenge[r][Newest(r)].attempts + 1
               rows == [challenge EXCEPT ![r][Newest(r)].attempts = attempts,
                          ![r][Newest(r)].status = IF attempts >= MaxAttempts THEN "exhausted" ELSE @]
    <2>2. \/ Terminalize("cancelled", rows)
          \/ UNCHANGED <<controlVars, kind, method, intent, slot, receipt>>
      BY <1>5 DEF WrongCode
    <2> HIDE DEF rows
    <2> QED
      BY <2>1, <2>2, TerminalizeKeeps, UnseenKeeps DEF controlVars
  <1>6. CASE VerifyEmailProof(r)
    BY <1>6, UnseenKeeps DEF VerifyEmailProof, controlVars
  <1>7. CASE CompleteEmailProof(r)
    BY <1>7, ProveSlotKeeps DEF CompleteEmailProof, Verifiable, Pending
  <1>8. ASSUME NEW g \in Generation, MailStep(r, g) PROVE Kept
    BY <1>8, UnseenKeeps DEF MailStep, controlVars
  <1> QED
    BY <1>1, <1>2, <1>3, <1>4, <1>5, <1>6, <1>7, <1>8 DEF EmailStep, NewCode

LEMMA HandlersStep ==
    ASSUME MutationAssumption, HandlersInv, [MutationNext]_mutationAll
    PROVE  Kept
  <1>1. ASSUME NEW r \in Role, LoseRequest(r) PROVE Kept
    BY <1>1, UnseenKeeps DEF LoseRequest, controlVars
  <1>2. CASE UNCHANGED mutationAll
    BY <1>2, UnseenKeeps DEF mutationAll, mutationVars, controlVars
  <1> QED
    BY <1>1, <1>2, ControlKeeps, IntentStepKeeps, ProviderStepKeeps, EmailStepKeeps DEF MutationNext

-----------------------------------------------------------------------------
(* What is claimed of the handlers *)

THEOREM HandlersInvariant == ASSUME MutationAssumption PROVE MutationSpec => []HandlersInv
  <1>1. MutationInit => HandlersInv
    BY InitEstablishes
  <1>2. HandlersInv /\ [MutationNext]_mutationAll => HandlersInv'
    BY HandlersStep DEF Kept
  <1> QED
    BY <1>1, <1>2, PTL DEF MutationSpec

\* The handlers of the database, with their two-step requests, resends, refusals and the
\* sweep, implement the domain aggregate of identity_mutation.rs, which they do not call.
THEOREM HandlersImplementAggregate ==
    ASSUME MutationAssumption PROVE MutationSpec => Aggregate!AggregateSpec
  <1>1. MutationInit => Aggregate!AggregateInit
    BY InitEstablishes
  <1>2. HandlersInv /\ [MutationNext]_mutationAll
          => [Aggregate!AggregateNext]_(Aggregate!aggregateVars)
    BY HandlersStep DEF Kept
  <1> QED
    BY <1>1, <1>2, HandlersInvariant, PTL DEF MutationSpec, Aggregate!AggregateSpec

\* What is proved of the aggregate.
Proved == INSTANCE MutationAggregateProofs
    WITH expires <- intent.expires, status <- AggregateStatus, revision <- intent.revision,
         bound <- intent.bound, MaxRevision <- MaxIntentRevision

LEMMA AggregateConstants ==
    ASSUME MutationAssumption PROVE Proved!AggregateAssumption
  BY ControlPlaneAssumption DEF MutationAssumption, Proved!AggregateAssumption

LEMMA SameAggregate ==
    /\ Aggregate!AggregateInit <=> Proved!AggregateInit
    /\ Aggregate!AggregateNext <=> Proved!AggregateNext
    /\ Aggregate!MovesByRight <=> Proved!MovesByRight
  <1>1. Aggregate!AggregateInit <=> Proved!AggregateInit
    BY Zenon DEF Aggregate!AggregateInit, Proved!AggregateInit, Aggregate!Roles, Proved!Roles, Aggregate!Method,
           Proved!Method, Aggregate!NoReceipt, Proved!NoReceipt
  <1>2. Aggregate!AggregateNext <=> Proved!AggregateNext
    BY Zenon DEF Aggregate!AggregateNext, Proved!AggregateNext, Aggregate!Pass, Proved!Pass, Aggregate!BindBrowser,
           Proved!BindBrowser, Aggregate!ConfirmReady, Proved!ConfirmReady, Aggregate!Complete,
           Proved!Complete, Aggregate!Cancel, Proved!Cancel, Aggregate!Expire, Proved!Expire,
           Aggregate!Terminalize, Proved!Terminalize, Aggregate!SlotStep, Proved!SlotStep,
           Aggregate!StartProvider, Proved!StartProvider, Aggregate!ClaimProviderCallback,
           Proved!ClaimProviderCallback, Aggregate!FailProviderExchange, Proved!FailProviderExchange,
           Aggregate!BeginEmail, Proved!BeginEmail, Aggregate!MarkEmailChallengePending,
           Proved!MarkEmailChallengePending, Aggregate!ReplaceEmailChallenge,
           Proved!ReplaceEmailChallenge, Aggregate!TransitionSlot, Proved!TransitionSlot,
           Aggregate!AttachReceipt, Proved!AttachReceipt, Aggregate!Frozen, Proved!Frozen,
           Aggregate!EnsurePending, Proved!EnsurePending, Aggregate!AliveAt, Proved!AliveAt,
           Aggregate!Received, Proved!Received, Aggregate!Final, Proved!Final, Aggregate!Roles, Proved!Roles
  <1>3. Aggregate!MovesByRight <=> Proved!MovesByRight
    BY Zenon DEF Aggregate!MovesByRight, Proved!MovesByRight, Aggregate!CompletedWithFreshProofs,
           Proved!CompletedWithFreshProofs, Aggregate!EndsOnce, Proved!EndsOnce, Aggregate!Final,
           Proved!Final, Aggregate!Roles, Proved!Roles
  <1> QED
    BY <1>1, <1>2, <1>3

\* No handler does to an intent what the aggregate does not allow: the operation is
\* carried out while every proof is fresh, and an intent that ended stays as it ended.
THEOREM HandlersMoveByRight ==
    ASSUME MutationAssumption PROVE MutationSpec => [][MovesByRight]_mutationAll
  <1>1. MutationInit => Proved!AggregateInit
    BY InitEstablishes, SameAggregate
  <1>2. HandlersInv /\ [MutationNext]_mutationAll => [Proved!AggregateNext]_(Proved!aggregateVars)
    BY HandlersStep, SameAggregate DEF Kept, Aggregate!aggregateVars, Proved!aggregateVars
  <1>3. Proved!AggregateSpec => [][Proved!MovesByRight]_(Proved!aggregateVars)
    BY AggregateConstants, Proved!MutationsMoveByRight
  <1>4. [Proved!MovesByRight]_(Proved!aggregateVars) => Aggregate!MovesByRight
    <2> SUFFICES ASSUME UNCHANGED Proved!aggregateVars PROVE Aggregate!MovesByRight
      BY SameAggregate
    <2> QED
      BY DEF Proved!aggregateVars, Aggregate!MovesByRight, Aggregate!CompletedWithFreshProofs,
             Aggregate!EndsOnce
  <1>5. HandlersInv /\ [MutationNext]_mutationAll => KeepsAggregate
    BY HandlersStep DEF Kept, KeepsAggregate
  <1>6. KeepsAggregate /\ Aggregate!MovesByRight => [MovesByRight]_mutationAll
    BY DEF MovesByRight
  <1> QED
    BY <1>1, <1>2, <1>3, <1>4, <1>5, <1>6, HandlersInvariant, PTL DEF MutationSpec, Proved!AggregateSpec

-----------------------------------------------------------------------------
(* Codes, and what an end leaves behind *)

LEMMA Numbers ==
    ASSUME MutationAssumption
    PROVE  /\ MaxGenerations \in Nat /\ MaxGenerations > 0 /\ MaxAttempts \in Nat /\ MaxAttempts > 0
           /\ MaxIntentRevision \in Nat /\ MaxIntentRevision > 0 /\ CodeLife \in Nat
           /\ Generation = 1..MaxGenerations
  BY DEF MutationAssumption, Generation

\* Only an intent that ended may be past the bound.
RevisionBounded ==
    /\ intent.revision \in 1..(MaxIntentRevision + 1)
    /\ intent.status \in Live => intent.revision <= MaxIntentRevision

RequestsShaped == \A f \in {exchange, prepared, accepted} : f \in [Role -> 0..(MaxIntentRevision + 1)]

\* The generations of a slot are numbered without gaps, and a code that can still be
\* guessed has attempts left.
IssuedUpTo(rows, n) == \A g \in Generation : rows[g].status # "none" <=> g <= n

Numbered(rows) ==
    /\ rows \in [Generation -> ChallengeRow]
    /\ \E n \in 0..MaxGenerations : IssuedUpTo(rows, n)
    /\ \A g \in Generation : rows[g].status = "pending" => rows[g].attempts < MaxAttempts

ChallengesShaped ==
    challenge = [r \in Role |-> challenge[r]] /\ \A r \in Role : Numbered(challenge[r])

\* What ChallengeFollowsSlot says of one slot, and that a slot under challenge has one.
CodeFollows(r) ==
    /\ \A g \in Generation :
          /\ challenge[r][g].status \in {"pending", "delivery_unavailable"} =>
                /\ intent.status = "pending_proof" /\ slot[r] = "email_challenge_pending"
                /\ g = Newest(r)
          /\ challenge[r][g].status = "consumed" =>
                /\ slot[r] = "proved" /\ g = Newest(r)
                /\ intent.status \in {"pending_proof", "ready", "completed"}
    /\ slot[r] = "email_challenge_pending" =>
          /\ Newest(r) \in Generation
          /\ challenge[r][Newest(r)].status \in {"pending", "delivery_unavailable"}

SecretsShaped ==
    /\ evidence \subseteq {"candidate_identity"} /\ created \in {"live", "erased"}
    /\ intent.status \in Ended =>
          created = "erased" /\ evidence = {} /\ \A r \in Role : receipt[r].status # "issued"

CodesInv ==
    /\ RevisionBounded /\ RequestsShaped /\ ChallengesShaped /\ SecretsShaped
    /\ \A r \in Role : CodeFollows(r)

\* Newest is the number of the last generation issued.
LEMMA LastIssued ==
    ASSUME MutationAssumption, NEW rows, NEW n \in 0..MaxGenerations, IssuedUpTo(rows, n)
    PROVE  Cardinality({g \in Generation : rows[g].status # "none"}) = n
  <1>1. {g \in Generation : rows[g].status # "none"} = 1..n
    BY Numbers DEF IssuedUpTo
  <1>2. Cardinality(1..n) = n
    <2>1. 1 \in Int /\ n \in Int /\ n \in Nat
      BY Numbers
    <2>2. Cardinality(1..n) = IF 1 > n THEN 0 ELSE n - 1 + 1
      BY <2>1, FS_Interval
    <2> QED
      BY <2>1, <2>2
  <1> QED
    BY <1>1, <1>2

LEMMA NewestIsLast ==
    ASSUME MutationAssumption, NEW r, NEW n \in 0..MaxGenerations, IssuedUpTo(challenge[r], n)
    PROVE  Newest(r) = n
  BY LastIssued DEF Newest, Issued

LEMMA NewestPrimed ==
    ASSUME MutationAssumption, NEW r, NEW n \in 0..MaxGenerations, IssuedUpTo(challenge'[r], n)
    PROVE  Newest(r)' = n
  BY LastIssued DEF Newest, Issued

\* As long as no generation is issued, the newest stays the newest.
LEMMA NewestStays ==
    ASSUME MutationAssumption, NEW r, Numbered(challenge[r]),
           \A g \in Generation : challenge'[r][g].status = "none" <=> challenge[r][g].status = "none"
    PROVE  /\ Newest(r)' = Newest(r) /\ Newest(r) \in 0..MaxGenerations
           /\ \E n \in 0..MaxGenerations : IssuedUpTo(challenge'[r], n)
  <1>1. PICK n \in 0..MaxGenerations : IssuedUpTo(challenge[r], n)
    BY DEF Numbered
  <1>2. IssuedUpTo(challenge'[r], n)
    BY <1>1 DEF IssuedUpTo
  <1> QED
    BY <1>1, <1>2, NewestIsLast, NewestPrimed

LEMMA CodesInit ==
    ASSUME MutationAssumption, MutationInit
    PROVE  CodesInv
  <1>1. RevisionBounded
    BY Numbers DEF MutationInit, RevisionBounded
  <1>2. RequestsShaped
    <2>1. 0 \in 0..(MaxIntentRevision + 1)
      BY Numbers
    <2> QED
      BY <2>1 DEF MutationInit, RequestsShaped
  <1>3. \A r \in Role : challenge[r] = [g \in Generation |-> NoChallenge]
    BY DEF MutationInit
  <1>4. NoChallenge \in ChallengeRow /\ NoChallenge.status = "none"
    BY Numbers DEF NoChallenge, ChallengeRow
  <1>5. \A r \in Role : Numbered(challenge[r])
    <2>1. 0 \in 0..MaxGenerations /\ \A g \in Generation : ~(g <= 0)
      BY Numbers
    <2> QED
      BY <1>3, <1>4, <2>1 DEF Numbered, IssuedUpTo
  <1>6. ChallengesShaped
    BY <1>5 DEF MutationInit, ChallengesShaped
  <1>7. \A r \in Role : CodeFollows(r)
    BY <1>3, <1>4 DEF CodeFollows, MutationInit
  <1>8. SecretsShaped
    BY DEF MutationInit, SecretsShaped, Ended
  <1> QED
    BY <1>1, <1>2, <1>6, <1>7, <1>8 DEF CodesInv

\* A step that leaves intent, slots and what proofs left alone, and of the codes at most
\* the mail and the attempts.
LEMMA QuietCodes ==
    ASSUME MutationAssumption, CodesInv, UNCHANGED <<kind, intent, slot, receipt, evidence, created>>,
           RequestsShaped', challenge' = [r \in Role |-> challenge'[r]],
           \A r \in Role :
              /\ challenge'[r] \in [Generation -> ChallengeRow]
              /\ \A g \in Generation :
                    /\ challenge'[r][g].status = challenge[r][g].status
                    /\ challenge'[r][g].status = "pending" => challenge'[r][g].attempts < MaxAttempts
    PROVE  CodesInv'
  <1>1. Role' = Role
    BY DEF Role
  <1>2. ASSUME NEW r \in Role PROVE Numbered(challenge'[r]) /\ Newest(r)' = Newest(r)
    BY NewestStays DEF CodesInv, ChallengesShaped, Numbered
  <1>3. ChallengesShaped'
    BY <1>1, <1>2 DEF ChallengesShaped
  <1>4. ASSUME NEW r \in Role PROVE CodeFollows(r)'
    BY <1>2 DEF CodesInv, CodeFollows
  <1> QED
    BY <1>1, <1>3, <1>4 DEF CodesInv, RevisionBounded, SecretsShaped

\* The same with the codes untouched.
LEMMA UntouchedCodes ==
    ASSUME MutationAssumption, CodesInv, UNCHANGED <<kind, intent, slot, receipt, evidence, created, challenge>>,
           RequestsShaped'
    PROVE  CodesInv'
  <1>1. /\ challenge' = [r \in Role |-> challenge'[r]]
        /\ \A r \in Role :
              /\ challenge'[r] \in [Generation -> ChallengeRow]
              /\ \A g \in Generation :
                    /\ challenge'[r][g].status = challenge[r][g].status
                    /\ challenge'[r][g].status = "pending" => challenge'[r][g].attempts < MaxAttempts
    BY DEF CodesInv, ChallengesShaped, Numbered
  <1> QED
    BY <1>1, QuietCodes

\* The intent moves on while the codes stand still.
LEMMA StandingCodes ==
    ASSUME MutationAssumption, CodesInv, RevisionBounded', RequestsShaped', SecretsShaped',
           UNCHANGED <<kind, challenge>>,
           \A r \in Role :
              \/ /\ slot'[r] = slot[r]
                 /\ slot[r] = "email_challenge_pending" => intent'.status = intent.status
                 /\ intent'.status \in {intent.status, "ready", "completed"}
              \/ /\ slot[r] \notin {"email_challenge_pending", "proved"}
                 /\ slot'[r] # "email_challenge_pending"
    PROVE  CodesInv'
  <1>1. Role' = Role
    BY DEF Role
  <1>2. ChallengesShaped'
    BY <1>1 DEF CodesInv, ChallengesShaped
  <1>3. ASSUME NEW r \in Role PROVE CodeFollows(r)'
    <2>1. Newest(r)' = Newest(r) /\ CodeFollows(r)
      BY DEF Newest, Issued, CodesInv
    <2> QED
      BY <2>1 DEF CodeFollows
  <1> QED
    BY <1>1, <1>2, <1>3 DEF CodesInv

\* An end closes every code.
LEMMA ClosedRow ==
    ASSUME NEW row \in ChallengeRow
    PROVE  /\ Closed(row) \in ChallengeRow
           /\ Closed(row).status \notin {"pending", "delivery_unavailable", "consumed"}
           /\ Closed(row).status = "none" <=> row.status = "none"
  <1>1. /\ Withdrawn(row) \in ChallengeRow /\ Withdrawn(row).status = row.status
    BY DEF Withdrawn, ChallengeRow
  <1> DEFINE w == Withdrawn(row)
  <1> HIDE DEF w
  <1>2. w \in ChallengeRow /\ w.status = row.status
    BY <1>1 DEF w
  <1>3. Closed(row) = IF row.status \in {"pending", "delivery_unavailable", "consumed"}
                      THEN [w EXCEPT !.status = "expired"] ELSE w
    BY DEF Closed, w
  <1>4. CASE row.status \in {"pending", "delivery_unavailable", "consumed"}
    BY <1>2, <1>3, <1>4 DEF ChallengeRow
  <1>5. CASE row.status \notin {"pending", "delivery_unavailable", "consumed"}
    BY <1>2, <1>3, <1>5
  <1> QED
    BY <1>4, <1>5

LEMMA TerminalizeCodes ==
    ASSUME MutationAssumption, HandlersInv, CodesInv, NEW s \in {"expired", "cancelled"}, NEW rows,
           Open, Terminalize(s, rows), RequestsShaped',
           \A r \in Role, g \in Generation :
              rows[r][g] \in ChallengeRow /\ (rows[r][g].status = "none" <=> challenge[r][g].status = "none")
    PROVE  CodesInv'
  <1>1. Role' = Role
    BY DEF Role, Terminalize
  <1>2. challenge' = [r \in Role |-> [g \in Generation |-> Closed(rows[r][g])]]
    BY DEF Terminalize
  <1>3. ASSUME NEW r \in Role
        PROVE  /\ challenge'[r] \in [Generation -> ChallengeRow]
               /\ \A g \in Generation :
                     /\ challenge'[r][g].status \notin {"pending", "delivery_unavailable", "consumed"}
                     /\ challenge'[r][g].status = "none" <=> challenge[r][g].status = "none"
    <2>1. \A g \in Generation : challenge'[r][g] = Closed(rows[r][g])
      BY <1>2
    <2> QED
      BY <1>2, <2>1, ClosedRow
  <1>4. ASSUME NEW r \in Role PROVE Numbered(challenge'[r])
    BY <1>3, NewestStays DEF CodesInv, ChallengesShaped, Numbered
  <1>5. ChallengesShaped'
    BY <1>1, <1>2, <1>4 DEF ChallengesShaped
  <1>6. ASSUME NEW r \in Role PROVE CodeFollows(r)'
    <2>1. slot'[r] = "expired"
      BY DEF Terminalize
    <2> QED
      BY <1>3, <2>1 DEF CodeFollows
  <1>7. intent \in IntentRow /\ intent.status \in Live /\ intent.revision <= MaxIntentRevision
        /\ intent.revision \in 1..(MaxIntentRevision + 1)
    BY DEF HandlersInv, IntentShaped, CodesInv, RevisionBounded, Open
  <1>8. intent'.status = s /\ intent'.revision = intent.revision + 1
    BY <1>7 DEF Terminalize, IntentRow
  <1>9. RevisionBounded'
    BY <1>7, <1>8, Numbers DEF RevisionBounded, Live
  <1>10. \A r \in Role : receipt'[r].status # "issued"
    <2> SUFFICES ASSUME NEW r \in Role PROVE receipt'[r].status # "issued"
      OBVIOUS
    <2>1. receipt[r] \in ReceiptRow
      BY DEF HandlersInv, IntentShaped
    <2>2. receipt'[r] = IF receipt[r].status = "issued"
                        THEN [receipt[r] EXCEPT !.status = "expired"] ELSE receipt[r]
      BY DEF Terminalize
    <2> QED
      BY <2>1, <2>2 DEF ReceiptRow
  <1>11. SecretsShaped'
    BY <1>1, <1>10 DEF SecretsShaped, Terminalize
  <1> QED
    BY <1>1, <1>5, <1>6, <1>9, <1>11 DEF CodesInv

\* One slot moves with its codes; the others, and the status of the intent, stay.
LEMMA OneSlotCodes ==
    ASSUME MutationAssumption, CodesInv, NEW r \in Role, UNCHANGED kind,
           RevisionBounded', RequestsShaped', SecretsShaped', intent'.status = intent.status,
           challenge' = [q \in Role |-> challenge'[q]],
           \A q \in Role \ {r} : slot'[q] = slot[q] /\ challenge'[q] = challenge[q],
           Numbered(challenge'[r]), CodeFollows(r)'
    PROVE  CodesInv'
  <1>1. Role' = Role
    BY DEF Role
  <1>2. ASSUME NEW q \in Role PROVE Numbered(challenge'[q])
    BY DEF CodesInv, ChallengesShaped
  <1>3. ChallengesShaped'
    BY <1>1, <1>2 DEF ChallengesShaped
  <1>4. ASSUME NEW q \in Role, q # r PROVE CodeFollows(q)'
    <2>1. Newest(q)' = Newest(q) /\ CodeFollows(q)
      BY <1>4 DEF Newest, Issued, CodesInv
    <2> QED
      BY <1>4, <2>1 DEF CodeFollows
  <1> QED
    BY <1>1, <1>3, <1>4 DEF CodesInv

\* A request is remembered, or forgotten.
Remembered(f, g) == g = f \/ \E r \in Role, v \in 0..(MaxIntentRevision + 1) : g = [f EXCEPT ![r] = v]

LEMMA RequestsKept ==
    ASSUME RequestsShaped, UNCHANGED kind, Remembered(exchange, exchange'),
           Remembered(prepared, prepared'), Remembered(accepted, accepted')
    PROVE  RequestsShaped'
  <1>1. Role' = Role
    BY DEF Role
  <1>2. ASSUME NEW f \in [Role -> 0..(MaxIntentRevision + 1)], NEW g, Remembered(f, g)
        PROVE  g \in [Role -> 0..(MaxIntentRevision + 1)]
    BY <1>2 DEF Remembered
  <1> QED
    BY <1>1, <1>2 DEF RequestsShaped

LEMMA SameRequests ==
    ASSUME UNCHANGED inFlight
    PROVE  Remembered(exchange, exchange') /\ Remembered(prepared, prepared') /\ Remembered(accepted, accepted')
  BY DEF Remembered, inFlight

\* Every revision a handler remembers, it has read or written.
LEMMA RevisionsInRange ==
    ASSUME MutationAssumption, CodesInv
    PROVE  /\ 0 \in 0..(MaxIntentRevision + 1) /\ intent.revision \in 0..(MaxIntentRevision + 1)
           /\ intent.revision < MaxIntentRevision => intent.revision + 1 \in 0..(MaxIntentRevision + 1)
  BY Numbers DEF CodesInv, RevisionBounded

LEMMA BumpedIntent ==
    ASSUME MutationAssumption, HandlersInv, CodesInv, intent.revision < MaxIntentRevision, Bump
    PROVE  /\ intent'.status = intent.status /\ intent'.expires = intent.expires
           /\ RevisionBounded'
  <1>1. intent \in IntentRow /\ intent.revision \in 1..(MaxIntentRevision + 1)
    BY DEF HandlersInv, IntentShaped, CodesInv, RevisionBounded
  <1>2. /\ intent'.status = intent.status /\ intent'.expires = intent.expires
        /\ intent'.revision = intent.revision + 1
    BY <1>1 DEF Bump, IntentRow
  <1> QED
    BY <1>1, <1>2, Numbers DEF RevisionBounded

\* A slot without codes moves.
LEMMA MoveSlotCodes ==
    ASSUME MutationAssumption, HandlersInv, CodesInv, NEW r \in Role, NEW state,
           intent.revision < MaxIntentRevision, MoveSlot(r, state), UNCHANGED challenge, RequestsShaped',
           slot[r] \notin {"email_challenge_pending", "proved"}, state # "email_challenge_pending"
    PROVE  CodesInv'
  <1>1. intent'.status = intent.status /\ RevisionBounded'
    BY BumpedIntent DEF MoveSlot
  <1>2. Role' = Role
    BY DEF Role, MoveSlot
  <1>3. SecretsShaped'
    BY <1>1, <1>2 DEF SecretsShaped, CodesInv, MoveSlot
  <1>4. \A q \in Role : slot'[q] = IF q = r THEN state ELSE slot[q]
    BY DEF MoveSlot, HandlersInv, IntentShaped
  <1> QED
    BY <1>1, <1>3, <1>4, StandingCodes DEF MoveSlot

\* A provider proves a slot.
LEMMA ProveByProvider ==
    ASSUME MutationAssumption, HandlersInv, CodesInv, NEW r \in Role, RequirePending,
           ProveSlot(r, challenge), RequestsShaped', slot[r] = "provider_exchange_in_progress"
    PROVE  CodesInv'
  <1>1. intent'.status = intent.status /\ RevisionBounded'
    BY BumpedIntent DEF ProveSlot, RequirePending
  <1>2. SecretsShaped'
    BY <1>1 DEF SecretsShaped, CodesInv, ProveSlot, CandidateEvidence, RequirePending, Ended
  <1>3. \A q \in Role : slot'[q] = IF q = r THEN "proved" ELSE slot[q]
    BY DEF ProveSlot, HandlersInv, IntentShaped
  <1> QED
    BY <1>1, <1>2, <1>3, StandingCodes DEF ProveSlot

\* Challenges with one row changed.
LEMMA ChangedRow ==
    ASSUME MutationAssumption, CodesInv, NEW r \in Role, NEW h \in Generation,
           NEW rows \in [Role -> [Generation -> ChallengeRow]],
           \A q \in Role, g \in Generation : q # r \/ g # h => rows[q][g] = challenge[q][g],
           challenge[r][h].status # "none", rows[r][h].status # "none"
    PROVE  \A q \in Role, g \in Generation :
              /\ rows[q][g] \in ChallengeRow
              /\ rows[q][g].status = "none" <=> challenge[q][g].status = "none"
  OBVIOUS

LEMMA ChallengeFunction ==
    ASSUME CodesInv
    PROVE  challenge \in [Role -> [Generation -> ChallengeRow]]
  BY DEF CodesInv, ChallengesShaped, Numbered

\* The newest code of a slot under challenge.
LEMMA NewestPending ==
    ASSUME MutationAssumption, CodesInv, NEW r \in Role, Pending(r)
    PROVE  /\ Newest(r) \in Generation /\ challenge[r][Newest(r)] \in ChallengeRow
           /\ challenge[r][Newest(r)].status = "pending"
           /\ challenge[r][Newest(r)].attempts < MaxAttempts
  <1>1. CodeFollows(r) /\ Numbered(challenge[r])
    BY DEF CodesInv, ChallengesShaped
  <1>2. Newest(r) \in Generation
    BY <1>1 DEF CodeFollows, Pending
  <1> QED
    BY <1>1, <1>2 DEF Numbered, Pending

\* A wrong code costs an attempt, and the last one the intent.
LEMMA WrongCodeCodes ==
    ASSUME MutationAssumption, HandlersInv, CodesInv, NEW r \in Role, WrongCode(r)
    PROVE  CodesInv'
  <1> DEFINE g == Newest(r)
             row == challenge[r][g]
             spent == row.attempts + 1
             left == IF spent >= MaxAttempts THEN "exhausted" ELSE row.status
             rows == [challenge EXCEPT ![r][g].attempts = spent,
                        ![r][g].status = IF spent >= MaxAttempts THEN "exhausted" ELSE @]
  <1>1. /\ g \in Generation /\ row \in ChallengeRow /\ row.status = "pending"
        /\ row.attempts < MaxAttempts
    BY NewestPending DEF WrongCode, Verifiable
  <1>2. challenge \in [Role -> [Generation -> ChallengeRow]]
    BY ChallengeFunction
  <1>3. spent \in 0..MaxAttempts /\ left \in {"pending", "exhausted"}
    <2>1. row.attempts \in 0..MaxAttempts
      <3> HIDE DEF g, row
      <3> QED
        BY <1>1 DEF ChallengeRow
    <2> HIDE DEF row
    <2>2. spent \in 0..MaxAttempts
      BY <1>1, <2>1, Numbers
    <2>3. left \in {"pending", "exhausted"}
      BY <1>1
    <2> QED
      BY <2>2, <2>3
  <1>4. rows = [challenge EXCEPT ![r] = [challenge[r] EXCEPT ![g] =
                  [row EXCEPT !.attempts = spent, !.status = left]]]
    <2> HIDE DEF g, spent
    <2> QED
      BY <1>1, <1>2 DEF ChallengeRow
  <1>5. /\ [row EXCEPT !.attempts = spent, !.status = left] \in ChallengeRow
        /\ [row EXCEPT !.attempts = spent, !.status = left].status = left
        /\ [row EXCEPT !.attempts = spent, !.status = left].attempts = spent
    <2> HIDE DEF g, row, spent, left
    <2> QED
      BY <1>1, <1>3 DEF ChallengeRow
  <1>6. /\ Open /\ UNCHANGED inFlight
        /\ \/ spent >= MaxAttempts /\ Terminalize("cancelled", rows)
           \/ /\ ~(spent >= MaxAttempts) /\ challenge' = rows
              /\ UNCHANGED <<controlVars, kind, method, intent, slot, receipt, evidence, created>>
    BY DEF WrongCode, Verifiable, Open, Live
  <1>7. UNCHANGED kind
    BY <1>6 DEF Terminalize
  <1>8. RequestsShaped'
    BY <1>6, <1>7, SameRequests, RequestsKept DEF CodesInv
  <1> DEFINE next == [row EXCEPT !.attempts = spent, !.status = left]
  <1> HIDE DEF next
  <1>9. /\ rows \in [Role -> [Generation -> ChallengeRow]]
        /\ rows[r][g] = next /\ next.status = left /\ next.attempts = spent
        /\ \A q \in Role, h \in Generation : q # r \/ h # g => rows[q][h] = challenge[q][h]
    <2> HIDE DEF g, row, spent, left, rows
    <2> QED
      BY <1>1, <1>2, <1>4, <1>5 DEF next
  <1> HIDE DEF rows, g
  <1>10. CASE Terminalize("cancelled", rows)
    <2>1. \A q \in Role, h \in Generation :
             /\ rows[q][h] \in ChallengeRow
             /\ rows[q][h].status = "none" <=> challenge[q][h].status = "none"
      BY <1>1, <1>3, <1>9, ChangedRow
    <2> QED
      BY <1>6, <1>8, <1>10, <2>1, TerminalizeCodes
  <1>11. CASE /\ ~(spent >= MaxAttempts) /\ challenge' = rows
              /\ UNCHANGED <<controlVars, kind, method, intent, slot, receipt, evidence, created>>
    <2>1. spent < MaxAttempts /\ left = "pending"
      BY <1>1, <1>3, <1>11, Numbers
    <2>2. \A q \in Role :
             /\ challenge'[q] \in [Generation -> ChallengeRow]
             /\ \A h \in Generation :
                   /\ challenge'[q][h].status = challenge[q][h].status
                   /\ challenge'[q][h].status = "pending" => challenge'[q][h].attempts < MaxAttempts
      <3> HIDE DEF row, spent, left
      <3>1. \A q \in Role, h \in Generation :
               challenge[q][h].status = "pending" => challenge[q][h].attempts < MaxAttempts
        BY DEF CodesInv, ChallengesShaped, Numbered
      <3>2. challenge[r][g].status = "pending"
        BY <1>1 DEF row
      <3> QED
        BY <1>9, <1>11, <2>1, <3>1, <3>2
    <2>3. challenge' = [q \in Role |-> challenge'[q]]
      BY <1>9, <1>11
    <2> QED
      BY <1>8, <1>11, <2>2, <2>3, QuietCodes
  <1> QED
    BY <1>6, <1>10, <1>11

\* The mail moves; no code does.
LEMMA MailCodes ==
    ASSUME MutationAssumption, CodesInv, NEW r \in Role, NEW g \in Generation, MailStep(r, g)
    PROVE  CodesInv'
  <1>1. challenge \in [Role -> [Generation -> ChallengeRow]]
    BY ChallengeFunction
  <1>2. PICK m \in {"leased", "queued", "sent", "spent"} : challenge' = [challenge EXCEPT ![r][g].mail = m]
    BY DEF MailStep
  <1>3. RequestsShaped'
    BY SameRequests, RequestsKept DEF MailStep, CodesInv
  <1> DEFINE next == [challenge[r][g] EXCEPT !.mail = m]
  <1>4. next \in ChallengeRow /\ next.status = challenge[r][g].status /\ next.attempts = challenge[r][g].attempts
    <2>1. challenge[r][g] \in ChallengeRow
      BY <1>1
    <2> QED
      BY <2>1 DEF ChallengeRow
  <1>5. challenge' = [challenge EXCEPT ![r] = [challenge[r] EXCEPT ![g] = next]]
    BY <1>1, <1>2
  <1> HIDE DEF next
  <1>6. \A q \in Role :
          /\ challenge'[q] \in [Generation -> ChallengeRow]
          /\ \A h \in Generation :
                /\ challenge'[q][h].status = challenge[q][h].status
                /\ challenge'[q][h].attempts = challenge[q][h].attempts
    BY <1>1, <1>4, <1>5
  <1>7. \A q \in Role, h \in Generation :
           challenge[q][h].status = "pending" => challenge[q][h].attempts < MaxAttempts
    BY DEF CodesInv, ChallengesShaped, Numbered
  <1>8. challenge' = [q \in Role |-> challenge'[q]]
    BY <1>1, <1>5
  <1> QED
    BY <1>3, <1>6, <1>7, <1>8, QuietCodes DEF MailStep

\* The right code proves its slot and is used up.
LEMMA CompleteEmailProofCodes ==
    ASSUME MutationAssumption, HandlersInv, CodesInv, NEW r \in Role, CompleteEmailProof(r)
    PROVE  CodesInv'
  <1> DEFINE g == Newest(r)
             row == challenge[r][g]
             next == [row EXCEPT !.status = "consumed"]
  <1>1. /\ RequirePending /\ ProveSlot(r, [challenge EXCEPT ![r][g].status = "consumed"])
        /\ UNCHANGED <<kind, exchange, prepared>> /\ accepted' = [accepted EXCEPT ![r] = 0]
        /\ slot[r] = "email_challenge_pending"
    BY DEF CompleteEmailProof, ProveSlot, Verifiable, Pending
  <1>2. g \in Generation /\ row \in ChallengeRow /\ row.status = "pending"
    BY NewestPending DEF CompleteEmailProof, Verifiable
  <1>3. next \in ChallengeRow /\ next.status = "consumed"
    <2> HIDE DEF g, row
    <2> QED
      BY <1>2 DEF ChallengeRow
  <1>4. challenge \in [Role -> [Generation -> ChallengeRow]] /\ CodeFollows(r)
        /\ \A h \in Generation : challenge[r][h].status = "pending" => challenge[r][h].attempts < MaxAttempts
    BY ChallengeFunction DEF CodesInv, ChallengesShaped, Numbered
  <1>5. challenge' = [challenge EXCEPT ![r] = [challenge[r] EXCEPT ![g] = next]]
    <2> HIDE DEF g
    <2> QED
      BY <1>1, <1>2, <1>4 DEF ProveSlot
  <1> HIDE DEF g, next
  <1>6. /\ \A h \in Generation : challenge'[r][h] = IF h = g THEN next ELSE challenge[r][h]
        /\ challenge'[r] \in [Generation -> ChallengeRow]
        /\ challenge' = [q \in Role |-> challenge'[q]]
        /\ \A q \in Role \ {r} : challenge'[q] = challenge[q]
    BY <1>2, <1>3, <1>4, <1>5
  <1>7. \A h \in Generation : challenge'[r][h].status = "none" <=> challenge[r][h].status = "none"
    BY <1>2, <1>3, <1>6
  <1>8. Numbered(challenge[r])
    BY DEF CodesInv, ChallengesShaped
  <1>9. Newest(r)' = g /\ Numbered(challenge'[r])
    <2>1. Newest(r)' = Newest(r) /\ \E n \in 0..MaxGenerations : IssuedUpTo(challenge'[r], n)
      BY <1>7, <1>8, NewestStays
    <2>2. \A h \in Generation : challenge'[r][h].status = "pending" => challenge'[r][h].attempts < MaxAttempts
      BY <1>3, <1>4, <1>6
    <2> QED
      BY <1>6, <2>1, <2>2 DEF Numbered, g
  <1>10. intent'.status = intent.status /\ RevisionBounded' /\ intent.status = "pending_proof"
    BY <1>1, BumpedIntent DEF ProveSlot, RequirePending
  <1>11. \A q \in Role : slot'[q] = IF q = r THEN "proved" ELSE slot[q]
    BY <1>1 DEF ProveSlot, HandlersInv, IntentShaped
  <1>12. CodeFollows(r)'
    BY <1>2, <1>3, <1>4, <1>6, <1>9, <1>10, <1>11 DEF CodeFollows, g
  <1>13. SecretsShaped'
    BY <1>1, <1>10 DEF SecretsShaped, CodesInv, ProveSlot, CandidateEvidence, Ended
  <1>14. RequestsShaped'
    <2>1. Remembered(exchange, exchange') /\ Remembered(prepared, prepared') /\ Remembered(accepted, accepted')
      BY <1>1, RevisionsInRange DEF Remembered
    <2> QED
      BY <1>1, <2>1, RequestsKept DEF CodesInv
  <1> QED
    BY <1>1, <1>6, <1>9, <1>10, <1>11, <1>12, <1>13, <1>14, OneSlotCodes

\* A further code takes the place of the one before it.
LEMMA CommitCodes ==
    ASSUME MutationAssumption, HandlersInv, CodesInv, NEW r \in Role, NEW dispatch \in BOOLEAN,
           CommitEmailGeneration(r, dispatch)
    PROVE  CodesInv'
  <1> DEFINE rows == NextGeneration(r, dispatch)
             first == [status |-> IF dispatch THEN "pending" ELSE "delivery_unavailable", attempts |-> 0,
                       issued |-> now, expires |-> Min({now + CodeLife, intent.expires}),
                       mail |-> IF dispatch THEN "queued" ELSE "none"]
  <1>1. /\ RequirePending /\ MoveSlot(r, "email_challenge_pending") /\ Newest(r) < MaxGenerations
        /\ slot[r] \in {"email_address_entry", "email_challenge_pending"}
        /\ challenge' = [challenge EXCEPT ![r] = rows]
        /\ UNCHANGED <<kind, exchange, accepted>> /\ prepared' = [prepared EXCEPT ![r] = 0]
    BY DEF CommitEmailGeneration, EmailOpen, GenerationAdmitted, MoveSlot
  <1>2. challenge \in [Role -> [Generation -> ChallengeRow]] /\ CodeFollows(r)
        /\ \A h \in Generation : challenge[r][h].status = "pending" => challenge[r][h].attempts < MaxAttempts
    BY ChallengeFunction DEF CodesInv, ChallengesShaped, Numbered
  <1>3. PICK n \in 0..MaxGenerations : IssuedUpTo(challenge[r], n)
    BY DEF CodesInv, ChallengesShaped, Numbered
  <1>4. Newest(r) = n /\ n < MaxGenerations /\ n + 1 \in Generation /\ n + 1 \in 0..MaxGenerations
    BY <1>1, <1>3, NewestIsLast, Numbers
  <1>5. first \in ChallengeRow /\ first.status \in {"pending", "delivery_unavailable"} /\ first.attempts = 0
    <2> DEFINE end == Min({now + CodeLife, intent.expires})
    <2>1. now \in Nat /\ intent.expires \in Nat
      BY DEF HandlersInv, IntentShaped, IntentRow
    <2>2. {now + CodeLife, intent.expires} \in SUBSET Nat /\ {now + CodeLife, intent.expires} # {}
      BY <2>1, Numbers
    <2>3. end \in Nat
      BY <2>2, MinOfNaturals
    <2>4. 0 \in 0..MaxAttempts
      BY Numbers
    <2> HIDE DEF end
    <2>5. first = [status |-> IF dispatch THEN "pending" ELSE "delivery_unavailable", attempts |-> 0,
                   issued |-> now, expires |-> end, mail |-> IF dispatch THEN "queued" ELSE "none"]
      BY DEF end
    <2> HIDE DEF first
    <2> QED
      BY <2>1, <2>3, <2>4, <2>5 DEF ChallengeRow
  <1>6. ASSUME NEW row \in ChallengeRow
        PROVE  LET w == Withdrawn(row)
                   x == IF w.status \in {"pending", "delivery_unavailable"}
                        THEN [w EXCEPT !.status = "superseded"] ELSE w
               IN  /\ x \in ChallengeRow /\ x.status \notin {"pending", "delivery_unavailable"}
                   /\ x.status = "none" <=> row.status = "none"
                   /\ x.status = "consumed" <=> row.status = "consumed"
    <2> DEFINE w == Withdrawn(row)
    <2>1. w \in ChallengeRow /\ w.status = row.status
      BY DEF Withdrawn, ChallengeRow
    <2> HIDE DEF w
    <2>2. LET x == IF w.status \in {"pending", "delivery_unavailable"}
                   THEN [w EXCEPT !.status = "superseded"] ELSE w
          IN  /\ x \in ChallengeRow /\ x.status \notin {"pending", "delivery_unavailable"}
              /\ x.status = "none" <=> row.status = "none"
              /\ x.status = "consumed" <=> row.status = "consumed"
      BY <2>1 DEF ChallengeRow
    <2> QED
      BY <2>2 DEF w
  <1>7. /\ rows = [g \in Generation |-> rows[g]] /\ rows[n + 1] = first
        /\ \A g \in Generation \ {n + 1} :
              /\ rows[g] \in ChallengeRow /\ rows[g].status \notin {"pending", "delivery_unavailable"}
              /\ rows[g].status = "none" <=> challenge[r][g].status = "none"
              /\ rows[g].status = "consumed" <=> challenge[r][g].status = "consumed"
    <2>1. rows = [g \in Generation |-> rows[g]] /\ rows[n + 1] = first
      BY <1>4 DEF NextGeneration
    <2>2. ASSUME NEW g \in Generation, g # n + 1
          PROVE  /\ rows[g] \in ChallengeRow /\ rows[g].status \notin {"pending", "delivery_unavailable"}
                 /\ rows[g].status = "none" <=> challenge[r][g].status = "none"
                 /\ rows[g].status = "consumed" <=> challenge[r][g].status = "consumed"
      <3>1. rows[g] = LET row == Withdrawn(challenge[r][g])
                      IN  IF row.status \in {"pending", "delivery_unavailable"}
                          THEN [row EXCEPT !.status = "superseded"] ELSE row
        BY <1>4, <2>2 DEF NextGeneration
      <3>2. challenge[r][g] \in ChallengeRow
        BY <1>2
      <3> HIDE DEF rows
      <3> QED
        BY <1>6, <3>1, <3>2
    <2> QED
      BY <2>1, <2>2
  <1> HIDE DEF rows, first
  <1>8. /\ challenge'[r] = rows /\ challenge' = [q \in Role |-> challenge'[q]]
        /\ \A q \in Role \ {r} : challenge'[q] = challenge[q]
    BY <1>1, <1>2
  <1>9. IssuedUpTo(rows, n + 1)
    <2> SUFFICES ASSUME NEW g \in Generation PROVE rows[g].status # "none" <=> g <= n + 1
      BY DEF IssuedUpTo
    <2>1. CASE g = n + 1
      BY <1>4, <1>5, <1>7, <2>1, Numbers
    <2>2. CASE g # n + 1
      <3>1. g <= n + 1 <=> g <= n
        BY <2>2, Numbers
      <3> QED
        BY <1>3, <1>7, <2>2, <3>1 DEF IssuedUpTo
    <2> QED
      BY <2>1, <2>2
  <1>10. Newest(r)' = n + 1
    BY <1>4, <1>8, <1>9, NewestPrimed
  <1>11. Numbered(challenge'[r])
    <2>1. rows \in [Generation -> ChallengeRow]
      <3>1. \A g \in Generation : rows[g] \in ChallengeRow
        BY <1>5, <1>7
      <3> QED
        BY <1>7, <3>1
    <2>2. \A g \in Generation : rows[g].status = "pending" => rows[g].attempts < MaxAttempts
      BY <1>5, <1>7, Numbers
    <2> QED
      BY <1>4, <1>8, <1>9, <2>1, <2>2 DEF Numbered
  <1>12. intent'.status = intent.status /\ RevisionBounded' /\ intent.status = "pending_proof"
    BY <1>1, BumpedIntent DEF MoveSlot, RequirePending
  <1>13. \A q \in Role : slot'[q] = IF q = r THEN "email_challenge_pending" ELSE slot[q]
    BY <1>1 DEF MoveSlot, HandlersInv, IntentShaped
  <1>14. CodeFollows(r)'
    <2>1. \A g \in Generation : challenge[r][g].status # "consumed"
      BY <1>1, <1>2 DEF CodeFollows
    <2> QED
      BY <1>4, <1>5, <1>7, <1>8, <1>10, <1>12, <1>13, <2>1 DEF CodeFollows
  <1>15. SecretsShaped'
    BY <1>1, <1>12 DEF SecretsShaped, CodesInv, MoveSlot, Ended
  <1>16. RequestsShaped'
    <2>1. Remembered(exchange, exchange') /\ Remembered(prepared, prepared') /\ Remembered(accepted, accepted')
      BY <1>1, RevisionsInRange DEF Remembered
    <2> QED
      BY <1>1, <2>1, RequestsKept DEF CodesInv
  <1> QED
    BY <1>1, <1>8, <1>11, <1>12, <1>13, <1>14, <1>15, <1>16, OneSlotCodes

\* An end that no request brings about.
LEMMA EndCodes ==
    ASSUME MutationAssumption, HandlersInv, CodesInv, NEW s \in {"expired", "cancelled"}, Open,
           Terminalize(s, challenge), Remembered(exchange, exchange'),
           Remembered(prepared, prepared'), Remembered(accepted, accepted')
    PROVE  CodesInv'
  <1>1. RequestsShaped'
    BY RequestsKept DEF CodesInv, Terminalize
  <1>2. \A r \in Role, g \in Generation : challenge[r][g] \in ChallengeRow
    BY ChallengeFunction
  <1> QED
    BY <1>1, <1>2, TerminalizeCodes

LEMMA BindBrowserCodes ==
    ASSUME MutationAssumption, HandlersInv, CodesInv, BindBrowser
    PROVE  CodesInv'
  <1>1. /\ intent \in IntentRow /\ intent.revision \in 1..(MaxIntentRevision + 1)
        /\ intent.revision < MaxIntentRevision
    BY DEF HandlersInv, IntentShaped, CodesInv, RevisionBounded, BindBrowser, RequirePending
  <1>2. intent'.status = intent.status /\ intent'.revision = intent.revision + 1
    BY <1>1 DEF BindBrowser, IntentRow
  <1>3. RevisionBounded'
    BY <1>1, <1>2, Numbers DEF RevisionBounded
  <1>4. RequestsShaped'
    BY SameRequests, RequestsKept DEF BindBrowser, CodesInv
  <1>5. SecretsShaped'
    BY <1>2 DEF SecretsShaped, CodesInv, BindBrowser, Role
  <1> QED
    BY <1>2, <1>3, <1>4, <1>5, StandingCodes DEF BindBrowser

LEMMA ConfirmReadyCodes ==
    ASSUME MutationAssumption, HandlersInv, CodesInv, ConfirmReady
    PROVE  CodesInv'
  <1>1. /\ intent \in IntentRow /\ intent.revision \in 1..(MaxIntentRevision + 1)
        /\ intent.revision < MaxIntentRevision
    BY DEF HandlersInv, IntentShaped, CodesInv, RevisionBounded, ConfirmReady, RequirePending
  <1>2. intent'.status = "ready" /\ intent'.revision = intent.revision + 1
    BY <1>1 DEF ConfirmReady, IntentRow
  <1>3. RevisionBounded'
    BY <1>1, <1>2, Numbers DEF RevisionBounded
  <1>4. RequestsShaped'
    BY SameRequests, RequestsKept DEF ConfirmReady, CodesInv
  <1>5. SecretsShaped'
    BY <1>2 DEF SecretsShaped, CodesInv, ConfirmReady, Role, Ended
  <1>6. \A r \in Role : slot'[r] = slot[r] /\ slot[r] = "proved"
    BY DEF ConfirmReady
  <1> QED
    BY <1>2, <1>3, <1>4, <1>5, <1>6, StandingCodes DEF ConfirmReady

LEMMA ConfirmControlCodes ==
    ASSUME MutationAssumption, HandlersInv, CodesInv, ConfirmControl
    PROVE  CodesInv'
  <1>1. /\ intent \in IntentRow /\ intent.revision \in 1..(MaxIntentRevision + 1)
        /\ intent.status = "ready" /\ receipt \in [Role -> ReceiptRow]
    BY DEF HandlersInv, IntentShaped, CodesInv, RevisionBounded, ConfirmControl, LiveReady
  <1>2. intent'.status = "completed" /\ intent'.revision = intent.revision + 1
    BY <1>1 DEF ConfirmControl, IntentRow
  <1>3. intent.revision <= MaxIntentRevision
    BY <1>1 DEF CodesInv, RevisionBounded, Live
  <1>4. RevisionBounded'
    BY <1>1, <1>2, <1>3, Numbers DEF RevisionBounded, Live
  <1>5. RequestsShaped'
    BY SameRequests, RequestsKept DEF ConfirmControl, CodesInv
  <1>6. \A r \in Role : receipt'[r].status = "consumed"
    BY <1>1 DEF ConfirmControl, ReceiptRow
  <1>7. SecretsShaped'
    BY <1>6 DEF SecretsShaped, ConfirmControl, Role
  <1>8. \A r \in Role : slot'[r] = slot[r] /\ slot[r] = "proved"
    BY DEF ConfirmControl, LiveReady
  <1> QED
    BY <1>2, <1>4, <1>5, <1>7, <1>8, StandingCodes DEF ConfirmControl

LEMMA IntentStepCodes ==
    ASSUME MutationAssumption, HandlersInv, CodesInv, IntentStep
    PROVE  CodesInv'
  <1>1. CASE ExpireLockedIfNeeded
    BY <1>1, EndCodes, SameRequests DEF ExpireLockedIfNeeded
  <1>2. CASE CancelIntent
    BY <1>2, EndCodes, SameRequests DEF CancelIntent
  <1>3. CASE BindingLimitExceeded
    BY <1>3, EndCodes, SameRequests DEF BindingLimitExceeded, LiveReady, Open, Live
  <1>4. CASE TerminalizeDue
    BY <1>4, EndCodes, SameRequests DEF TerminalizeDue
  <1> QED
    BY <1>1, <1>2, <1>3, <1>4, BindBrowserCodes, ConfirmReadyCodes, ConfirmControlCodes DEF IntentStep

LEMMA ProviderStepCodes ==
    ASSUME MutationAssumption, HandlersInv, CodesInv, NEW r \in Role, ProviderStep(r)
    PROVE  CodesInv'
  <1>1. ASSUME slot[r] \in ProviderSlot PROVE Open /\ intent.status = "pending_proof"
    BY <1>1 DEF HandlersInv, SlotFollows, Open, Live
  <1>2. CASE StartProvider(r)
    <2>1. RequestsShaped'
      BY <1>2, SameRequests, RequestsKept DEF StartProvider, MoveSlot, CodesInv
    <2> QED
      BY <1>2, <2>1, MoveSlotCodes DEF StartProvider, RequirePending
  <1>3. CASE ClaimProviderCallback(r)
    <2>1. Open /\ UNCHANGED <<prepared, accepted>> /\ slot[r] = "provider_authorization_started"
      BY <1>1, <1>3 DEF ClaimProviderCallback, ProviderSlot
    <2>2. CASE SlotAuthority(r)
      <3>1. /\ intent.revision < MaxIntentRevision /\ MoveSlot(r, "provider_exchange_in_progress")
            /\ exchange' = [exchange EXCEPT ![r] = intent.revision + 1] /\ UNCHANGED challenge
        BY <1>3, <2>2 DEF ClaimProviderCallback
      <3>2. Remembered(exchange, exchange') /\ Remembered(prepared, prepared') /\ Remembered(accepted, accepted')
        BY <2>1, <3>1, RevisionsInRange DEF Remembered
      <3>3. RequestsShaped'
        BY <3>1, <3>2, RequestsKept DEF MoveSlot, CodesInv
      <3> QED
        BY <2>1, <3>1, <3>3, MoveSlotCodes
    <2>3. CASE ~SlotAuthority(r)
      <3>1. Terminalize("cancelled", challenge) /\ UNCHANGED exchange
        BY <1>3, <2>3 DEF ClaimProviderCallback
      <3> QED
        BY <2>1, <3>1, EndCodes DEF Remembered
    <2> QED
      BY <2>2, <2>3
  <1>4. CASE DenyProviderCallback(r)
    BY <1>1, <1>4, EndCodes, SameRequests DEF DenyProviderCallback, ProviderSlot
  <1>5. CASE CompleteProviderCallback(r)
    <2>1. Remembered(exchange, exchange') /\ Remembered(prepared, prepared') /\ Remembered(accepted, accepted')
      BY <1>5, RevisionsInRange DEF Remembered, CompleteProviderCallback
    <2>2. RequestsShaped'
      BY <1>5, <2>1, RequestsKept DEF CompleteProviderCallback, ProveSlot, CodesInv
    <2> QED
      BY <1>5, <2>2, ProveByProvider DEF CompleteProviderCallback
  <1>6. CASE FailProviderCallback(r)
    <2>1. Remembered(exchange, exchange') /\ Remembered(prepared, prepared') /\ Remembered(accepted, accepted')
      BY <1>6, RevisionsInRange DEF Remembered, FailProviderCallback
    <2>2. CASE Open /\ Terminalize("expired", challenge)
      BY <2>1, <2>2, EndCodes
    <2>3. CASE slot[r] = "provider_exchange_in_progress" /\ Terminalize("cancelled", challenge)
      BY <1>1, <2>1, <2>3, EndCodes DEF ProviderSlot
    <2>4. CASE UNCHANGED <<controlVars, kind, method, intent, slot, receipt, challenge, evidence, created>>
      <3>1. RequestsShaped'
        BY <2>1, <2>4, RequestsKept DEF CodesInv
      <3> QED
        BY <2>4, <3>1, UntouchedCodes
    <2> QED
      BY <1>6, <2>2, <2>3, <2>4 DEF FailProviderCallback
  <1> QED
    BY <1>2, <1>3, <1>4, <1>5, <1>6 DEF ProviderStep

LEMMA EmailStepCodes ==
    ASSUME MutationAssumption, HandlersInv, CodesInv, NEW r \in Role, EmailStep(r)
    PROVE  CodesInv'
  <1>1. CASE BeginEmail(r)
    <2>1. RequestsShaped'
      BY <1>1, SameRequests, RequestsKept DEF BeginEmail, MoveSlot, CodesInv
    <2> QED
      BY <1>1, <2>1, MoveSlotCodes DEF BeginEmail, RequirePending
  <1>2. CASE PrepareEmailGeneration(r)
    <2>1. Remembered(exchange, exchange') /\ Remembered(prepared, prepared') /\ Remembered(accepted, accepted')
      BY <1>2, RevisionsInRange DEF Remembered, PrepareEmailGeneration
    <2>2. RequestsShaped'
      BY <1>2, <2>1, RequestsKept DEF PrepareEmailGeneration, CodesInv
    <2> QED
      BY <1>2, <2>2, UntouchedCodes DEF PrepareEmailGeneration
  <1>3. CASE ChallengeTimedOut(r)
    BY <1>3, EndCodes, SameRequests DEF ChallengeTimedOut, Open, Live
  <1>4. CASE VerifyEmailProof(r)
    <2>1. Remembered(exchange, exchange') /\ Remembered(prepared, prepared') /\ Remembered(accepted, accepted')
      BY <1>4, RevisionsInRange DEF Remembered, VerifyEmailProof
    <2>2. RequestsShaped'
      BY <1>4, <2>1, RequestsKept DEF VerifyEmailProof, CodesInv
    <2> QED
      BY <1>4, <2>2, UntouchedCodes DEF VerifyEmailProof
  <1> QED
    BY <1>1, <1>2, <1>3, <1>4, CommitCodes, WrongCodeCodes, CompleteEmailProofCodes, MailCodes
    DEF EmailStep, NewCode

LEMMA CodesStep ==
    ASSUME MutationAssumption, HandlersInv, CodesInv, [MutationNext]_mutationAll
    PROVE  CodesInv'
  <1>1. ASSUME NEW r \in Role, LoseRequest(r) PROVE CodesInv'
    <2>1. Remembered(exchange, exchange') /\ Remembered(prepared, prepared') /\ Remembered(accepted, accepted')
      BY <1>1, RevisionsInRange DEF Remembered, LoseRequest
    <2>2. RequestsShaped'
      BY <1>1, <2>1, RequestsKept DEF LoseRequest, CodesInv
    <2> QED
      BY <1>1, <2>2, UntouchedCodes DEF LoseRequest
  <1>2. CASE UNCHANGED mutationVars
    <2>1. RequestsShaped'
      BY <1>2 DEF mutationVars, RequestsShaped, CodesInv, Role
    <2> QED
      BY <1>2, <2>1, UntouchedCodes DEF mutationVars
  <1> QED
    BY <1>1, <1>2, IntentStepCodes, ProviderStepCodes, EmailStepCodes DEF MutationNext, mutationAll

\* At every commit the codes of a slot are where the deferred trigger of the schema wants
\* them, and whatever ended leaves no code, receipt, evidence or token behind, whichever
\* handler, sweep or refusal ended it.
THEOREM HandlersAreSafe == ASSUME MutationAssumption PROVE MutationSpec => []MutationSafe
  <1>1. MutationInit => CodesInv
    BY CodesInit
  <1>2. HandlersInv /\ CodesInv /\ [MutationNext]_mutationAll => CodesInv'
    BY CodesStep
  <1>3. HandlersInv /\ CodesInv => MutationSafe
    <2> SUFFICES ASSUME HandlersInv, CodesInv PROVE MutationSafe
      OBVIOUS
    <2>1. intent \in [status : Live \cup Ended, revision : 1..(MaxIntentRevision + 1),
                      bound : BOOLEAN, expires : Nat, ended : Nat]
      BY DEF HandlersInv, IntentShaped, IntentRow, CodesInv, RevisionBounded
    <2>2. MutationTypeOK
      BY <2>1, ChallengeFunction DEF MutationTypeOK, HandlersInv, IntentShaped, CodesInv, RequestsShaped,
             SecretsShaped
    <2>3. ChallengeFollowsSlot
      BY DEF CodesInv, CodeFollows, ChallengeFollowsSlot
    <2>4. NothingLeftBehind
      <3>1. ASSUME intent.status \in Ended, NEW r \in Role, NEW g \in Generation
            PROVE  challenge[r][g].status # "pending"
        BY <3>1 DEF CodesInv, CodeFollows, Ended
      <3> QED
        BY <3>1 DEF NothingLeftBehind, CodesInv, SecretsShaped
    <2> QED
      BY <2>2, <2>3, <2>4 DEF MutationSafe
  <1> QED
    BY <1>1, <1>2, <1>3, HandlersInvariant, PTL DEF MutationSpec

-----------------------------------------------------------------------------
(* The graph of users and identities *)

\* What the proofs use of the constants.
LEMMA GraphConstants ==
    ASSUME GraphAssumption
    PROVE  /\ None \notin Users /\ None \notin Idents
           /\ IsFiniteSet(Idents) /\ IsFiniteSet(Apps)
           /\ MaxBindings \in Nat /\ MaxGraphRevision \in Nat /\ MaxGraphRevision > 0
  BY DEF GraphAssumption

-----------------------------------------------------------------------------
(* Users, identities and tokens: the inductive invariant *)

UserRow == [status : {"none", "active", "disabled", "merged"},
            revision : 0..MaxGraphRevision, security : 0..MaxGraphRevision,
            primary : Idents \cup {None}, into : Users \cup {None}]
IdentityRow == [owner : Users \cup {None}, status : {"none", "active", "disabled"},
                revision : 0..MaxGraphRevision]
TokenRow == [state : {"none", "ticket", "session", "revoked"}, user : Users \cup {None},
             identity : Idents \cup {None}, security : 0..MaxGraphRevision, app : Apps \cup {None}]

UsersShaped == user \in [Users -> UserRow]

\* A row that exists has an owner.
IdentitiesShaped ==
    /\ identity \in [Idents -> IdentityRow]
    /\ \A i \in Idents : identity[i].status = "none" <=> identity[i].owner = None

BindingsShaped == binding \in [Users -> SUBSET Apps]

\* A token that is alive names a user, an identity and an application.
TokensShaped ==
    /\ token \in [Tokens -> TokenRow]
    /\ \A s \in Tokens : LiveToken(s) =>
          token[s].user \in Users /\ token[s].identity \in Idents /\ token[s].app \in Apps

SigningShaped == signing \in [Tokens -> [revision : 0..MaxGraphRevision, security : 0..MaxGraphRevision]]

\* What the creation of a mutation froze: its users, the identity it removes
\* and the source it names, each with the owner it had.
FrozenFits(m) ==
    /\ m.target \in Users /\ m.target \in DOMAIN m.users
    /\ m.kind = "link" => m.subject \in Idents
    /\ m.kind = "unlink" =>
          /\ m.subject \in Idents /\ m.subject \in DOMAIN m.identities
          /\ m.identities[m.subject].owner = m.target
          /\ m.source \in Sources
          /\ m.source \in Idents =>
                m.source \in DOMAIN m.identities /\ m.identities[m.source].owner = m.target
    /\ m.kind = "merge" =>
          /\ m.loser \in Users /\ m.loser \in DOMAIN m.users /\ m.loser # m.target
          /\ m.source \in Idents /\ m.source \in DOMAIN m.identities
          /\ m.identities[m.source].owner \in {m.target, m.loser}

IntentsShaped ==
    /\ mutation = [k \in Intents |-> mutation[k]]
    /\ \A k \in Intents :
          /\ "status" \in DOMAIN mutation[k]
          /\ mutation[k].status \in {"none", "ready", "completed", "cancelled"}
          /\ mutation[k].status = "ready" => FrozenFits(mutation[k])

GraphShaped ==
    UsersShaped /\ IdentitiesShaped /\ BindingsShaped /\ TokensShaped /\ SigningShaped /\ IntentsShaped

\* What a step on the rows of the graph has to keep.
GraphSound ==
    /\ EveryUserReachable /\ PrimaryIsOwned /\ MergedUsersOwnNothing
    /\ TokensFollowIdentities /\ BindingsBounded

GraphInv == GraphShaped /\ GraphSound

LEMMA GraphInitEstablishes ==
    ASSUME GraphAssumption, GraphInit
    PROVE  GraphInv
  <1> USE GraphConstants
  <1>1. \A u \in Users :
           \/ user[u] = NoUser /\ \A i \in Idents : identity[i].owner # u
           \/ \E i \in Idents : user[u] = NewUser(i) /\ identity[i] = NewIdentity(u)
    <2> SUFFICES ASSUME NEW u \in Users
                 PROVE  \/ user[u] = NoUser /\ \A i \in Idents : identity[i].owner # u
                        \/ \E i \in Idents : user[u] = NewUser(i) /\ identity[i] = NewIdentity(u)
      OBVIOUS
    <2>1. CASE \E i \in DOMAIN Registered : Registered[i] = u
      <3>1. user[u].primary \in Owned(u)
        BY <2>1 DEF GraphInit
      <3>2. user[u] = NoUser \/ \E i \in DOMAIN Registered : user[u] = NewUser(i)
        BY DEF GraphInit
      <3>3. user[u] # NoUser
        BY <3>1 DEF Owned, NoUser
      <3>4. PICK i \in DOMAIN Registered : user[u] = NewUser(i)
        BY <3>2, <3>3
      <3>5. i \in Idents /\ identity[i].owner = u
        BY <3>1, <3>4 DEF Owned, NewUser
      <3>6. identity[i] = NewIdentity(Registered[i])
        BY <3>5 DEF GraphInit
      <3>7. identity[i] = NewIdentity(u)
        BY <3>5, <3>6 DEF NewIdentity
      <3> QED
        BY <3>4, <3>5, <3>7
    <2>2. CASE ~\E i \in DOMAIN Registered : Registered[i] = u
      <3>1. user[u] = NoUser
        BY <2>2 DEF GraphInit
      <3>2. \A i \in Idents : identity[i].owner # u
        BY <2>2 DEF GraphInit, NewIdentity, NoIdentity
      <3> QED
        BY <3>1, <3>2
    <2> QED
      BY <2>1, <2>2
  <1>11. \A u \in Users :
            /\ user[u] \in UserRow
            /\ user[u].status = "none" => user[u].primary = None
            /\ user[u].status # "none" =>
                  user[u].status = "active" /\ user[u].primary \in ActiveIdentities(u)
    <2> SUFFICES ASSUME NEW u \in Users
                 PROVE  /\ user[u] \in UserRow
                        /\ user[u].status = "none" => user[u].primary = None
                        /\ user[u].status # "none" =>
                              user[u].status = "active" /\ user[u].primary \in ActiveIdentities(u)
      OBVIOUS
    <2>1. CASE user[u] = NoUser
      BY <2>1 DEF NoUser, UserRow
    <2>2. ASSUME NEW i \in Idents, user[u] = NewUser(i), identity[i] = NewIdentity(u)
          PROVE  /\ user[u] \in UserRow /\ user[u].status = "active"
                 /\ user[u].primary \in ActiveIdentities(u)
      BY <2>2 DEF NewUser, NewIdentity, UserRow, ActiveIdentities, Owned
    <2> QED
      BY <1>1, <2>1, <2>2
  <1>2. UsersShaped
    <2>1. user = [u \in Users |-> user[u]]
      BY DEF GraphInit
    <2> QED
      BY <1>11, <2>1 DEF UsersShaped
  <1>3. IdentitiesShaped
    BY DEF GraphInit, GraphAssumption, IdentitiesShaped, IdentityRow, NewIdentity, NoIdentity
  <1>4. BindingsShaped /\ SigningShaped
    BY DEF GraphInit, BindingsShaped, SigningShaped, Idle
  <1>5. TokensShaped /\ TokensFollowIdentities
    BY DEF GraphInit, TokensShaped, TokenRow, NoToken, LiveToken, TokensFollowIdentities
  <1>6. IntentsShaped
    BY DEF GraphInit, IntentsShaped, NoIntent
  <1>7. EveryUserReachable
    BY <1>11 DEF EveryUserReachable
  <1>8. PrimaryIsOwned
    BY <1>11 DEF PrimaryIsOwned, ActiveIdentities
  <1>9. MergedUsersOwnNothing
    BY <1>11 DEF MergedUsersOwnNothing
  <1>10. BindingsBounded
    BY FS_EmptySet DEF GraphInit, BindingsBounded
  <1> QED
    BY <1>2, <1>3, <1>4, <1>5, <1>6, <1>7, <1>8, <1>9, <1>10 DEF GraphInv, GraphShaped, GraphSound

-----------------------------------------------------------------------------
(* Steps on the rows beside the graph *)

\* A step that leaves users, identities, bindings and tokens alone.
LEMMA RowsAlone ==
    ASSUME GraphInv, UNCHANGED <<user, identity, binding, token>>, SigningShaped', IntentsShaped'
    PROVE  GraphInv'
  BY DEF GraphInv, GraphShaped, GraphSound, UsersShaped, IdentitiesShaped, BindingsShaped, TokensShaped,
         EveryUserReachable, PrimaryIsOwned, MergedUsersOwnNothing, TokensFollowIdentities,
         BindingsBounded, ActiveIdentities, Owned, Alive, LiveToken

LEMMA SigningKept ==
    ASSUME SigningShaped, signing' = signing
    PROVE  SigningShaped'
  BY DEF SigningShaped

LEMMA IntentsKept ==
    ASSUME IntentsShaped, mutation' = mutation
    PROVE  IntentsShaped'
  BY DEF IntentsShaped, FrozenFits, Sources

LEMMA IntentClosed ==
    ASSUME IntentsShaped, NEW k \in Intents, NEW status \in {"completed", "cancelled"}, Complete(k, status)
    PROVE  IntentsShaped'
  <1>1. mutation' = [j \in Intents |-> IF j = k THEN [mutation[k] EXCEPT !.status = status] ELSE mutation[j]]
    BY DEF IntentsShaped, Complete
  <1>2. \A j \in Intents : j # k => mutation'[j] = mutation[j]
    BY <1>1
  <1>3. "status" \in DOMAIN mutation'[k] /\ mutation'[k].status = status
    BY <1>1 DEF IntentsShaped
  <1>4. mutation' = [j \in Intents |-> mutation'[j]]
    BY <1>1
  <1>5. ASSUME NEW j \in Intents
        PROVE  /\ "status" \in DOMAIN mutation'[j]
               /\ mutation'[j].status \in {"none", "ready", "completed", "cancelled"}
               /\ mutation'[j].status = "ready" => FrozenFits(mutation'[j])
    BY <1>2, <1>3 DEF IntentsShaped
  <1> QED
    BY <1>4, <1>5 DEF IntentsShaped, FrozenFits, Sources

LEMMA SigningStepKeeps ==
    ASSUME GraphAssumption, GraphInv, NEW s \in Tokens, PrepareSigning(s) \/ AbandonSigning(s)
    PROVE  GraphInv'
  <1> USE DEF GraphInv, GraphShaped
  <1>1. CASE PrepareSigning(s)
    <2>1. token[s].user \in Users
      BY <1>1 DEF PrepareSigning, TokensShaped
    <2>2. user[token[s].user].revision \in 0..MaxGraphRevision /\ user[token[s].user].security \in 0..MaxGraphRevision
      BY <2>1 DEF UsersShaped, UserRow
    <2>3. SigningShaped'
      BY <1>1, <2>2 DEF PrepareSigning, SigningShaped
    <2> QED
      BY <1>1, <2>3, RowsAlone, IntentsKept DEF PrepareSigning
  <1>2. CASE AbandonSigning(s)
    <2>1. SigningShaped'
      <3>1. Idle \in [revision : 0..MaxGraphRevision, security : 0..MaxGraphRevision]
        BY GraphConstants DEF Idle
      <3> QED
        BY <1>2, <3>1 DEF AbandonSigning, SigningShaped
    <2> QED
      BY <1>2, <2>1, RowsAlone, IntentsKept DEF AbandonSigning
  <1> QED
    BY <1>1, <1>2

LEMMA ClosingKeeps ==
    ASSUME GraphInv, NEW k \in Intents, CancelOverLimit(k) \/ CloseIntent(k)
    PROVE  GraphInv'
  BY IntentClosed, RowsAlone, SigningKept DEF CancelOverLimit, CloseIntent, GraphInv, GraphShaped

\* What an open intent froze is what its users and identities were.
LEMMA OpenFits ==
    ASSUME IntentsShaped, NEW k \in Intents, NEW asked, NEW target \in Users, NEW loser, NEW subject,
           NEW source, NEW proofs \in SUBSET Idents, None \notin Users,
           OpenIntent(k, asked, target, loser, subject, source, proofs),
           asked = "link" => subject \in Idents,
           asked = "unlink" =>
              /\ subject \in proofs /\ identity[subject].owner = target /\ source \in Sources
              /\ source \in Idents => identity[source].owner = target,
           asked = "merge" =>
              /\ loser \in Users /\ loser # target
              /\ source \in Idents /\ identity[source].owner \in {target, loser}
    PROVE  IntentsShaped'
  <1> DEFINE new == [status |-> "ready", kind |-> asked, target |-> target, loser |-> loser,
                     subject |-> subject, source |-> source,
                     users |-> FrozenUsers({target, loser} \ {None}),
                     identities |-> FrozenIdentities(proofs \cup ({source} \cap Idents))]
  <1>1. mutation' = [j \in Intents |-> IF j = k THEN new ELSE mutation[j]]
    BY DEF IntentsShaped, OpenIntent
  <1>2. "status" \in DOMAIN new /\ new.status = "ready"
    OBVIOUS
  <1>3. target \in DOMAIN new.users /\ (loser \in Users => loser \in DOMAIN new.users)
    BY DEF FrozenUsers
  <1>4. \A i \in proofs \cup ({source} \cap Idents) :
           i \in DOMAIN new.identities /\ new.identities[i].owner = identity[i].owner
    BY DEF FrozenIdentities
  <1>5. FrozenFits(new)
    <2>1. new.kind = asked /\ new.target = target /\ new.loser = loser /\ new.subject = subject
          /\ new.source = source
      OBVIOUS
    <2> HIDE DEF new
    <2> QED
      BY <1>3, <1>4, <2>1 DEF FrozenFits
  <1> HIDE DEF new
  <1>6. mutation' = [j \in Intents |-> mutation'[j]]
    BY <1>1
  <1>7. ASSUME NEW j \in Intents
        PROVE  /\ "status" \in DOMAIN mutation'[j]
               /\ mutation'[j].status \in {"none", "ready", "completed", "cancelled"}
               /\ mutation'[j].status = "ready" => FrozenFits(mutation'[j])
    BY <1>1, <1>2, <1>5 DEF IntentsShaped
  <1> QED
    BY <1>6, <1>7 DEF IntentsShaped, FrozenFits, Sources

LEMMA CreateKeeps ==
    ASSUME GraphAssumption, GraphInv, CreateStep
    PROVE  GraphInv'
  <1> USE GraphConstants DEF GraphInv, GraphShaped
  <1>1. PICK k \in Intents, u \in Users, i \in Idents :
           \/ \E candidate \in Idents : CreateLink(k, u, i, candidate)
           \/ \E source \in Sources : CreateUnlink(k, u, i, source)
           \/ \E l \in Users, j, source \in Idents : CreateMerge(k, u, l, i, j, source)
    BY DEF CreateStep, Owned
  <1>2. ASSUME NEW candidate \in Idents, CreateLink(k, u, i, candidate)
        PROVE  GraphInv'
    <2>1. IntentsShaped'
      BY <1>2, OpenFits DEF CreateLink
    <2> QED
      BY <1>2, <2>1, RowsAlone, SigningKept DEF CreateLink
  <1>3. ASSUME NEW source \in Sources, CreateUnlink(k, u, i, source)
        PROVE  GraphInv'
    <2>1. identity[i].owner = u /\ (source \in Idents => identity[source].owner = u)
      BY <1>3 DEF CreateUnlink, SlotAdmitted, SourceAdmitted, ActiveIdentities, Owned
    <2>2. IntentsShaped'
      BY <1>3, <2>1, OpenFits DEF CreateUnlink
    <2> QED
      BY <1>3, <2>2, RowsAlone, SigningKept DEF CreateUnlink
  <1>4. ASSUME NEW l \in Users, NEW j \in Idents, NEW source \in Idents, CreateMerge(k, u, l, i, j, source)
        PROVE  GraphInv'
    <2>1. identity[source].owner \in {u, l} /\ l # u
      BY <1>4 DEF CreateMerge, SourceAdmitted, ActiveIdentities, Owned
    <2>2. IntentsShaped'
      BY <1>4, <2>1, OpenFits DEF CreateMerge
    <2> QED
      BY <1>4, <2>2, RowsAlone, SigningKept DEF CreateMerge
  <1> QED
    BY <1>1, <1>2, <1>3, <1>4

-----------------------------------------------------------------------------
(* Logins, exchanges and lifecycle commands *)

LEMMA IssuedTo ==
    ASSUME TokensShaped, NEW s \in Tokens, NEW u \in Users, NEW i \in Idents, NEW a \in Apps,
           NEW security \in 0..MaxGraphRevision, IssueTo(s, u, i, a, security)
    PROVE  /\ TokensShaped'
           /\ \A r \in Tokens : IF r = s THEN token'[r].user = u /\ token'[r].identity = i
                                ELSE token'[r] = token[r]
  <1> DEFINE new == [state |-> "ticket", user |-> u, identity |-> i, security |-> security, app |-> a]
  <1>1. new \in TokenRow /\ new.user = u /\ new.identity = i /\ new.app = a
    BY DEF TokenRow
  <1>2. token' = [token EXCEPT ![s] = new]
    BY DEF IssueTo
  <1> HIDE DEF new
  <1> QED
    BY <1>1, <1>2 DEF TokensShaped, LiveToken

\* A new identity is nobody else's, and takes none away.
LEMMA IdentityAdded ==
    ASSUME GraphAssumption, IdentitiesShaped, NEW i \in Idents, NEW u \in Users,
           identity[i].status = "none", identity' = [identity EXCEPT ![i] = NewIdentity(u)]
    PROVE  /\ IdentitiesShaped'
           /\ \A j \in Idents : identity[j].owner # None => identity'[j] = identity[j]
           /\ i \in ActiveIdentities(u)'
           /\ \A v \in Users : /\ Owned(v) \subseteq Owned(v)'
                               /\ ActiveIdentities(v) \subseteq ActiveIdentities(v)'
                               /\ v # u => Owned(v)' = Owned(v)
  <1> USE GraphConstants
  <1>1. NewIdentity(u) \in IdentityRow /\ NewIdentity(u).owner = u /\ NewIdentity(u).status = "active"
    BY DEF NewIdentity, IdentityRow
  <1>2. identity[i].owner = None
    BY DEF IdentitiesShaped
  <1>3. \A j \in Idents : identity'[j] = IF j = i THEN NewIdentity(u) ELSE identity[j]
    BY DEF IdentitiesShaped
  <1>4. IdentitiesShaped'
    BY <1>1, <1>3 DEF IdentitiesShaped
  <1>5. \A v \in Users : /\ Owned(v) \subseteq Owned(v)'
                         /\ ActiveIdentities(v) \subseteq ActiveIdentities(v)'
                         /\ v # u => Owned(v)' = Owned(v)
    BY <1>1, <1>2, <1>3 DEF Owned, ActiveIdentities
  <1>6. i \in ActiveIdentities(u)'
    BY <1>1, <1>3 DEF Owned, ActiveIdentities
  <1> QED
    BY <1>2, <1>3, <1>4, <1>5, <1>6

LEMMA SignUpKeeps ==
    ASSUME GraphAssumption, GraphInv, NEW i \in Idents, NEW u \in Users, NEW s \in Tokens, NEW a \in Apps,
           SignUp(i, u, s, a)
    PROVE  GraphInv'
  <1> USE GraphConstants DEF GraphInv, GraphShaped
  <1>1. NewUser(i) \in UserRow /\ NewUser(i).status = "active" /\ NewUser(i).primary = i
    BY DEF NewUser, UserRow
  <1>2. \A v \in Users : user'[v] = IF v = u THEN NewUser(i) ELSE user[v]
    BY DEF SignUp, UsersShaped
  <1>3. UsersShaped'
    BY <1>1 DEF SignUp, UsersShaped
  <1>4. /\ IdentitiesShaped'
        /\ \A j \in Idents : identity[j].owner # None => identity'[j] = identity[j]
        /\ i \in ActiveIdentities(u)'
        /\ \A v \in Users : /\ Owned(v) \subseteq Owned(v)'
                            /\ ActiveIdentities(v) \subseteq ActiveIdentities(v)'
                            /\ v # u => Owned(v)' = Owned(v)
    BY IdentityAdded DEF SignUp
  <1>5. /\ TokensShaped'
        /\ \A r \in Tokens : IF r = s THEN token'[r].user = u /\ token'[r].identity = i
                             ELSE token'[r] = token[r]
    BY IssuedTo DEF SignUp
  <1>6. BindingsShaped' /\ SigningShaped' /\ IntentsShaped' /\ BindingsBounded'
    BY IntentsKept DEF SignUp, BindingsShaped, SigningShaped, BindingsBounded, GraphSound
  <1>7. EveryUserReachable'
    BY <1>2, <1>4 DEF EveryUserReachable, GraphSound
  <1>8. PrimaryIsOwned'
    BY <1>1, <1>2, <1>4 DEF PrimaryIsOwned, GraphSound, ActiveIdentities
  <1>9. MergedUsersOwnNothing'
    <2> SUFFICES ASSUME NEW l \in Users, user'[l].status = "merged"
                 PROVE  /\ Owned(l)' = {} /\ binding'[l] = {}
                        /\ \A r \in Tokens : token'[r].user = l => ~LiveToken(r)'
                        /\ user'[l].into # None /\ Alive(user[l].into)'
      BY DEF MergedUsersOwnNothing, Alive
    <2>1. l # u /\ user'[l] = user[l]
      BY <1>1, <1>2
    <2>2. user[l].into \in Users /\ Alive(user[l].into)
      BY <2>1 DEF MergedUsersOwnNothing, GraphSound, UsersShaped, UserRow
    <2>3. \A r \in Tokens : token'[r].user = l => ~LiveToken(r)'
      BY <1>5, <2>1 DEF MergedUsersOwnNothing, GraphSound, LiveToken
    <2> QED
      BY <1>1, <1>2, <1>4, <2>1, <2>2, <2>3 DEF MergedUsersOwnNothing, GraphSound, SignUp, Alive
  <1>10. TokensFollowIdentities'
    <2> SUFFICES ASSUME NEW r \in Tokens, LiveToken(r)'
                 PROVE  identity'[token'[r].identity].owner = token'[r].user
      BY DEF TokensFollowIdentities
    <2>1. CASE r = s
      BY <1>4, <1>5, <2>1 DEF ActiveIdentities, Owned
    <2>2. CASE r # s
      <3>1. LiveToken(r) /\ token'[r] = token[r]
        BY <1>5, <2>2 DEF LiveToken
      <3>2. token[r].identity \in Idents /\ identity[token[r].identity].owner = token[r].user
            /\ token[r].user \in Users
        BY <3>1 DEF TokensShaped, TokensFollowIdentities, GraphSound
      <3> QED
        BY <1>4, <3>1, <3>2
    <2> QED
      BY <2>1, <2>2
  <1> QED
    BY <1>3, <1>4, <1>5, <1>6, <1>7, <1>8, <1>9, <1>10 DEF GraphSound

\* Rows that change their revisions only keep what the invariant says of them.
LEMMA RevisionsMoved ==
    ASSUME GraphInv, UsersShaped', IdentitiesShaped',
           \A v \in Users : /\ user'[v].status = user[v].status /\ user'[v].primary = user[v].primary
                            /\ user'[v].into = user[v].into,
           \A j \in Idents : /\ identity'[j].owner = identity[j].owner
                             /\ identity'[j].status = identity[j].status
    PROVE  /\ EveryUserReachable' /\ PrimaryIsOwned'
           /\ \A l \in Users : user'[l].status = "merged" =>
                 /\ Owned(l)' = {} /\ user'[l].into # None /\ Alive(user[l].into)'
                 /\ binding[l] = {} /\ \A s \in Tokens : token[s].user = l => ~LiveToken(s)
  <1> USE DEF GraphInv, GraphShaped, GraphSound
  <1>1. \A v \in Users : Owned(v)' = Owned(v) /\ ActiveIdentities(v)' = ActiveIdentities(v)
    BY DEF Owned, ActiveIdentities
  <1>2. EveryUserReachable' /\ PrimaryIsOwned'
    BY <1>1 DEF EveryUserReachable, PrimaryIsOwned
  <1>3. ASSUME NEW l \in Users, user'[l].status = "merged"
        PROVE  /\ Owned(l)' = {} /\ user'[l].into # None /\ Alive(user[l].into)'
               /\ binding[l] = {} /\ \A s \in Tokens : token[s].user = l => ~LiveToken(s)
    <2>1. user[l].into \in Users /\ Alive(user[l].into)
      BY <1>3 DEF MergedUsersOwnNothing, UsersShaped, UserRow
    <2> QED
      BY <1>1, <1>3, <2>1 DEF MergedUsersOwnNothing, Alive
  <1> QED
    BY <1>2, <1>3

LEMMA LoginKeeps ==
    ASSUME GraphAssumption, GraphInv, NEW i \in Idents, NEW s \in Tokens, NEW a \in Apps,
           NEW changed \in BOOLEAN, Login(i, s, a, changed)
    PROVE  GraphInv'
  <1> USE GraphConstants DEF GraphInv, GraphShaped
  <1> DEFINE u == identity[i].owner
  <1>1. u \in Users /\ identity[i].status = "active" /\ Alive(u)
    BY DEF Login, IdentitiesShaped, IdentityRow
  <1>2. identity[i] \in IdentityRow /\ user[u] \in UserRow
    BY <1>1 DEF IdentitiesShaped, UsersShaped
  <1>3. user[u].security \in 0..MaxGraphRevision
    BY <1>2 DEF UserRow
  <1>4. /\ IdentitiesShaped'
        /\ \A j \in Idents : /\ identity'[j].owner = identity[j].owner
                             /\ identity'[j].status = identity[j].status
    <2>1. identity' = [identity EXCEPT ![i].revision = IF changed THEN @ + 1 ELSE @]
      BY DEF Login
    <2>2. changed => identity[i].revision < MaxGraphRevision
      BY DEF Login
    <2>3. [identity[i] EXCEPT !.revision = IF changed THEN identity[i].revision + 1
                                           ELSE identity[i].revision] \in IdentityRow
      BY <1>2, <2>2 DEF IdentityRow
    <2> QED
      BY <2>1, <2>3 DEF IdentitiesShaped, IdentityRow
  <1>5. /\ UsersShaped'
        /\ \A v \in Users : /\ user'[v].status = user[v].status /\ user'[v].primary = user[v].primary
                            /\ user'[v].into = user[v].into
    <2> DEFINE moved == changed /\ user[u].primary = i
    <2>1. user' = [user EXCEPT ![u].revision = IF moved THEN @ + 1 ELSE @]
      BY DEF Login
    <2>2. moved => user[u].revision < MaxGraphRevision
      BY DEF Login
    <2> HIDE DEF moved, u
    <2>3. [user[u] EXCEPT !.revision = IF moved THEN user[u].revision + 1
                                       ELSE user[u].revision] \in UserRow
      BY <1>2, <2>2 DEF UserRow
    <2> QED
      BY <1>1, <2>1, <2>3 DEF UsersShaped, UserRow
  <1>6. /\ TokensShaped'
        /\ \A r \in Tokens : IF r = s THEN token'[r].user = u /\ token'[r].identity = i
                             ELSE token'[r] = token[r]
    BY <1>1, <1>3, IssuedTo DEF Login
  <1>7. BindingsShaped' /\ SigningShaped' /\ IntentsShaped' /\ BindingsBounded' /\ binding' = binding
    BY IntentsKept DEF Login, BindingsShaped, SigningShaped, BindingsBounded, GraphSound
  <1>8. /\ EveryUserReachable' /\ PrimaryIsOwned'
        /\ \A l \in Users : user'[l].status = "merged" =>
              /\ Owned(l)' = {} /\ user'[l].into # None /\ Alive(user[l].into)'
              /\ binding[l] = {} /\ \A r \in Tokens : token[r].user = l => ~LiveToken(r)
    BY <1>4, <1>5, RevisionsMoved
  <1>9. MergedUsersOwnNothing'
    <2> HIDE DEF u
    <2> SUFFICES ASSUME NEW l \in Users, user'[l].status = "merged"
                 PROVE  \A r \in Tokens : token'[r].user = l => ~LiveToken(r)'
      BY <1>7, <1>8 DEF MergedUsersOwnNothing
    <2>1. l # u
      BY <1>1, <1>5 DEF Alive
    <2> QED
      BY <1>6, <1>8, <2>1 DEF LiveToken
  <1>10. TokensFollowIdentities'
    <2> HIDE DEF u
    <2> SUFFICES ASSUME NEW r \in Tokens, LiveToken(r)'
                 PROVE  identity'[token'[r].identity].owner = token'[r].user
      BY DEF TokensFollowIdentities
    <2>1. CASE r = s
      BY <1>4, <1>6, <2>1 DEF u
    <2>2. CASE r # s
      <3>1. LiveToken(r) /\ token'[r] = token[r]
        BY <1>6, <2>2 DEF LiveToken
      <3> QED
        BY <1>4, <3>1 DEF TokensShaped, TokensFollowIdentities, GraphSound
    <2> QED
      BY <2>1, <2>2
  <1> QED
    BY <1>4, <1>5, <1>6, <1>7, <1>8, <1>9, <1>10 DEF GraphSound

\* What Bumped and the merge make of a row.
LEMMA BumpedRow ==
    ASSUME MaxGraphRevision \in Nat, NEW r \in UserRow, r.revision < MaxGraphRevision, r.security < MaxGraphRevision,
           NEW status \in {"none", "active", "disabled", "merged"}
    PROVE  /\ Bumped(r, status) \in UserRow
           /\ Bumped(r, status).status = status
           /\ Bumped(r, status).primary = r.primary
           /\ Bumped(r, status).into = r.into
  <1> DEFINE a == [r EXCEPT !.status = status]
             b == [a EXCEPT !.revision = r.revision + 1]
             c == [b EXCEPT !.security = r.security + 1]
  <1>1. a \in UserRow /\ a.status = status /\ a.primary = r.primary /\ a.into = r.into
    BY DEF UserRow
  <1> HIDE DEF a
  <1>2. b \in UserRow /\ b.status = status /\ b.primary = r.primary /\ b.into = r.into
    BY <1>1 DEF UserRow
  <1> HIDE DEF b
  <1>3. c \in UserRow /\ c.status = status /\ c.primary = r.primary /\ c.into = r.into
    BY <1>2 DEF UserRow
  <1>4. Bumped(r, status) = c
    BY DEF Bumped, a, b, c, UserRow
  <1> QED
    BY <1>3, <1>4

LEMMA LifecycleKeeps ==
    ASSUME GraphAssumption, GraphInv, NEW u \in Users, DisableUser(u) \/ EnableUser(u)
    PROVE  GraphInv'
  <1> USE GraphConstants DEF GraphInv, GraphShaped
  <1>1. PICK status \in {"active", "disabled"} :
           /\ user' = [user EXCEPT ![u] = Bumped(@, status)] /\ Bumpable(u)
           /\ user[u].status \in {"active", "disabled"}
           /\ status = "disabled" => ~WinsAMerge(u)
    BY DEF DisableUser, EnableUser, Alive
  <1>2. UNCHANGED <<identity, binding, token, signing, mutation>>
    BY DEF DisableUser, EnableUser
  <1>3. user[u] \in UserRow
    BY DEF UsersShaped
  <1>4. /\ Bumped(user[u], status) \in UserRow
        /\ Bumped(user[u], status).status = status
        /\ Bumped(user[u], status).primary = user[u].primary
        /\ Bumped(user[u], status).into = user[u].into
    BY <1>1, <1>3, BumpedRow DEF Bumpable
  <1>5. \A v \in Users : user'[v] = IF v = u THEN Bumped(user[u], status) ELSE user[v]
    BY <1>1 DEF UsersShaped
  <1>6. UsersShaped'
    BY <1>1, <1>4 DEF UsersShaped
  <1>7. /\ IdentitiesShaped' /\ BindingsShaped' /\ TokensShaped' /\ SigningShaped' /\ IntentsShaped'
        /\ TokensFollowIdentities' /\ BindingsBounded'
    BY <1>2, IntentsKept DEF IdentitiesShaped, BindingsShaped, TokensShaped, SigningShaped,
       TokensFollowIdentities, BindingsBounded, GraphSound, LiveToken
  <1>8. EveryUserReachable' /\ PrimaryIsOwned'
    BY <1>1, <1>2, <1>4, <1>5 DEF GraphSound, EveryUserReachable, PrimaryIsOwned, ActiveIdentities, Owned
  <1>9. MergedUsersOwnNothing'
    <2> SUFFICES ASSUME NEW l \in Users, user'[l].status = "merged"
                 PROVE  /\ Owned(l)' = {} /\ binding'[l] = {}
                        /\ \A r \in Tokens : token'[r].user = l => ~LiveToken(r)'
                        /\ user'[l].into # None /\ Alive(user[l].into)'
      BY DEF MergedUsersOwnNothing, Alive
    <2>1. l # u /\ user'[l] = user[l]
      BY <1>4, <1>5
    <2>2. user[l].into \in Users /\ Alive(user[l].into) /\ user[l].into # None
      BY <2>1 DEF MergedUsersOwnNothing, GraphSound, UsersShaped, UserRow
    <2>3. Alive(user[l].into)'
      BY <1>1, <1>4, <1>5, <2>1, <2>2 DEF Alive, WinsAMerge
    <2> QED
      BY <1>2, <2>1, <2>2, <2>3 DEF MergedUsersOwnNothing, GraphSound, Owned, LiveToken
  <1> QED
    BY <1>6, <1>7, <1>8, <1>9 DEF GraphSound

LEMMA BindingsFinite ==
    ASSUME GraphAssumption, BindingsShaped, NEW u \in Users
    PROVE  IsFiniteSet(binding[u]) /\ Cardinality(binding[u]) \in Nat
  BY GraphConstants, FS_Subset, FS_CardinalityType DEF BindingsShaped

\* A ticket that is exchanged, and a session that is refreshed, are those of
\* a user that is alive.
LEMMA CommitKeeps ==
    ASSUME GraphAssumption, GraphInv, NEW s \in Tokens, CommitExchange(s) \/ CommitRefresh(s)
    PROVE  GraphInv'
  <1> USE GraphConstants DEF GraphInv, GraphShaped
  <1> DEFINE u == token[s].user
  <1>1. LiveToken(s) /\ Alive(u) /\ token' = [token EXCEPT ![s].state = "session"]
        /\ signing' = [signing EXCEPT ![s] = Idle] /\ UNCHANGED <<user, identity, mutation>>
    BY DEF CommitExchange, CommitRefresh, RefreshStillAsPrepared, StillAsPrepared, UserCurrent, LiveToken
  <1>2. u \in Users /\ token[s].app \in Apps /\ token[s] \in TokenRow
    BY <1>1 DEF TokensShaped
  <1>3. SigningShaped'
    <2>1. Idle \in [revision : 0..MaxGraphRevision, security : 0..MaxGraphRevision]
      BY DEF Idle
    <2> QED
      BY <1>1, <2>1 DEF SigningShaped
  <1>4. /\ token' \in [Tokens -> TokenRow]
        /\ \A r \in Tokens : /\ token'[r].user = token[r].user /\ token'[r].identity = token[r].identity
                             /\ token'[r].app = token[r].app
                             /\ LiveToken(r)' <=> LiveToken(r)
    <2>1. [token[s] EXCEPT !.state = "session"] \in TokenRow
      BY <1>2 DEF TokenRow
    <2> QED
      BY <1>1, <2>1 DEF TokensShaped, TokenRow, LiveToken
  <1>5. TokensShaped'
    BY <1>4 DEF TokensShaped
  <1>6. UsersShaped' /\ IdentitiesShaped' /\ IntentsShaped'
    BY <1>1, IntentsKept DEF UsersShaped, IdentitiesShaped
  <1>7. /\ BindingsShaped' /\ BindingsBounded'
        /\ \A v \in Users : v # u => binding'[v] = binding[v]
    <2>1. CASE CommitRefresh(s)
      BY <2>1 DEF CommitRefresh, BindingsShaped, BindingsBounded, GraphSound
    <2>2. CASE CommitExchange(s)
      <3>1. binding' = [binding EXCEPT ![u] = @ \cup {token[s].app}] /\ BindingAdmitted(u, token[s].app)
        BY <2>2 DEF CommitExchange
      <3> HIDE DEF u
      <3>2. BindingsShaped' /\ \A v \in Users : v # u => binding'[v] = binding[v]
        BY <1>2, <3>1 DEF BindingsShaped
      <3>3. Cardinality(binding[u] \cup {token[s].app}) <= MaxBindings
        <4>1. CASE token[s].app \in binding[u]
          <5>1. binding[u] \cup {token[s].app} = binding[u]
            BY <4>1
          <5> QED
            BY <1>2, <5>1 DEF BindingsBounded, GraphSound
        <4>2. CASE token[s].app \notin binding[u]
          <5>1. Cardinality(binding[u] \cup {token[s].app}) = Cardinality(binding[u]) + 1
            BY <1>2, <4>2, BindingsFinite, FS_AddElement
          <5> QED
            BY <1>2, <3>1, <4>2, <5>1, BindingsFinite DEF BindingAdmitted
        <4> QED
          BY <4>1, <4>2
      <3>4. binding'[u] = binding[u] \cup {token[s].app}
        BY <1>2, <3>1 DEF BindingsShaped
      <3> QED
        BY <3>2, <3>3, <3>4 DEF BindingsBounded, GraphSound
    <2> QED
      BY <2>1, <2>2
  <1>8. EveryUserReachable' /\ PrimaryIsOwned'
    BY <1>1 DEF EveryUserReachable, PrimaryIsOwned, ActiveIdentities, Owned, GraphSound
  <1>9. MergedUsersOwnNothing'
    <2> SUFFICES ASSUME NEW l \in Users, user[l].status = "merged"
                 PROVE  binding'[l] = {} /\ \A r \in Tokens : token'[r].user = l => ~LiveToken(r)'
      BY <1>1 DEF MergedUsersOwnNothing, GraphSound, Owned, Alive
    <2>1. l # u
      BY <1>1 DEF Alive
    <2> QED
      BY <1>4, <1>7, <2>1 DEF MergedUsersOwnNothing, GraphSound
  <1>10. TokensFollowIdentities'
    BY <1>1, <1>4 DEF TokensFollowIdentities, GraphSound
  <1> QED
    BY <1>3, <1>5, <1>6, <1>7, <1>8, <1>9, <1>10 DEF GraphSound

-----------------------------------------------------------------------------
(* Confirmed mutations *)

LEMMA FrozenOwners ==
    ASSUME NEW m, IdentitiesAsFrozen(m), NEW j \in DOMAIN m.identities
    PROVE  m.identities[j].owner = identity[j].owner
  <1>1. m.identities[j] = [owner |-> identity[j].owner, revision |-> identity[j].revision]
    BY DEF IdentitiesAsFrozen
  <1> QED
    BY <1>1

LEMMA ConfirmLinkKeeps ==
    ASSUME GraphAssumption, GraphInv, NEW k \in Intents, ConfirmLink(k)
    PROVE  GraphInv'
  <1> USE GraphConstants DEF GraphInv, GraphShaped
  <1>0. mutation[k].target \in Users /\ mutation[k].subject \in Idents /\ Alive(mutation[k].target)
    BY DEF ConfirmLink, IntentsShaped, FrozenFits, FinalAuthority, UsersAsFrozen
  <1>1. PICK u \in Users, i \in Idents : u = mutation[k].target /\ i = mutation[k].subject /\ Alive(u)
    BY <1>0
  <1>2. /\ identity[i].status = "none" /\ identity' = [identity EXCEPT ![i] = NewIdentity(u)]
        /\ UNCHANGED <<user, binding, token, signing>> /\ Complete(k, "completed")
    BY <1>1 DEF ConfirmLink, CandidateUnknown
  <1>3. /\ IdentitiesShaped'
        /\ \A j \in Idents : identity[j].owner # None => identity'[j] = identity[j]
        /\ i \in ActiveIdentities(u)'
        /\ \A v \in Users : /\ Owned(v) \subseteq Owned(v)'
                            /\ ActiveIdentities(v) \subseteq ActiveIdentities(v)'
                            /\ v # u => Owned(v)' = Owned(v)
    BY <1>1, <1>2, IdentityAdded
  <1>4. /\ UsersShaped' /\ BindingsShaped' /\ TokensShaped' /\ SigningShaped' /\ IntentsShaped'
        /\ BindingsBounded'
    BY <1>2, IntentClosed DEF UsersShaped, BindingsShaped, TokensShaped, SigningShaped, BindingsBounded,
       GraphSound, LiveToken
  <1>5. EveryUserReachable' /\ PrimaryIsOwned'
    BY <1>2, <1>3 DEF EveryUserReachable, PrimaryIsOwned, GraphSound
  <1>6. MergedUsersOwnNothing'
    <2>1. \A l \in Users : user[l].status = "merged" => l # u
      BY <1>1 DEF Alive
    <2> QED
      BY <1>2, <1>3, <2>1 DEF MergedUsersOwnNothing, GraphSound, Alive, LiveToken
  <1>7. TokensFollowIdentities'
    <2> SUFFICES ASSUME NEW r \in Tokens, LiveToken(r)
                 PROVE  identity'[token[r].identity].owner = token[r].user
      BY <1>2 DEF TokensFollowIdentities, LiveToken
    <2>1. token[r].identity \in Idents /\ identity[token[r].identity].owner = token[r].user
          /\ token[r].user \in Users
      BY DEF TokensShaped, TokensFollowIdentities, GraphSound
    <2> QED
      BY <1>3, <2>1
  <1> QED
    BY <1>3, <1>4, <1>5, <1>6, <1>7 DEF GraphSound

\* Of more than one, one is left when any is taken away.
LEMMA OneIsLeft ==
    ASSUME NEW S, IsFiniteSet(S), Cardinality(S) > 1, NEW x
    PROVE  \E y \in S : y # x
  <1> SUFFICES ASSUME \A y \in S : y = x PROVE FALSE
    OBVIOUS
  <1>1. S \subseteq {x}
    OBVIOUS
  <1>2. IsFiniteSet({x}) /\ Cardinality({x}) = 1
    BY FS_Singleton
  <1>3. Cardinality(S) <= 1
    BY <1>1, <1>2, FS_Subset
  <1>4. Cardinality(S) \in Nat
    BY FS_CardinalityType
  <1> QED
    BY <1>3, <1>4

LEMMA ConfirmUnlinkKeeps ==
    ASSUME GraphAssumption, GraphInv, NEW k \in Intents, ConfirmUnlink(k)
    PROVE  GraphInv'
  <1> USE GraphConstants DEF GraphInv, GraphShaped
  <1> DEFINE m == mutation[k]
             u == m.target
             i == m.subject
  <1>1. /\ u \in Users /\ i \in Idents /\ Alive(u) /\ identity[i].owner = u
        /\ m.source \in Sources /\ (m.source \in Idents => identity[m.source].owner = u)
    <2>1. FrozenFits(m) /\ m.kind = "unlink" /\ UsersAsFrozen(m) /\ IdentitiesAsFrozen(m)
      BY DEF ConfirmUnlink, IntentsShaped, FinalAuthority
    <2> HIDE DEF m
    <2>2. \A j \in DOMAIN m.identities : m.identities[j].owner = identity[j].owner
      BY <2>1, FrozenOwners
    <2> QED
      BY <2>1, <2>2 DEF FrozenFits, UsersAsFrozen
  <1>2. /\ Bumpable(u) /\ identity[i].revision < MaxGraphRevision
        /\ Cardinality(ActiveIdentities(u)) > 1
        /\ identity' = [identity EXCEPT ![i].status = "disabled", ![i].revision = @ + 1]
        /\ user' = [user EXCEPT ![u] = PrimaryAfterUnlink(@, i, m.source)]
        /\ Complete(k, "completed")
        /\ UNCHANGED <<binding, token, signing>>
    BY DEF ConfirmUnlink, RevisionsLeft, AnotherRemains
  <1> DEFINE source == m.source
  <1>3. /\ u \in Users /\ i \in Idents /\ source \in Sources
        /\ (source \in Idents => identity[source].owner = u)
        /\ user' = [user EXCEPT ![u] = PrimaryAfterUnlink(@, i, source)]
    BY <1>1, <1>2
  <1> HIDE DEF source, m, u, i
  <1>4. /\ IdentitiesShaped'
        /\ \A j \in Idents : /\ identity'[j].owner = identity[j].owner
                             /\ j # i => identity'[j] = identity[j]
    <2>1. identity[i] \in IdentityRow
      BY <1>1 DEF IdentitiesShaped
    <2> DEFINE a == [identity[i] EXCEPT !.status = "disabled"]
               b == [a EXCEPT !.revision = identity[i].revision + 1]
    <2>2. a \in IdentityRow /\ a.owner = identity[i].owner /\ a.revision = identity[i].revision
          /\ a.status = "disabled"
      BY <2>1 DEF IdentityRow
    <2>3. \A j \in Idents : identity'[j] = IF j = i THEN b ELSE identity[j]
      BY <1>1, <1>2, <2>1 DEF IdentitiesShaped, IdentityRow
    <2>4. identity' = [j \in Idents |-> identity'[j]]
      BY <1>2 DEF IdentitiesShaped
    <2> HIDE DEF a
    <2>5. b \in IdentityRow /\ b.owner = identity[i].owner /\ b.status = "disabled"
      BY <1>2, <2>1, <2>2 DEF IdentityRow
    <2> HIDE DEF b
    <2>6. identity[i].owner # None
      BY <1>1
    <2> QED
      BY <2>3, <2>4, <2>5, <2>6 DEF IdentitiesShaped
  <1>5. /\ UsersShaped'
        /\ \A v \in Users : /\ v # u => user'[v] = user[v]
                            /\ user'[v].status = user[v].status /\ user'[v].into = user[v].into
        /\ user'[u].primary # user[u].primary => user'[u].primary = source /\ source \in Idents
    <2>1. user[u] \in UserRow
      BY <1>1 DEF UsersShaped
    <2> DEFINE new == PrimaryAfterUnlink(user[u], i, source)
    <2>2. new \in UserRow /\ new.status = user[u].status /\ new.into = user[u].into
          /\ (new.primary # user[u].primary => new.primary = source /\ source \in Idents)
      <3>1. [user[u] EXCEPT !.revision = user[u].revision + 1] \in UserRow
        BY <1>2, <2>1 DEF UserRow, Bumpable
      <3>2. CASE source = "preserve"
        BY <2>1, <3>2 DEF PrimaryAfterUnlink
      <3>3. CASE source # "preserve" /\ source = "clear"
        BY <2>1, <3>1, <3>3 DEF PrimaryAfterUnlink, UserRow
      <3>4. CASE source # "preserve" /\ source # "clear"
        <4>1. source \in Idents
          BY <1>3, <3>4 DEF Sources
        <4> DEFINE a == [user[u] EXCEPT !.revision = user[u].revision + 1]
        <4>2. new = [a EXCEPT !.primary = source]
          BY <2>1, <3>4 DEF PrimaryAfterUnlink, UserRow
        <4>3. a \in UserRow /\ a.status = user[u].status /\ a.into = user[u].into
          BY <2>1, <3>1 DEF UserRow
        <4> HIDE DEF a, new
        <4> QED
          BY <4>1, <4>2, <4>3 DEF UserRow
      <3> QED
        BY <3>2, <3>3, <3>4
    <2> HIDE DEF new
    <2>3. user' = [user EXCEPT ![u] = new]
      BY <1>3 DEF new
    <2> QED
      BY <1>1, <2>2, <2>3 DEF UsersShaped
  <1>6. /\ BindingsShaped' /\ TokensShaped' /\ SigningShaped' /\ IntentsShaped' /\ BindingsBounded'
    BY <1>2, IntentClosed DEF BindingsShaped, TokensShaped, SigningShaped, BindingsBounded, GraphSound,
       LiveToken
  <1>7. \A v \in Users : Owned(v)' = Owned(v)
    BY <1>4 DEF Owned
  <1>8. EveryUserReachable'
    <2> SUFFICES ASSUME NEW v \in Users, user[v].status \in {"active", "disabled"}
                 PROVE  \E j \in Idents : identity'[j].owner = v /\ identity'[j].status = "active"
      BY <1>5 DEF EveryUserReachable, ActiveIdentities, Owned
    <2>1. \E j \in ActiveIdentities(v) : j # i
      <3>1. CASE v = u
        <4>1. IsFiniteSet(ActiveIdentities(u))
          BY FS_Subset DEF ActiveIdentities, Owned
        <4> QED
          BY <1>2, <3>1, <4>1, OneIsLeft
      <3>2. CASE v # u
        BY <1>1, <3>2 DEF EveryUserReachable, GraphSound, ActiveIdentities, Owned
      <3> QED
        BY <3>1, <3>2
    <2> QED
      BY <1>4, <2>1 DEF ActiveIdentities, Owned
  <1>9. PrimaryIsOwned'
    <2>1. source \in Idents => source \in Owned(u)
      BY <1>3 DEF Owned
    <2>2. user[u].status = "active"
      BY <1>1 DEF Alive
    <2> QED
      BY <1>1, <1>5, <1>7, <2>1, <2>2 DEF PrimaryIsOwned, GraphSound
  <1>10. MergedUsersOwnNothing'
    <2> SUFFICES ASSUME NEW l \in Users, user[l].status = "merged"
                 PROVE  user[l].into # None /\ Alive(user[l].into)'
      BY <1>2, <1>5, <1>7 DEF MergedUsersOwnNothing, GraphSound, LiveToken, Alive
    <2>1. user[l].into \in Users /\ Alive(user[l].into)
      BY DEF MergedUsersOwnNothing, GraphSound, UsersShaped, UserRow
    <2> QED
      BY <1>5, <2>1 DEF Alive
  <1>11. TokensFollowIdentities'
    BY <1>2, <1>4 DEF TokensFollowIdentities, TokensShaped, GraphSound, LiveToken
  <1> QED
    BY <1>4, <1>5, <1>6, <1>8, <1>9, <1>10, <1>11 DEF GraphSound

\* What a merge does to the identities: those of the loser are the winner's.
LEMMA IdentitiesMovedShape ==
    ASSUME GraphAssumption, IdentitiesShaped, NEW w \in Users, NEW l \in Users, w # l,
           \A i \in Owned(l) : identity[i].revision < MaxGraphRevision,
           identity' = IdentitiesMoved(w, l)
    PROVE  /\ IdentitiesShaped'
           /\ \A i \in Idents : /\ identity'[i].status = identity[i].status
                                /\ identity[i].owner = l => identity'[i].owner = w
                                /\ identity[i].owner # l => identity'[i] = identity[i]
           /\ Owned(l)' = {}
           /\ \A v \in Users : v # l => /\ Owned(v) \subseteq Owned(v)'
                                        /\ ActiveIdentities(v) \subseteq ActiveIdentities(v)'
           /\ \A v \in Users : v # w => Owned(v)' \subseteq Owned(v)
  <1> USE GraphConstants
  <1>1. ASSUME NEW i \in Idents
        PROVE  /\ identity'[i] \in IdentityRow
               /\ identity'[i].status = identity[i].status
               /\ identity[i].owner = l => identity'[i].owner = w
               /\ identity[i].owner # l => identity'[i] = identity[i]
    <2>1. identity[i] \in IdentityRow
      BY DEF IdentitiesShaped
    <2>2. CASE identity[i].owner # l
      BY <2>1, <2>2 DEF IdentitiesMoved
    <2>3. CASE identity[i].owner = l
      <3> DEFINE a == [identity[i] EXCEPT !.owner = w]
                 b == [a EXCEPT !.revision = identity[i].revision + 1]
      <3>1. identity'[i] = b
        BY <2>1, <2>3 DEF IdentitiesMoved, IdentityRow
      <3>2. a \in IdentityRow /\ a.owner = w /\ a.status = identity[i].status
        BY <2>1 DEF IdentityRow
      <3>3. identity[i].revision < MaxGraphRevision /\ identity[i].revision \in 0..MaxGraphRevision
        BY <2>1, <2>3 DEF Owned, IdentityRow
      <3> HIDE DEF a
      <3>4. b \in IdentityRow /\ b.owner = w /\ b.status = identity[i].status
        BY <3>2, <3>3 DEF IdentityRow
      <3> HIDE DEF b
      <3> QED
        BY <2>3, <3>1, <3>4
    <2> QED
      BY <2>2, <2>3
  <1>2. identity' = [i \in Idents |-> identity'[i]]
    BY DEF IdentitiesMoved
  <1>3. IdentitiesShaped'
    BY <1>1, <1>2 DEF IdentitiesShaped
  <1>4. Owned(l)' = {}
    BY <1>1 DEF Owned
  <1>5. \A v \in Users : v # l => /\ Owned(v) \subseteq Owned(v)'
                                  /\ ActiveIdentities(v) \subseteq ActiveIdentities(v)'
    BY <1>1 DEF Owned, ActiveIdentities
  <1>6. \A v \in Users : v # w => Owned(v)' \subseteq Owned(v)
    BY <1>1 DEF Owned
  <1> QED
    BY <1>1, <1>3, <1>4, <1>5, <1>6

UsersAfterMerge(w, l, source) ==
    /\ UsersShaped'
    /\ user'[w].status = user[w].status /\ user'[w].primary = source
    /\ user'[l].status = "merged" /\ user'[l].into = w /\ user'[l].primary = None
    /\ \A v \in Users : v # l => user'[v].status = user[v].status /\ user'[v].into = user[v].into
    /\ \A v \in Users : v # l /\ v # w => user'[v] = user[v]

LEMMA ConfirmMergeUsers ==
    ASSUME MaxGraphRevision \in Nat, UsersShaped, NEW w \in Users, NEW l \in Users, w # l, NEW source \in Idents,
           Bumpable(w), Bumpable(l),
           user' = [user EXCEPT ![l] = MergedLoser(@, w), ![w].primary = source, ![w].revision = @ + 1]
    PROVE  UsersAfterMerge(w, l, source)
  <1>1. user[w] \in UserRow /\ user[l] \in UserRow
    BY DEF UsersShaped
  <1> DEFINE a == [Bumped(user[l], "merged") EXCEPT !.into = w]
             b == [a EXCEPT !.primary = None]
             c == [user[w] EXCEPT !.primary = source]
             d == [c EXCEPT !.revision = user[w].revision + 1]
  <1>2. /\ Bumped(user[l], "merged") \in UserRow /\ Bumped(user[l], "merged").status = "merged"
    BY <1>1, BumpedRow DEF Bumpable
  <1>3. a \in UserRow /\ a.status = "merged" /\ a.into = w
    BY <1>2 DEF UserRow
  <1>4. c \in UserRow /\ c.status = user[w].status /\ c.into = user[w].into /\ c.primary = source
    BY <1>1 DEF UserRow
  <1>5. \A v \in Users : user'[v] = IF v = l THEN b ELSE IF v = w THEN d ELSE user[v]
    <2>1. MergedLoser(user[l], w) = b
      BY DEF MergedLoser
    <2>2. user' = [user EXCEPT ![l] = b, ![w].primary = source, ![w].revision = @ + 1]
      BY <2>1
    <2> HIDE DEF b
    <2> QED
      BY <1>1, <2>2 DEF UsersShaped, UserRow
  <1> HIDE DEF a, c
  <1>6. b \in UserRow /\ b.status = "merged" /\ b.into = w /\ b.primary = None
    BY <1>3 DEF UserRow
  <1>7. d \in UserRow /\ d.status = user[w].status /\ d.into = user[w].into /\ d.primary = source
    BY <1>1, <1>4 DEF UserRow, Bumpable
  <1> HIDE DEF b, d
  <1>8. user' = [v \in Users |-> user'[v]]
    BY DEF UsersShaped
  <1> QED
    BY <1>5, <1>6, <1>7, <1>8 DEF UsersShaped, UsersAfterMerge

LEMMA ConfirmMergeKeeps ==
    ASSUME GraphAssumption, GraphInv, NEW k \in Intents, ConfirmMerge(k)
    PROVE  GraphInv'
  <1> USE GraphConstants DEF GraphInv, GraphShaped
  <1> DEFINE m == mutation[k]
  <1>1. FrozenFits(m) /\ m.kind = "merge" /\ UsersAsFrozen(m) /\ IdentitiesAsFrozen(m)
    BY DEF ConfirmMerge, IntentsShaped, FinalAuthority
  <1>2. /\ RevisionsLeft({m.target, m.loser}, Owned(m.loser)) /\ ~BindingUnionExceeded(m) /\ ~WinsAMerge(m.loser)
        /\ token' = RevokeLoserSessions(m.loser)
        /\ identity' = IdentitiesMoved(m.target, m.loser)
        /\ binding' = BindingsMerged(m.target, m.loser)
        /\ user' = [user EXCEPT ![m.loser] = MergedLoser(@, m.target),
                                ![m.target].primary = m.source, ![m.target].revision = @ + 1]
        /\ Complete(k, "completed") /\ UNCHANGED signing
    BY DEF ConfirmMerge
  <1> HIDE DEF m
  <1>3. PICK w \in Users, l \in Users, source \in Idents :
           /\ w = m.target /\ l = m.loser /\ source = m.source /\ w # l
           /\ Alive(w) /\ Alive(l) /\ identity[source].owner \in {w, l}
    BY <1>1, FrozenOwners DEF FrozenFits, UsersAsFrozen
  <1>4. /\ UsersShaped'
        /\ user'[w].status = user[w].status /\ user'[w].primary = source
        /\ user'[l].status = "merged" /\ user'[l].into = w /\ user'[l].primary = None
        /\ \A v \in Users : v # l => user'[v].status = user[v].status /\ user'[v].into = user[v].into
        /\ \A v \in Users : v # l /\ v # w => user'[v] = user[v]
    <2>1. Bumpable(w) /\ Bumpable(l)
      BY <1>2, <1>3 DEF RevisionsLeft
    <2>2. user' = [user EXCEPT ![l] = MergedLoser(@, w), ![w].primary = source, ![w].revision = @ + 1]
      BY <1>2, <1>3, Zenon
    <2>3. UsersShaped /\ MaxGraphRevision \in Nat /\ w # l
      BY <1>3
    <2>4. UsersAfterMerge(w, l, source)
      BY <2>1, <2>2, <2>3, ConfirmMergeUsers, Zenon
    <2> QED
      BY <2>4, Zenon DEF UsersAfterMerge
  <1>5. /\ IdentitiesShaped'
        /\ \A i \in Idents : /\ identity'[i].status = identity[i].status
                             /\ identity[i].owner = l => identity'[i].owner = w
                             /\ identity[i].owner # l => identity'[i] = identity[i]
        /\ Owned(l)' = {}
        /\ \A v \in Users : v # l => /\ Owned(v) \subseteq Owned(v)'
                                     /\ ActiveIdentities(v) \subseteq ActiveIdentities(v)'
        /\ \A v \in Users : v # w => Owned(v)' \subseteq Owned(v)
    <2>1. \A i \in Owned(l) : identity[i].revision < MaxGraphRevision
      BY <1>2, <1>3 DEF RevisionsLeft
    <2>2. identity' = IdentitiesMoved(w, l)
      BY <1>2, <1>3
    <2> QED
      BY <1>3, <2>1, <2>2, IdentitiesMovedShape
  <1>6. /\ TokensShaped'
        /\ \A s \in Tokens : LiveToken(s)' => LiveToken(s) /\ token'[s] = token[s] /\ token[s].user # l
        /\ \A s \in Tokens : token'[s].user = token[s].user
    <2>1. ASSUME NEW s \in Tokens
          PROVE  /\ token'[s] \in TokenRow /\ token'[s].user = token[s].user
                 /\ LiveToken(s)' => LiveToken(s) /\ token'[s] = token[s] /\ token[s].user # l
      <3>1. token[s] \in TokenRow
        BY DEF TokensShaped
      <3>2. CASE token[s].user = l /\ LiveToken(s)
        <4>1. token'[s] = [token[s] EXCEPT !.state = "revoked"]
          BY <1>2, <1>3, <3>2 DEF RevokeLoserSessions
        <4>2. token'[s] \in TokenRow /\ token'[s].user = token[s].user /\ token'[s].state = "revoked"
          BY <3>1, <4>1 DEF TokenRow
        <4> QED
          BY <4>2 DEF LiveToken
      <3>3. CASE ~(token[s].user = l /\ LiveToken(s))
        <4>1. token'[s] = token[s]
          BY <1>2, <1>3, <3>3 DEF RevokeLoserSessions
        <4> QED
          BY <3>1, <3>3, <4>1 DEF LiveToken
      <3> QED
        BY <3>2, <3>3
    <2>2. token' = [s \in Tokens |-> token'[s]]
      BY <1>2 DEF RevokeLoserSessions
    <2> QED
      BY <2>1, <2>2 DEF TokensShaped
  <1>7. /\ BindingsShaped' /\ BindingsBounded' /\ binding'[l] = {}
        /\ \A v \in Users : v # w /\ v # l => binding'[v] = binding[v]
    <2>1. binding' = [binding EXCEPT ![w] = @ \cup binding[l], ![l] = {}]
      BY <1>2, <1>3 DEF BindingsMerged
    <2>2. /\ BindingsShaped' /\ binding'[l] = {} /\ binding'[w] = binding[w] \cup binding[l]
          /\ \A v \in Users : v # w /\ v # l => binding'[v] = binding[v]
      BY <1>3, <2>1 DEF BindingsShaped
    <2>3. IsFiniteSet(binding[w] \cup binding[l]) /\ Cardinality(binding[w] \cup binding[l]) \in Nat
      BY BindingsFinite, FS_Union, FS_CardinalityType
    <2>4. Cardinality(binding[w] \cup binding[l]) <= MaxBindings
      BY <1>2, <1>3, <2>3 DEF BindingUnionExceeded
    <2>5. Cardinality({}) <= MaxBindings
      BY FS_EmptySet
    <2> QED
      BY <2>2, <2>4, <2>5 DEF BindingsBounded, GraphSound
  <1>8. SigningShaped' /\ IntentsShaped'
    BY <1>2, IntentClosed, SigningKept
  <1>9. EveryUserReachable'
    BY <1>4, <1>5 DEF EveryUserReachable, GraphSound
  <1>10. PrimaryIsOwned'
    <2>1. source \in Owned(w)'
      BY <1>3, <1>5 DEF Owned
    <2>2. user[w].status = "active"
      BY <1>3 DEF Alive
    <2>3. ASSUME NEW v \in Users
          PROVE  IF user'[v].status \in {"active", "disabled"} THEN user'[v].primary \in Owned(v)'
                 ELSE user'[v].primary = None
      BY <1>3, <1>4, <1>5, <2>1, <2>2 DEF PrimaryIsOwned, GraphSound
    <2> QED
      BY <2>3 DEF PrimaryIsOwned
  <1>11. MergedUsersOwnNothing'
    <2> SUFFICES ASSUME NEW o \in Users, user'[o].status = "merged"
                 PROVE  /\ Owned(o)' = {} /\ binding'[o] = {}
                        /\ \A r \in Tokens : token'[r].user = o => ~LiveToken(r)'
                        /\ user'[o].into # None /\ Alive(user[o].into)'
      BY DEF MergedUsersOwnNothing, Alive
    <2>1. user'[w].status = "active"
      BY <1>3, <1>4 DEF Alive
    <2>2. CASE o = l
      BY <1>3, <1>4, <1>5, <1>6, <1>7, <2>1, <2>2 DEF Alive
    <2>3. CASE o # l
      <3>1. o # w /\ user[o].status = "merged" /\ user'[o] = user[o]
        BY <1>4, <2>1, <2>3
      <3>2. user[o].into \in Users /\ Alive(user[o].into) /\ user[o].into # l
        BY <1>2, <1>3, <3>1 DEF MergedUsersOwnNothing, GraphSound, UsersShaped, UserRow, WinsAMerge
      <3>3. Alive(user[o].into)'
        BY <1>4, <3>1, <3>2 DEF Alive
      <3>4. \A r \in Tokens : token'[r].user = o => ~LiveToken(r)'
        BY <1>6, <3>1 DEF MergedUsersOwnNothing, GraphSound
      <3>5. Owned(o)' = {} /\ binding'[o] = {}
        BY <1>5, <1>7, <2>3, <3>1 DEF MergedUsersOwnNothing, GraphSound
      <3> QED
        BY <3>1, <3>2, <3>3, <3>4, <3>5
    <2> QED
      BY <2>2, <2>3
  <1>12. TokensFollowIdentities'
    <2> SUFFICES ASSUME NEW r \in Tokens, LiveToken(r)'
                 PROVE  identity'[token'[r].identity].owner = token'[r].user
      BY DEF TokensFollowIdentities
    <2>1. LiveToken(r) /\ token'[r] = token[r] /\ token[r].user # l
      BY <1>6
    <2>2. token[r].identity \in Idents /\ identity[token[r].identity].owner = token[r].user
      BY <2>1 DEF TokensShaped, TokensFollowIdentities, GraphSound
    <2> QED
      BY <1>5, <2>1, <2>2
  <1> QED
    BY <1>4, <1>5, <1>6, <1>7, <1>8, <1>9, <1>10, <1>11, <1>12 DEF GraphSound

-----------------------------------------------------------------------------
(* The theorems *)

LEMMA GraphStepKeeps ==
    ASSUME GraphAssumption, GraphInv, [GraphNext]_graphVars
    PROVE  GraphInv'
  <1>1. CASE UNCHANGED graphVars
    BY <1>1, RowsAlone, SigningKept, IntentsKept DEF graphVars, GraphInv, GraphShaped
  <1>2. CASE LoginStep
    BY <1>2, SignUpKeeps, LoginKeeps, SigningStepKeeps, CommitKeeps DEF LoginStep
  <1>3. CASE LifecycleStep
    BY <1>3, LifecycleKeeps DEF LifecycleStep
  <1>4. CASE CreateStep
    BY <1>4, CreateKeeps
  <1>5. CASE ConfirmStep
    BY <1>5, ConfirmLinkKeeps, ConfirmUnlinkKeeps, ConfirmMergeKeeps, ClosingKeeps DEF ConfirmStep
  <1> QED
    BY <1>1, <1>2, <1>3, <1>4, <1>5 DEF GraphNext

LEMMA OwnersMove ==
    ASSUME GraphAssumption, GraphInv, [GraphNext]_graphVars
    PROVE  IdentityChangesHandsByMerge
  <1> USE GraphConstants DEF GraphInv, GraphShaped
  <1>1. CASE UNCHANGED identity
    BY <1>1 DEF IdentityChangesHandsByMerge
  <1>2. ASSUME NEW i \in Idents, identity[i].status = "none", NEW new,
               identity' = [identity EXCEPT ![i] = new]
        PROVE  IdentityChangesHandsByMerge
    BY <1>2 DEF IdentityChangesHandsByMerge, IdentitiesShaped
  <1>3. ASSUME NEW i \in Idents, NEW new, new.owner = identity[i].owner,
               identity' = [identity EXCEPT ![i] = new]
        PROVE  IdentityChangesHandsByMerge
    BY <1>3 DEF IdentityChangesHandsByMerge, IdentitiesShaped
  <1>4. ASSUME NEW i \in Idents, NEW s \in Tokens, NEW a \in Apps, NEW changed \in BOOLEAN,
               Login(i, s, a, changed)
        PROVE  IdentityChangesHandsByMerge
    <2> DEFINE new == [identity[i] EXCEPT !.revision = IF changed THEN identity[i].revision + 1
                                                       ELSE identity[i].revision]
    <2>1. identity' = [identity EXCEPT ![i] = new]
      BY <1>4 DEF Login, IdentitiesShaped
    <2>2. new.owner = identity[i].owner
      BY DEF IdentitiesShaped, IdentityRow
    <2> HIDE DEF new
    <2> QED
      BY <1>3, <2>1, <2>2
  <1>5. ASSUME NEW k \in Intents, ConfirmLink(k)
        PROVE  IdentityChangesHandsByMerge
    <2>1. mutation[k].subject \in Idents
      BY <1>5 DEF ConfirmLink, IntentsShaped, FrozenFits
    <2> QED
      BY <1>2, <1>5, <2>1 DEF ConfirmLink, CandidateUnknown
  <1>6. ASSUME NEW k \in Intents, ConfirmUnlink(k)
        PROVE  IdentityChangesHandsByMerge
    <2>1. PICK i \in Idents : i = mutation[k].subject
      BY <1>6 DEF ConfirmUnlink, IntentsShaped, FrozenFits
    <2> DEFINE a == [identity[i] EXCEPT !.status = "disabled"]
               b == [a EXCEPT !.revision = identity[i].revision + 1]
    <2>2. identity[i] \in IdentityRow
      BY DEF IdentitiesShaped
    <2>3. identity' = [identity EXCEPT ![i] = b]
      BY <1>6, <2>1, <2>2 DEF ConfirmUnlink, IdentitiesShaped, IdentityRow
    <2>4. b.owner = identity[i].owner
      BY <2>2 DEF IdentityRow
    <2> HIDE DEF a, b
    <2> QED
      BY <1>3, <2>3, <2>4
  <1>7. ASSUME NEW k \in Intents, ConfirmMerge(k)
        PROVE  IdentityChangesHandsByMerge
    <2> DEFINE m == mutation[k]
    <2>1. FrozenFits(m) /\ m.kind = "merge" /\ identity' = IdentitiesMoved(m.target, m.loser)
          /\ RevisionsLeft({m.target, m.loser}, Owned(m.loser))
          /\ user' = [user EXCEPT ![m.loser] = MergedLoser(@, m.target),
                                  ![m.target].primary = m.source, ![m.target].revision = @ + 1]
      BY <1>7 DEF ConfirmMerge, IntentsShaped
    <2> HIDE DEF m
    <2>2. PICK w \in Users, l \in Users, source \in Idents :
             w = m.target /\ l = m.loser /\ source = m.source /\ w # l
      BY <2>1 DEF FrozenFits
    <2>3. user'[l].into = w
      <3>1. Bumpable(w) /\ Bumpable(l)
        BY <2>1, <2>2 DEF RevisionsLeft
      <3>2. user' = [user EXCEPT ![l] = MergedLoser(@, w), ![w].primary = source, ![w].revision = @ + 1]
        BY <2>1, <2>2, Zenon
      <3>3. UsersShaped /\ MaxGraphRevision \in Nat
        OBVIOUS
      <3>4. UsersAfterMerge(w, l, source)
        BY <2>2, <3>1, <3>2, <3>3, ConfirmMergeUsers, Zenon
      <3> QED
        BY <3>4 DEF UsersAfterMerge
    <2>4. \A i \in Idents : /\ identity[i].owner = l => identity'[i].owner = w
                            /\ identity[i].owner # l => identity'[i] = identity[i]
      <3>1. \A i \in Owned(l) : identity[i].revision < MaxGraphRevision
        BY <2>1, <2>2 DEF RevisionsLeft
      <3>2. identity' = IdentitiesMoved(w, l)
        BY <2>1, <2>2
      <3> QED
        BY <2>2, <3>1, <3>2, IdentitiesMovedShape
    <2> QED
      BY <2>3, <2>4 DEF IdentityChangesHandsByMerge
  <1>8. CASE LoginStep
    BY <1>1, <1>2, <1>4, <1>8 DEF LoginStep, SignUp, PrepareSigning, CommitExchange, CommitRefresh, AbandonSigning
  <1>9. CASE LifecycleStep \/ UNCHANGED graphVars
    BY <1>1, <1>9 DEF LifecycleStep, graphVars, DisableUser, EnableUser
  <1>11. CASE CreateStep
    <2>1. PICK k \in Intents, u \in Users, i \in Idents :
             \/ \E candidate \in Idents : CreateLink(k, u, i, candidate)
             \/ \E source \in Sources : CreateUnlink(k, u, i, source)
             \/ \E l \in Users, j, source \in Idents : CreateMerge(k, u, l, i, j, source)
      BY <1>11 DEF CreateStep, Owned
    <2> QED
      BY <1>1, <2>1 DEF CreateLink, CreateUnlink, CreateMerge
  <1>10. CASE ConfirmStep
    BY <1>1, <1>5, <1>6, <1>7, <1>10 DEF ConfirmStep, CancelOverLimit, CloseIntent
  <1> QED
    BY <1>8, <1>9, <1>10, <1>11 DEF GraphNext

\* The inductive invariant of the graph: rows, what open intents froze, and
\* how users, identities, bindings and tokens belong together.
THEOREM GraphInvariant ==
    ASSUME GraphAssumption
    PROVE  GraphSpec => []GraphInv
  <1>1. GraphInit => GraphInv
    BY GraphInitEstablishes
  <1>2. GraphInv /\ [GraphNext]_graphVars => GraphInv'
    BY GraphStepKeeps
  <1> QED
    BY <1>1, <1>2, PTL DEF GraphSpec

\* confirm_unlink, confirm_merge, commit_handoff_exchange: every user can be
\* logged into and owns its primary source, a merged user owns nothing and
\* its winner is active, tokens speak for the owner of their identity, and
\* bindings stay within the limit, however logins, lifecycle commands and
\* any number of mutations interleave.
THEOREM GraphIsSafe ==
    ASSUME GraphAssumption
    PROVE  GraphSpec => []GraphSafe
  <1>1. GraphInv => GraphSafe
    BY DEF GraphInv, GraphShaped, GraphSound, GraphSafe, GraphTypeOK, UsersShaped, UserRow, IdentitiesShaped,
       IdentityRow, BindingsShaped, TokensShaped, TokenRow, SigningShaped, IntentsShaped
  <1> QED
    BY <1>1, GraphInvariant, PTL

\* confirm_link, SignUp and the logins: an identity that has an owner changes
\* hands only when that owner is merged into the new one.
THEOREM IdentitiesChangeHandsByMerge ==
    ASSUME GraphAssumption
    PROVE  GraphSpec => [][IdentityChangesHandsByMerge]_graphVars
  <1>1. GraphInv /\ [GraphNext]_graphVars => IdentityChangesHandsByMerge
    BY OwnersMove
  <1> QED
    BY <1>1, GraphInvariant, PTL DEF GraphSpec
=============================================================================
