---------------------- MODULE MutationAggregateProofs ----------------------
(***************************************************************************)
(* Proofs about MutationAggregate: every state an operation leaves can be  *)
(* read back, an intent completes with fresh proofs only, and ends once,   *)
(* for every set of operations, every lifetime and any clock.              *)
(***************************************************************************)
EXTENDS MutationAggregate, TLAPS

Receipt == [status : ReceiptStatus, issued : Nat, expires : Nat, captured : Nat]

\* A receipt carries the time at which it was issued.
ReceiptsPast == \A r \in Roles(kind) : receipt[r].status # "none" => receipt[r].issued <= now

AggregateInv == AggregateTypeOK /\ Restorable /\ ReceiptsPast

-----------------------------------------------------------------------------
(* The inductive invariant *)

LEMMA AggregateInitEstablishes ==
    ASSUME AggregateAssumption, AggregateInit
    PROVE  AggregateInv
  <1>1. AggregateTypeOK
    <2>1. NoReceipt \in Receipt /\ "pending" \in SlotState /\ "pending_proof" \in Status
      BY DEF NoReceipt, Receipt, ReceiptStatus, SlotState, Status
    <2>2. expires \in Nat
      BY DEF AggregateAssumption, AggregateInit
    <2>3. receipt \in [Roles(kind) -> Receipt] /\ slot \in [Roles(kind) -> SlotState]
      BY <2>1 DEF AggregateInit
    <2>4. /\ now \in Nat /\ revision \in Nat \ {0} /\ status \in Status
          /\ kind \in Kinds /\ method \in [Roles(kind) -> Method]
      BY <2>1 DEF AggregateInit
    <2>5. bound \in BOOLEAN
      BY Zenon DEF AggregateInit
    <2> QED
      BY <2>2, <2>3, <2>4, <2>5 DEF AggregateTypeOK, Receipt
  <1>2. \A r \in Roles(kind) : slot[r] = "pending" /\ receipt[r].status = "none"
    BY DEF AggregateInit, NoReceipt
  <1>3. Restorable /\ ReceiptsPast
    BY <1>2 DEF AggregateInit, Restorable, SlotRestorable, ReceiptsPast, EmailState, ProviderState
  <1> QED
    BY <1>1, <1>3 DEF AggregateInv

\* The browser is bound before anything is proved.
LEMMA BindBrowserKeeps ==
    ASSUME AggregateInv, BindBrowser
    PROVE  AggregateInv'
  <1>1. AggregateTypeOK'
    BY DEF AggregateInv, AggregateTypeOK, BindBrowser, Frozen
  <1>2. Restorable' /\ ReceiptsPast'
    BY DEF AggregateInv, AggregateTypeOK, BindBrowser, EnsurePending, Frozen, Restorable, SlotRestorable,
           ReceiptsPast
  <1> QED
    BY <1>1, <1>2 DEF AggregateInv

\* A slot moves while nothing has been received for it.
LEMMA TransitionSlotKeeps ==
    ASSUME AggregateInv, NEW r \in Roles(kind), NEW m, NEW from, NEW to \in EmailState \cup ProviderState,
           TransitionSlot(r, m, from, to),
           "proved" \notin from, "expired" \notin from,
           to \in EmailState => m = "email", to \in ProviderState => m = "provider"
    PROVE  AggregateInv'
  <1>1. AggregateTypeOK /\ Restorable /\ ReceiptsPast
    BY DEF AggregateInv
  <1>2. /\ slot' \in [Roles(kind) -> SlotState] /\ slot'[r] = to
        /\ \A q \in Roles(kind) \ {r} : slot'[q] = slot[q]
    BY <1>1 DEF TransitionSlot, AggregateTypeOK, SlotState
  <1>3. AggregateTypeOK'
    BY <1>1, <1>2 DEF AggregateTypeOK, TransitionSlot, Frozen
  <1>4. receipt[r].status = "none" /\ slot[r] \notin {"proved", "expired"} /\ status = "pending_proof"
    BY <1>1 DEF TransitionSlot, Restorable, SlotRestorable, AggregateTypeOK, ReceiptStatus, EnsurePending
  <1>5. /\ to \notin {"pending", "proved", "expired"} /\ method[r] = m
        /\ ~(to \in EmailState /\ to \in ProviderState)
    BY DEF EmailState, ProviderState, TransitionSlot
  <1>6. \A q \in Roles(kind) : SlotRestorable(q)'
    BY <1>1, <1>2, <1>4, <1>5
    DEF TransitionSlot, Frozen, Restorable, SlotRestorable, AggregateTypeOK, Receipt
  <1>7. Restorable' /\ ReceiptsPast'
    BY <1>1, <1>4, <1>6 DEF TransitionSlot, Frozen, Restorable, ReceiptsPast, AggregateTypeOK
  <1> QED
    BY <1>3, <1>7 DEF AggregateInv

\* A proof is received within the intent and within its own lifetime.
LEMMA AttachReceiptKeeps ==
    ASSUME AggregateAssumption, AggregateInv, NEW r \in Roles(kind), AttachReceipt(r)
    PROVE  AggregateInv'
  <1>1. AggregateTypeOK /\ Restorable /\ ReceiptsPast /\ ReceiptLife \in Nat
    BY DEF AggregateInv, AggregateAssumption
  <1>2. PICK e \in (now + 1)..(now + ReceiptLife) :
            /\ e <= expires
            /\ receipt' = [receipt EXCEPT ![r] = [status |-> "issued", issued |-> now,
                                                  expires |-> e, captured |-> revision]]
    BY DEF AttachReceipt
  <1>3. /\ slot' \in [Roles(kind) -> SlotState] /\ slot'[r] = "proved"
        /\ \A q \in Roles(kind) \ {r} : slot'[q] = slot[q]
    BY <1>1 DEF AttachReceipt, AggregateTypeOK, SlotState
  <1>4. /\ e \in Nat /\ now \in Nat /\ revision \in Nat
        /\ now < e /\ e <= now + ReceiptLife
    BY <1>1, <1>2 DEF AggregateTypeOK
  <1>5. /\ receipt' \in [Roles(kind) -> Receipt]
        /\ receipt'[r] = [status |-> "issued", issued |-> now, expires |-> e, captured |-> revision]
        /\ \A q \in Roles(kind) \ {r} : receipt'[q] = receipt[q]
    BY <1>1, <1>2, <1>4 DEF AggregateTypeOK, Receipt, ReceiptStatus
  <1>6. AggregateTypeOK'
    BY <1>1, <1>3, <1>5 DEF AggregateTypeOK, AttachReceipt, Frozen, Receipt
  <1>7. SlotRestorable(r)'
    BY <1>1, <1>2, <1>3, <1>4, <1>5
    DEF SlotRestorable, AttachReceipt, EnsurePending, Frozen, EmailState, ProviderState
  <1>8. \A q \in Roles(kind) \ {r} : SlotRestorable(q)'
    BY <1>1, <1>3, <1>5
    DEF Restorable, SlotRestorable, AttachReceipt, Frozen, AggregateTypeOK, Receipt
  <1>9. Restorable'
    BY <1>1, <1>7, <1>8 DEF Restorable, AttachReceipt, EnsurePending, Frozen, AggregateTypeOK
  <1>10. ReceiptsPast'
    BY <1>1, <1>4, <1>5 DEF ReceiptsPast, AttachReceipt, Frozen
  <1> QED
    BY <1>6, <1>9, <1>10 DEF AggregateInv

LEMMA SlotStepKeeps ==
    ASSUME AggregateAssumption, AggregateInv, NEW r \in Roles(kind), SlotStep(r)
    PROVE  AggregateInv'
  <1> USE DEF EmailState, ProviderState
  <1>1. CASE StartProvider(r)
    BY <1>1, TransitionSlotKeeps DEF StartProvider
  <1>2. CASE ClaimProviderCallback(r)
    BY <1>2, TransitionSlotKeeps DEF ClaimProviderCallback
  <1>3. CASE FailProviderExchange(r)
    BY <1>3, TransitionSlotKeeps DEF FailProviderExchange
  <1>4. CASE BeginEmail(r)
    BY <1>4, TransitionSlotKeeps DEF BeginEmail
  <1>5. CASE MarkEmailChallengePending(r)
    BY <1>5, TransitionSlotKeeps DEF MarkEmailChallengePending
  <1>6. CASE ReplaceEmailChallenge(r)
    BY <1>6, TransitionSlotKeeps DEF ReplaceEmailChallenge
  <1> QED
    BY <1>1, <1>2, <1>3, <1>4, <1>5, <1>6, AttachReceiptKeeps DEF SlotStep

\* Every operation has a role to prove, so that a ready intent is bound.
LEMMA ConfirmReadyKeeps ==
    ASSUME AggregateAssumption, AggregateInv, ConfirmReady
    PROVE  AggregateInv'
  <1>1. AggregateTypeOK'
    BY DEF AggregateInv, AggregateTypeOK, ConfirmReady, Frozen, Status
  <1>2. bound
    <2>1. PICK r : r \in Roles(kind)
      BY DEF AggregateInv, AggregateTypeOK, AggregateAssumption, Roles
    <2> QED
      BY <2>1 DEF AggregateInv, ConfirmReady, Restorable, SlotRestorable
  <1>3. Restorable' /\ ReceiptsPast'
    BY <1>2 DEF AggregateInv, AggregateTypeOK, ConfirmReady, EnsurePending, Frozen, Restorable,
                SlotRestorable, ReceiptsPast
  <1> QED
    BY <1>1, <1>3 DEF AggregateInv

LEMMA CompleteKeeps ==
    ASSUME AggregateInv, Complete
    PROVE  AggregateInv'
  <1>1. AggregateTypeOK /\ Restorable /\ ReceiptsPast
    BY DEF AggregateInv
  <1>2. \A r \in Roles(kind) :
            receipt[r] \in Receipt /\ receipt'[r] = [receipt[r] EXCEPT !.status = "consumed"]
    BY <1>1 DEF Complete, AggregateTypeOK, Receipt
  <1>3. \A r \in Roles(kind) :
            /\ receipt'[r] \in Receipt /\ receipt'[r].status = "consumed"
            /\ receipt'[r].issued = receipt[r].issued /\ receipt'[r].expires = receipt[r].expires
            /\ receipt'[r].captured = receipt[r].captured
    BY <1>2 DEF Receipt, ReceiptStatus
  <1>4. AggregateTypeOK'
    BY <1>1, <1>3 DEF AggregateTypeOK, Complete, Frozen, Status, Final, Receipt
  <1>5. \A r \in Roles(kind) : SlotRestorable(r)'
    BY <1>1, <1>3
    DEF Restorable, SlotRestorable, Complete, Frozen, AggregateTypeOK, Receipt
  <1>6. Restorable' /\ ReceiptsPast'
    BY <1>1, <1>3, <1>5 DEF Restorable, ReceiptsPast, Complete, Frozen, AggregateTypeOK
  <1> QED
    BY <1>4, <1>6 DEF AggregateInv

LEMMA TerminalizeKeeps ==
    ASSUME AggregateInv, NEW s \in {"expired", "cancelled"}, status \notin Final, Terminalize(s)
    PROVE  AggregateInv'
  <1>1. AggregateTypeOK /\ Restorable /\ ReceiptsPast
    BY DEF AggregateInv
  <1>2. \A r \in Roles(kind) :
            /\ receipt[r] \in Receipt /\ receipt[r].status \in {"none", "issued"}
            /\ slot'[r] = "expired"
            /\ receipt'[r] = IF receipt[r].status = "issued"
                             THEN [receipt[r] EXCEPT !.status = "expired"] ELSE receipt[r]
    BY <1>1 DEF Terminalize, AggregateTypeOK, Receipt, ReceiptStatus, Restorable, SlotRestorable, Final
  <1>3. \A r \in Roles(kind) :
            /\ receipt'[r] \in Receipt
            /\ receipt'[r].status = IF receipt[r].status = "issued" THEN "expired" ELSE "none"
            /\ receipt'[r].issued = receipt[r].issued /\ receipt'[r].expires = receipt[r].expires
            /\ receipt'[r].captured = receipt[r].captured
    <2> TAKE r \in Roles(kind)
    <2>1. CASE receipt[r].status = "issued"
      BY <1>2, <2>1 DEF Receipt, ReceiptStatus
    <2>2. CASE receipt[r].status = "none"
      BY <1>2, <2>2
    <2> QED
      BY <1>2, <2>1, <2>2
  <1>4. AggregateTypeOK'
    BY <1>1, <1>3 DEF AggregateTypeOK, Terminalize, Frozen, Status, Final, Receipt, SlotState
  <1>5. \A r \in Roles(kind) : SlotRestorable(r)'
    BY <1>1, <1>2, <1>3
    DEF Restorable, SlotRestorable, Terminalize, Frozen, AggregateTypeOK, Receipt, EmailState,
        ProviderState
  <1>6. Restorable' /\ ReceiptsPast'
    BY <1>1, <1>2, <1>3, <1>5 DEF Restorable, ReceiptsPast, Terminalize, Frozen, AggregateTypeOK
  <1> QED
    BY <1>4, <1>6 DEF AggregateInv

LEMMA AggregateStep ==
    ASSUME AggregateAssumption, AggregateInv, [AggregateNext]_aggregateVars
    PROVE  AggregateInv'
  <1>1. CASE Pass
    BY <1>1 DEF AggregateInv, AggregateTypeOK, Restorable, SlotRestorable, ReceiptsPast, Pass, Receipt
  <1>2. CASE Cancel
    BY <1>2, TerminalizeKeeps DEF Cancel
  <1>3. CASE Expire
    BY <1>3, TerminalizeKeeps DEF Expire
  <1>4. CASE UNCHANGED aggregateVars
    BY <1>4 DEF AggregateInv, AggregateTypeOK, Restorable, SlotRestorable, ReceiptsPast, aggregateVars
  <1> QED
    BY <1>1, <1>2, <1>3, <1>4, BindBrowserKeeps, SlotStepKeeps, ConfirmReadyKeeps, CompleteKeeps
    DEF AggregateNext

\* No sequence of operations leaves an intent that validate_restored would not
\* accept when it is read back.
THEOREM MutationsAreSafe == ASSUME AggregateAssumption PROVE AggregateSpec => []MutationSafe
  <1>1. AggregateInit => AggregateInv
    BY AggregateInitEstablishes
  <1>2. AggregateInv /\ [AggregateNext]_aggregateVars => AggregateInv'
    BY AggregateStep
  <1>3. AggregateInv => MutationSafe
    BY DEF AggregateInv, MutationSafe
  <1> QED
    BY <1>1, <1>2, <1>3, PTL DEF AggregateSpec

\* An intent completes while all of its proofs are fresh and were given within
\* one receipt's lifetime of each other, and stays as it ended (complete, terminalize).
THEOREM MutationsMoveByRight ==
    ASSUME AggregateAssumption PROVE AggregateSpec => [][MovesByRight]_aggregateVars
  <1>1. AggregateInit => AggregateInv
    BY AggregateInitEstablishes
  <1>2. AggregateInv /\ [AggregateNext]_aggregateVars => AggregateInv'
    BY AggregateStep
  <1>3. AggregateInv /\ [AggregateNext]_aggregateVars => [MovesByRight]_aggregateVars
    <2> SUFFICES ASSUME AggregateInv, AggregateNext PROVE MovesByRight
      OBVIOUS
    <2>1. CompletedWithFreshProofs
      <3>1. CASE Complete
        <4>1. \A r \in Roles(kind) : receipt[r].status = "issued" /\ now < receipt[r].expires
          BY <3>1 DEF Complete, AliveAt, Received
        <4>2. \A r \in Roles(kind) : /\ receipt[r].issued <= now
                                     /\ receipt[r].issued \in Nat /\ receipt[r].expires \in Nat
                                     /\ now \in Nat
          BY <4>1 DEF AggregateInv, ReceiptsPast, AggregateTypeOK
        <4> QED
          BY <4>1, <4>2 DEF CompletedWithFreshProofs
      <3> QED
        BY <3>1
        DEF AggregateNext, CompletedWithFreshProofs, Pass, BindBrowser, ConfirmReady, Cancel, Expire,
            Terminalize, SlotStep, StartProvider, ClaimProviderCallback, FailProviderExchange,
            BeginEmail, MarkEmailChallengePending, ReplaceEmailChallenge, TransitionSlot,
            AttachReceipt, Frozen
    <2>2. EndsOnce
      BY DEF AggregateNext, EndsOnce, Pass, BindBrowser, ConfirmReady, Complete, Cancel, Expire, Final,
             SlotStep, StartProvider, ClaimProviderCallback, FailProviderExchange, BeginEmail,
             MarkEmailChallengePending, ReplaceEmailChallenge, TransitionSlot, AttachReceipt,
             EnsurePending
    <2> QED
      BY <2>1, <2>2 DEF MovesByRight
  <1> QED
    BY <1>1, <1>2, <1>3, PTL DEF AggregateSpec
=============================================================================
