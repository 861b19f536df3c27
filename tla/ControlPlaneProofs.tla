------------------------- MODULE ControlPlaneProofs -------------------------
(***************************************************************************)
(* What every component's proof needs to know of the owner rows and the    *)
(* clock: they keep their types, and no row changes without moving its     *)
(* revision forward.                                                       *)
(***************************************************************************)
EXTENDS ControlPlane, TLAPS

\* One command's update keeps the type of the rows.
LEMMA ReviseType ==
    ASSUME ControlTypeOK, NEW touched, NEW S, NEW status \in OwnerStatus,
           Revise(touched, S, status)
    PROVE  ControlTypeOK'
  BY DEF ControlTypeOK, Revise, Revision

\* Whatever operators do and however time passes, owner rows keep their type.
LEMMA ControlNextType == ControlTypeOK /\ ControlNext => ControlTypeOK'
  <1> SUFFICES ASSUME ControlTypeOK, ControlNext PROVE ControlTypeOK'
    OBVIOUS
  <1>1. {"active", "disabled", "closed"} = OwnerStatus
    BY DEF OwnerStatus
  <1>2. CASE Tick
    BY <1>2 DEF Tick, ControlTypeOK
  <1>3. CASE ProjectCommand
    BY <1>1, <1>3, ReviseType
    DEF ProjectCommand, UpdateProject, UpdateProjectPolicy, DisableProject, EnableProject,
        DeleteProject, ReplaceApplicationConfiguration, DisableApplication
  <1>4. CASE MethodCommand
    BY <1>1, <1>4, ReviseType
    DEF MethodCommand, UpdateProvider, UpdateProviderEgressPolicy, AssignProvider,
        UnassignProvider, DisableProvider, UpdateEmailPolicy, AssignEmailMethod
  <1>5. CASE SubjectCommand
    BY <1>1, <1>5, ReviseType
    DEF SubjectCommand, DisableProjectUser, EnableProjectUser, FanOutProjectedUser,
        ActivateSigningKey, TransitionSigningKey
  <1> QED
    BY <1>2, <1>3, <1>4, <1>5 DEF ControlNext

\* The revisions a transaction captures are a snapshot.
LEMMA SnapshotType == ControlTypeOK => Snapshot \in OwnerSnapshot
  BY DEF ControlTypeOK, Snapshot, OwnerSnapshot

\* A clock reading is a time that has been, at most MaxClockLag ago.
LEMMA ClockReadingType ==
    ASSUME ControlTypeOK, NEW t \in ClockReading
    PROVE  t \in Nat /\ t <= now /\ now <= t + MaxClockLag
  BY ControlPlaneAssumption DEF ControlTypeOK, ClockReading

\* No row is changed without a new revision.
OwnersForward ==
    \A o \in Owners : owner'[o] = owner[o] \/ owner'[o].revision > owner[o].revision

\* One command's update moves the revisions of what it touches.
LEMMA ReviseForward ==
    ASSUME ControlTypeOK, NEW touched, NEW S, NEW status, Revise(touched, S, status)
    PROVE  OwnersForward
  BY DEF ControlTypeOK, Revise, Revision, OwnersForward

\* So does every operator command; the clock touches no row.
LEMMA ControlNextForward == ControlTypeOK /\ ControlNext => OwnersForward
  BY ReviseForward
  DEF ControlNext, ProjectCommand, MethodCommand, SubjectCommand, Tick, OwnersForward,
      UpdateProject, UpdateProjectPolicy, DisableProject, EnableProject, DeleteProject,
      ReplaceApplicationConfiguration, DisableApplication, UpdateProvider,
      UpdateProviderEgressPolicy, AssignProvider, UnassignProvider, DisableProvider,
      UpdateEmailPolicy, AssignEmailMethod, DisableProjectUser, EnableProjectUser,
      FanOutProjectedUser, ActivateSigningKey, TransitionSigningKey

\* A set of rows that has moved on from a snapshot never returns to it: this is
\* what lets a later transaction trust a comparison of revisions.
LEMMA StaleStaysStale ==
    ASSUME ControlTypeOK, ControlTypeOK', OwnersForward, NEW S \in SUBSET Owners, NEW snap,
           \A o \in S : snap[o] \in Nat /\ snap[o] <= owner[o].revision,
           ~Current(S, snap)
    PROVE  \E o \in S : owner'[o].status # "active" \/ owner'[o].revision # snap[o]
  BY DEF ControlTypeOK, OwnersForward, Current, Active, Revision
=============================================================================
